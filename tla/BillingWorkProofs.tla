-------------------------- MODULE BillingWorkProofs --------------------------
(***************************************************************************)
(* Billing for any number of goroutines, orders, slots and charges: who    *)
(* works on which order, and what follows for the money and for the        *)
(* instances.  Whatever fails, an order is the work of one creation, and   *)
(* then the maintainer's alone as far as charges go.  As long as nothing   *)
(* but the resource platform fails no consume is deducted twice, and as    *)
(* long as nothing but payments fails no instance is left without an       *)
(* order.                                                                  *)
(***************************************************************************)
EXTENDS BillingProofs

-----------------------------------------------------------------------------
Creating(p) == proc[p].job = "create" /\ proc[p].order # Nil

Row(o) == orders[o.id]

\* The row of the order a goroutine works on, while it does.
WorkFits(p) ==
    /\ Creating(p) => Row(proc[p].order).status = "pending"
    /\ Creating(p) => Row(proc[p].order).slot = proc[p].slot
    /\ proc[p].job = "renew" => Row(proc[p].order).last = proc[p].order.last
    /\ proc[p].job \in {"cancel", "renew"} =>
          proc[p].order.last > 0 /\ Row(proc[p].order).slot = proc[p].slot
    /\ proc[p].old # Nil => Row(proc[p].old).slot = proc[p].slot

CreatorsApart ==
    \A p, q \in Procs : p # q /\ Creating(p) /\ Creating(q)
        => proc[p].order.id # proc[q].order.id

WorkInv == CreatorsApart /\ \A p \in Procs : WorkFits(p)

-----------------------------------------------------------------------------
\* A creation that has not paid.
Unpaid(p) ==
    Creating(p) /\ proc[p].pc \in {"price", "allocate", "pay"}
        => deducted[proc[p].order.id][1] = 0

\* Money goes to rows, and to a pending one only for its first consume.
PaidRows ==
    \A i \in Ids, k \in 1 .. MaxConsume : deducted[i][k] > 0 =>
        Store!Exists(i) /\ (orders[i].status = "pending" => k = 1)

FirstInv == PaidRows /\ FirstChargeOnce /\ \A p \in Procs : Unpaid(p)

-----------------------------------------------------------------------------
\* The maintainer has paid for consume k of order i and is recording it.
Recording(i, k) ==
    /\ proc[Maintainer].job = "renew"
    /\ proc[Maintainer].pc \in {"renew", "renewing"}
    /\ proc[Maintainer].order.id = i
    /\ proc[Maintainer].order.last + 1 = k

Recorded ==
    \A i \in Ids, k \in 1 .. MaxConsume :
        orders[i].status = "consuming" /\ deducted[i][k] > 0
            => k <= orders[i].last \/ Recording(i, k)

RenewalUnpaid ==
    LET m == proc[Maintainer]
    IN  m.job = "renew" /\ m.pc = "pay" => deducted[m.order.id][m.order.last + 1] = 0

OnceInv == Recorded /\ RenewalUnpaid /\ DeductedOnce

-----------------------------------------------------------------------------
\* The calls between the allocation of a resource and the end of its creation.
Allocated == {"pay", "count", "counting", "rollback", "renew", "renewing"}

Owned(s, i) ==
    /\ orders[i].slot = s
    /\ \/ orders[i].status = "consuming"
       \/ /\ orders[i].status = "pending"
          /\ \E p \in Procs : /\ Creating(p) /\ proc[p].pc \in Allocated
                              /\ proc[p].order.id = i

InstancesOwned == \A s \in NamedSlots : instance[s] # Nil => Owned(s, instance[s])

\* An order is ended after its resource is destroyed.
GoneBefore(p) ==
    proc[p].pc \in {"end", "ending"} /\ proc[p].job # "create" /\ proc[p].slot \in NamedSlots
        => instance[proc[p].slot] # proc[p].order.id

\* Quotas are changed for slots without a name only.
QuotaBlank(p) == proc[p].pc = "quota" => proc[p].slot \notin NamedSlots

OwnInv == InstancesOwned /\ \A p \in Procs : GoneBefore(p) /\ QuotaBlank(p)

-----------------------------------------------------------------------------
(***************************************************************************)
(* What steps do to rows and to the work of a goroutine.                   *)
(***************************************************************************)
Fixed(i) ==
    /\ orders'[i].last = orders[i].last /\ orders'[i].slot = orders[i].slot
    /\ \/ orders'[i].status = orders[i].status
       \/ orders[i].status = "consuming" /\ orders'[i].status = "ended"

AllFixed == \A i \in Ids : Fixed(i)

Carries(p) ==
    /\ proc'[p].job = proc[p].job /\ proc'[p].slot = proc[p].slot
    /\ proc'[p].order = proc[p].order /\ proc'[p].old = proc[p].old

Drops(p) == proc'[p] = Idle

LEMMA Carried ==
    ASSUME BillingInv, NEW p \in Procs, NEW l, Goto(p, l)
    PROVE  Only(p) /\ Carries(p) /\ proc'[p].pc = l
  BY DEF BillingInv, VarsOK, ProcState, Goto, Only, Carries

LEMMA Dropped ==
    ASSUME BillingInv, NEW p \in Procs, Return(p)
    PROVE  Only(p) /\ Drops(p)
  BY DEF BillingInv, VarsOK, Return, Only, Drops

LEMMA SameIsFixed == ASSUME UNCHANGED orders PROVE AllFixed
  BY DEF AllFixed, Fixed

\* The orders a goroutine refers to have rows.
LEMMA HeldExist ==
    ASSUME BillingInv, NEW p \in Procs
    PROVE  /\ proc[p].order # Nil => /\ proc[p].order.id \in Ids /\ proc[p].order.last \in Nat
                                     /\ Store!Exists(proc[p].order.id)
           /\ proc[p].old # Nil => proc[p].old.id \in Ids /\ Store!Exists(proc[p].old.id)
  BY DEF BillingInv, ProcInv, HoldsCopies, Store!StoreInv, Store!TypeOK, Store!CopiesBehind, Store!Copy

LEMMA RowFacts ==
    ASSUME BillingInv, NEW i \in Ids
    PROVE  /\ orders[i] \in Store!OrderRow /\ orders[i].last \in Nat
           /\ orders[i].status \in {"absent", "pending", "consuming", "ended"}
           /\ orders[i].status \in {"absent", "pending"} <=> orders[i].last = 0
  BY DEF BillingInv, Store!StoreInv, Store!TypeOK, Store!RowAgrees, Store!OrderRow, Store!Status

\* A renewal or a creation has its order in hand.
LEMMA JobFacts ==
    ASSUME BillingInv, NEW p \in Procs
    PROVE  /\ proc[p].job = "renew" => /\ p = Maintainer /\ proc[p].order # Nil
                                       /\ proc[p].order.last >= 1
           /\ proc[p].job = "cancel" => proc[p].order # Nil
           /\ Creating(p) => proc[p].order.last = 0
           /\ proc[p].job \in {"none", "create", "cancel", "renew"}
  BY DEF BillingInv, VarsOK, ProcInv, JobFits, CreateFits, CancelFits, RenewFits, ProcState,
         Creating

\* InsertCommit: a row appears.
LEMMA Inserts ==
    ASSUME BillingInv, NEW p \in Procs, NEW i \in Ids, At(p, "inserting"),
           Store!CreateCommit(p, i)
    PROVE  /\ ~Store!Exists(i)
           /\ orders'[i].status = "pending" /\ orders'[i].last = 0
           /\ orders'[i].slot = proc[p].slot
           /\ \A j \in Ids : j # i => orders'[j] = orders[j]
           /\ proc[p].job = "create"
<1>1. tx[p].slot = proc[p].slot
  BY DEF At, BillingInv, ProcInv, TxFits
<1>2. proc[p].job = "create"
  BY DEF At, BillingInv, VarsOK, ProcInv, JobFits, CancelFits, RenewFits, ProcState
<1> QED BY <1>1, <1>2 DEF Store!CreateCommit, Store!NewRow, BillingInv, Store!StoreInv, Store!TypeOK

\* RenewCommit: the row was as the goroutine knew it, and moves one consume on.
LEMMA Charges ==
    ASSUME BillingInv, NEW p \in Procs, RenewCommit(p)
    PROVE  LET i == proc[p].order.id
           IN  /\ Creating(p) \/ proc[p].job = "renew"
               /\ i \in Ids /\ orders[i].last = proc[p].order.last /\ orders[i].status # "ended"
               /\ orders'[i].status = "consuming" /\ orders'[i].last = orders[i].last + 1
               /\ orders'[i].slot = orders[i].slot
               /\ \A j \in Ids : j # i => orders'[j] = orders[j]
<1>1. /\ ProcInv(p) /\ proc[p].pc = "renewing" /\ proc[p] \in ProcState
      /\ Store!RenewCommit(p)
  BY DEF BillingInv, VarsOK, RenewCommit, At
<1>2. Creating(p) \/ (proc[p].job = "renew" /\ proc[p].order # Nil)
  BY <1>1 DEF ProcInv, JobFits, CreateFits, CancelFits, RenewFits, ProcState, Creating
<1>3. PICK i \in Ids : i = proc[p].order.id
  BY <1>2, HeldExist DEF Creating
<1>4. /\ tx[p].op = "renew" /\ tx[p].id = i /\ tx[p].last = proc[p].order.last
      /\ tx[p].last \in Nat /\ tx[p].last <= orders[i].last
  BY <1>1, <1>2, <1>3, HeldExist
  DEF ProcInv, TxFits, Creating, BillingInv, Store!StoreInv, Store!TxBehind
<1>5. Store!KeyFree(i, tx[p].last + 1) <=> Proved!KeyFree(i, tx[p].last + 1)
  BY DEF Store!KeyFree, Proved!KeyFree
<1>6. tx[p].last = orders[i].last /\ orders[i].status # "ended"
  BY <1>1, <1>4, <1>5, SameInv, StoreAssumptions, Proved!FreeKeyIsCurrent
  DEF Store!RenewCommit, BillingInv
<1>7. /\ orders'[i] = Store!Renewed(orders[i], tx[p])
      /\ \A j \in Ids : j # i => orders'[j] = orders[j]
  BY <1>1, <1>4 DEF Store!RenewCommit, BillingInv, Store!StoreInv, Store!TypeOK
<1> QED BY <1>2, <1>3, <1>4, <1>6, <1>7 DEF Store!Renewed

\* EndCommit: a row ends, and no other field of it changes.
LEMMA EndsRow ==
    ASSUME BillingInv, NEW p \in Procs, Store!EndCommit(p), At(p, "ending")
    PROVE  /\ AllFixed /\ Ending(p).id \in Ids
           /\ \A j \in Ids : j # Ending(p).id => orders'[j] = orders[j]
<1>1. tx[p].copy = Ending(p)
  BY DEF At, BillingInv, ProcInv, TxFits
<1>2. Ending(p).id \in Ids
  BY Ends DEF At, Store!Copy
<1>3. PICK i \in Ids : i = Ending(p).id
  BY <1>2
<1>4. orders' = [orders EXCEPT ![i].status = "ended"] /\ orders[i].status = "consuming"
  BY <1>1, <1>3 DEF Store!EndCommit, Store!StillConsuming
<1>5. \A j \in Ids : Fixed(j) /\ (j # i => orders'[j] = orders[j])
  BY <1>4 DEF Fixed, BillingInv, Store!StoreInv, Store!TypeOK, Store!OrderRow
<1> QED BY <1>3, <1>5 DEF AllFixed

-----------------------------------------------------------------------------
(***************************************************************************)
(* The steps that neither insert nor charge a row: the goroutine keeps its *)
(* work or drops it, money moves only at the payment.                      *)
(***************************************************************************)
ToSpend == {"price", "allocate", "pay"}

Spends(p) == proc[p].pc = "pay" /\ proc'[p].pc # "pay" /\ Deduct(p)

Minor(p) ==
    /\ AllFixed /\ Only(p)
    /\ Carries(p) \/ Drops(p)
    /\ proc'[p].pc \in ToSpend => proc[p].pc \in {"price", "allocate"}
    /\ UNCHANGED deducted \/ Spends(p)

LEMMA GoesMinor ==
    ASSUME BillingInv, NEW p \in Procs, NEW l, Goto(p, l), AllFixed, UNCHANGED deducted,
           l \in ToSpend => proc[p].pc \in {"price", "allocate"}
    PROVE  Minor(p)
  BY Carried DEF Minor

LEMMA ReturnsMinor ==
    ASSUME BillingInv, NEW p \in Procs, Return(p), AllFixed, UNCHANGED deducted
    PROVE  Minor(p)
  BY Dropped, IdleState DEF Minor, Drops, ToSpend

LEMMA GiveUpMinor ==
    ASSUME BillingInv, NEW p \in Procs, GiveUp(p), AllFixed, UNCHANGED deducted
    PROVE  Minor(p)
  BY GoesMinor, ReturnsMinor DEF GiveUp, AfterCount, ToSpend

LEMMA PaysMinor ==
    ASSUME BillingInv, NEW p \in Procs, NothingToPay(p) \/ PayOk(p) \/ PayFails(p)
    PROVE  Minor(p)
<1>1. proc[p].pc = "pay" /\ AllFixed
  BY SameIsFixed DEF NothingToPay, PayOk, PayFails, At, storeVars
<1>2. Only(p) /\ Carries(p) /\ proc'[p].pc \in {"quota", "renew", "count"}
  BY Carried
  DEF NothingToPay, PayOk, PayFails, AfterPay, Goto, Only, Carries, BillingInv, VarsOK, ProcState
<1>3. UNCHANGED deducted \/ Deduct(p)
  BY DEF NothingToPay, PayOk, PayFails
<1> QED BY <1>1, <1>2, <1>3 DEF Minor, Spends, ToSpend

LEMMA MinorSteps ==
    ASSUME BillingInv, NEW p \in Procs, Step(p), ~InsertCommit(p), ~RenewCommit(p)
    PROVE  Minor(p)
<1>1. CASE NothingToPay(p) \/ PayOk(p) \/ PayFails(p)
  BY <1>1, PaysMinor
<1>2. CASE InsertBegin(p) \/ CountBegin(p) \/ EndBegin(p) \/ RenewBegin(p)
  <2>1. AllFixed /\ UNCHANGED deducted
    BY <1>2, SameIsFixed
    DEF InsertBegin, CountBegin, EndBegin, RenewBegin, Store!CreateBegin, Store!FailBegin,
        Store!EndBegin, Store!RenewBegin
  <2> QED BY <1>2, <2>1, GoesMinor
          DEF InsertBegin, CountBegin, EndBegin, RenewBegin, ToSpend
<1>3. CASE CountCommit(p)
  <2>1. AllFixed
    BY <1>3
    DEF CountCommit, Store!FailCommit, AllFixed, Fixed, BillingInv, Store!StoreInv, Store!TypeOK,
        Store!OrderRow
  <2> QED BY <1>3, <2>1, GoesMinor, ReturnsMinor DEF CountCommit, AfterCount, ToSpend
<1>4. CASE EndCommit(p)
  <2>1. AllFixed /\ UNCHANGED deducted
    BY <1>4, EndsRow, SameIsFixed DEF EndCommit, Store!EndNothing
  <2> QED BY <1>4, <2>1, GoesMinor, ReturnsMinor DEF EndCommit, AfterEnd, ToSpend
<1>5. CASE Refused(p) \/ Collides(p) \/ DbFails(p)
  <2>1. AllFixed /\ UNCHANGED deducted /\ GiveUp(p)
    BY <1>5, SameIsFixed DEF Refused, Collides, DbFails, Store!Abort, storeVars
  <2> QED BY <2>1, GiveUpMinor
<1>6. CASE Price(p)
  <2>1. AllFixed /\ UNCHANGED deducted /\ proc[p].pc = "price"
    BY <1>6, SameIsFixed DEF Price, At, storeVars
  <2>2. CASE Return(p)
    BY <2>1, <2>2, ReturnsMinor
  <2>3. ASSUME NEW kind, NEW due,
               proc' = [proc EXCEPT ![p].pc = "pay", ![p].kind = kind, ![p].due = due]
        PROVE  Minor(p)
    BY <2>1, <2>3 DEF Minor, Only, Carries, BillingInv, VarsOK, ProcState
  <2> QED BY <1>6, <2>2, <2>3 DEF Price
<1>7. CASE Allocate(p) \/ Rollback(p) \/ Quota(p) \/ Destroy(p) \/ Short(p)
  <2>1. AllFixed /\ UNCHANGED deducted
    BY <1>7, SameIsFixed DEF Allocate, Rollback, Quota, Destroy, Short, storeVars
  <2>2. \/ Return(p)
        \/ proc[p].pc = "allocate" /\ Goto(p, "pay")
        \/ \E l \in {"end", "renew", "destroy"} : Goto(p, l)
    BY <1>7 DEF Allocate, Rollback, Quota, Destroy, Short, AfterQuota, At
  <2> QED BY <2>1, <2>2, GoesMinor, ReturnsMinor DEF ToSpend
<1> QED BY <1>1, <1>2, <1>3, <1>4, <1>5, <1>6, <1>7 DEF Step

-----------------------------------------------------------------------------
(***************************************************************************)
(* An order is the work of one creation, and its row stays what that       *)
(* creation, or the renewal after it, takes it to be.                      *)
(***************************************************************************)
LEMMA WorkMinor ==
    ASSUME BillingInv, WorkInv, NEW p \in Procs, AllFixed, Only(p), Carries(p) \/ Drops(p)
    PROVE  WorkInv'
<1>1. \A q \in Procs : \/ Carries(q)
                       \/ proc'[q].job = "none" /\ proc'[q].order = Nil /\ proc'[q].old = Nil
  BY IdleState DEF Only, Carries, Drops
<1>2. CreatorsApart'
  BY <1>1 DEF WorkInv, CreatorsApart, Creating, Carries
<1>3. ASSUME NEW q \in Procs PROVE WorkFits(q)'
  <2>1. CASE Carries(q)
    <3>1. /\ proc[q].order # Nil => proc[q].order.id \in Ids
          /\ proc[q].old # Nil => proc[q].old.id \in Ids
          /\ proc[q].job \in {"cancel", "renew"} => proc[q].order # Nil
      BY HeldExist, JobFacts
    <3>2. WorkFits(q)
      BY DEF WorkInv
    <3>3. /\ proc[q].order # Nil => Fixed(proc[q].order.id)
          /\ proc[q].old # Nil => Fixed(proc[q].old.id)
      BY <3>1 DEF AllFixed
    <3> QED BY <2>1, <3>1, <3>2, <3>3 DEF WorkFits, Creating, Carries, Row, Fixed
  <2> QED BY <1>1, <2>1 DEF WorkFits, Creating
<1> QED BY <1>2, <1>3 DEF WorkInv

LEMMA WorkInserts ==
    ASSUME BillingInv, WorkInv, NEW p \in Procs, InsertCommit(p)
    PROVE  WorkInv'
<1>1. PICK i \in Ids :
         /\ Store!CreateCommit(p, i)
         /\ \/ proc' = [proc EXCEPT ![p].order = [id |-> i, last |-> 0, deadline |-> 0],
                                    ![p].pc = AfterInsert(p)]
            \/ Return(p)
  BY DEF InsertCommit
<1>2. /\ ~Store!Exists(i) /\ orders'[i].status = "pending" /\ orders'[i].slot = proc[p].slot
      /\ \A j \in Ids : j # i => orders'[j] = orders[j]
      /\ proc[p].job = "create"
  BY <1>1, Inserts DEF InsertCommit
<1>3. /\ Only(p)
      /\ \/ Drops(p)
         \/ /\ proc'[p].job = "create" /\ proc'[p].slot = proc[p].slot
            /\ proc'[p].old = proc[p].old /\ proc'[p].order.id = i
  BY <1>1, <1>2, Dropped DEF Only, BillingInv, VarsOK, ProcState
<1>4. \A q \in Procs : /\ proc[q].order # Nil => proc[q].order.id # i /\ proc[q].order.id \in Ids
                       /\ proc[q].old # Nil => proc[q].old.id # i /\ proc[q].old.id \in Ids
  BY <1>2, HeldExist
<1>5. CreatorsApart'
  BY <1>3, <1>4, IdleState DEF WorkInv, CreatorsApart, Creating, Only, Drops
<1>6. ASSUME NEW q \in Procs, q # p PROVE WorkFits(q)'
  BY <1>2, <1>3, <1>4, <1>6, JobFacts DEF WorkInv, WorkFits, Creating, Row, Only
<1>7. WorkFits(p)'
  <2>1. CASE Drops(p)
    BY <2>1, IdleState DEF WorkFits, Creating, Drops
  <2>2. CASE ~Drops(p)
    BY <1>2, <1>3, <1>4, <2>2 DEF WorkInv, WorkFits, Creating, Row
  <2> QED BY <2>1, <2>2
<1> QED BY <1>5, <1>6, <1>7 DEF WorkInv

\* Nobody but the goroutine that charges an order expects a charge of it.
LEMMA ChargesAlone ==
    ASSUME BillingInv, WorkInv, NEW p \in Procs, RenewCommit(p), NEW q \in Procs, q # p
    PROVE  /\ Creating(q) => proc[q].order.id # proc[p].order.id
           /\ proc[q].job = "renew" => proc[q].order.id # proc[p].order.id
<1>1. /\ Creating(p) \/ proc[p].job = "renew"
      /\ proc[p].order.id \in Ids /\ orders[proc[p].order.id].last = proc[p].order.last
  BY Charges
<1>2. ASSUME Creating(q), proc[q].order.id = proc[p].order.id PROVE FALSE
  <2>1. proc[p].job = "renew"
    BY <1>1, <1>2 DEF WorkInv, CreatorsApart
  <2>2. orders[proc[p].order.id].status = "pending" /\ proc[p].order.last >= 1
    BY <1>2, <2>1, JobFacts DEF WorkInv, WorkFits, Row
  <2> QED BY <1>1, <2>2, RowFacts
<1>3. ASSUME proc[q].job = "renew", proc[q].order.id = proc[p].order.id PROVE FALSE
  <2>1. Creating(p)
    BY <1>1, <1>3, JobFacts
  <2>2. PICK n \in Nat : n = orders[proc[p].order.id].last
    BY <1>1, RowFacts
  <2>3. n = proc[q].order.last /\ proc[q].order.last >= 1
    BY <1>3, <2>2, JobFacts DEF WorkInv, WorkFits, Row
  <2>4. n = proc[p].order.last /\ proc[p].order.last = 0
    BY <1>1, <2>1, <2>2, JobFacts
  <2> QED BY <2>3, <2>4
<1> QED BY <1>2, <1>3

LEMMA WorkCharges ==
    ASSUME BillingInv, WorkInv, NEW p \in Procs, RenewCommit(p)
    PROVE  WorkInv'
<1>1. Only(p) /\ Drops(p)
  BY Dropped DEF RenewCommit
<1>2. /\ proc[p].order.id \in Ids
      /\ orders'[proc[p].order.id].slot = orders[proc[p].order.id].slot
      /\ \A j \in Ids : j # proc[p].order.id => orders'[j] = orders[j]
  BY Charges
<1>3. CreatorsApart'
  BY <1>1, IdleState DEF WorkInv, CreatorsApart, Creating, Only, Drops
<1>4. ASSUME NEW q \in Procs, q # p PROVE WorkFits(q)'
  <2>1. \A j \in Ids : orders'[j].slot = orders[j].slot
    BY <1>2
  <2>2. proc'[q] = proc[q] /\ WorkFits(q)
    BY <1>1, <1>4 DEF Only, WorkInv
  <2>3. /\ proc[q].order # Nil => proc[q].order.id \in Ids
        /\ proc[q].old # Nil => proc[q].old.id \in Ids
        /\ proc[q].job \in {"cancel", "renew"} => proc[q].order # Nil
    BY HeldExist, JobFacts
  <2>4. Creating(q) \/ proc[q].job = "renew"
          => orders'[proc[q].order.id] = orders[proc[q].order.id]
    BY <1>2, <1>4, <2>3, ChargesAlone DEF Creating
  <2> QED BY <2>1, <2>2, <2>3, <2>4 DEF WorkFits, Creating, Row
<1>5. WorkFits(p)'
  BY <1>1, IdleState DEF WorkFits, Creating, Drops
<1> QED BY <1>3, <1>4, <1>5 DEF WorkInv

\* A goroutine that takes up new work with no order of its own, or a read one.
LEMMA WorkTaken ==
    ASSUME BillingInv, WorkInv, NEW p \in Procs, NEW new \in ProcState,
           proc' = [proc EXCEPT ![p] = new], UNCHANGED orders,
           new.job = "create" => new.order = Nil,
           new.job # "create" => /\ new.order # Nil /\ new.old = Nil
                                 /\ new.order.last > 0
                                 /\ Row(new.order).last = new.order.last
                                 /\ Row(new.order).slot = new.slot,
           new.old # Nil => Row(new.old).slot = new.slot
    PROVE  WorkInv'
<1>1. Only(p) /\ proc'[p] = new
  BY DEF Only, BillingInv, VarsOK
<1>2. CreatorsApart'
  BY <1>1 DEF WorkInv, CreatorsApart, Creating, Only
<1>3. ASSUME NEW q \in Procs PROVE WorkFits(q)'
  BY <1>1 DEF WorkInv, WorkFits, Creating, Row, Only
<1> QED BY <1>2, <1>3 DEF WorkInv

LEMMA ReadOf ==
    ASSUME BillingInv, NEW i \in Ids, Store!Exists(i)
    PROVE  /\ Read(i) \in Store!Copy /\ Read(i) # Nil /\ Read(i).id = i
           /\ Row(Read(i)) = orders[i] /\ Read(i).last = orders[i].last
           /\ orders[i].status = "consuming" => Read(i).last > 0
  BY IdIsCopy, RowFacts DEF Row

LEMMA WorkReceives ==
    ASSUME BillingInv, WorkInv,
           \/ \E p \in Users, s \in Slots : ReceiveCreate(p, s)
           \/ \E p \in Users, i \in Ids : ReceiveCancel(p, i)
           \/ \E i \in Ids : PickDue(i)
    PROVE  WorkInv'
<1>1. ASSUME NEW p \in Users, NEW s \in Slots, ReceiveCreate(p, s) PROVE WorkInv'
  <2>1. PICK old \in IF OldOrders(s) = {} THEN {Nil} ELSE {Read(i) : i \in OldOrders(s)} :
           proc' = [proc EXCEPT ![p] = [Idle EXCEPT !.pc = "insert", !.job = "create",
                                                    !.slot = s, !.old = old]]
    BY <1>1 DEF ReceiveCreate
  <2>2. old # Nil => old \in Store!Copy /\ Row(old).slot = s
    BY <2>1, ReadOf DEF OldOrders, Consuming, Store!Exists
  <2> DEFINE new == [Idle EXCEPT !.pc = "insert", !.job = "create", !.slot = s, !.old = old]
  <2>3. new \in ProcState /\ new.job = "create" /\ new.order = Nil /\ new.old = old /\ new.slot = s
    BY <2>2 DEF Idle, ProcState, Calls, Kinds
  <2>4. proc' = [proc EXCEPT ![p] = new] /\ UNCHANGED orders /\ p \in Procs
    BY <1>1, <2>1 DEF ReceiveCreate, storeVars, Procs
  <2> HIDE DEF new
  <2> QED BY <2>2, <2>3, <2>4, WorkTaken
<1>2. ASSUME NEW p \in Users, NEW i \in Ids, ReceiveCancel(p, i) PROVE WorkInv'
  <2> DEFINE new == [Idle EXCEPT !.pc = "destroy", !.job = "cancel", !.slot = orders[i].slot,
                                 !.order = Read(i)]
  <2>1. proc' = [proc EXCEPT ![p] = new] /\ UNCHANGED orders /\ p \in Procs
    BY <1>2 DEF ReceiveCancel, storeVars, Procs
  <2>2. /\ Read(i) \in Store!Copy /\ Read(i) # Nil /\ Read(i).last > 0
        /\ Row(Read(i)) = orders[i] /\ Read(i).last = orders[i].last
    BY <1>2, ReadOf DEF ReceiveCancel, Store!Exists
  <2>3. orders[i].slot \in Slots \cup {NoSlot}
    BY RowFacts DEF Store!OrderRow
  <2>4. /\ new \in ProcState /\ new.job = "cancel" /\ new.order = Read(i) /\ new.old = Nil
        /\ new.slot = orders[i].slot
    BY <2>2, <2>3 DEF Idle, ProcState, Calls, Kinds
  <2> HIDE DEF new
  <2> QED BY <2>1, <2>2, <2>4, WorkTaken
<1>3. ASSUME NEW i \in Ids, PickDue(i) PROVE WorkInv'
  <2> DEFINE new == [Idle EXCEPT !.pc = "pay", !.job = "renew", !.kind = "renew",
                                 !.slot = orders[i].slot, !.order = Read(i)]
  <2>1. proc' = [proc EXCEPT ![Maintainer] = new] /\ UNCHANGED orders /\ Maintainer \in Procs
    BY <1>3 DEF PickDue, storeVars, Procs
  <2>2. /\ Read(i) \in Store!Copy /\ Read(i) # Nil /\ Read(i).last > 0
        /\ Row(Read(i)) = orders[i] /\ Read(i).last = orders[i].last
    BY <1>3, ReadOf DEF PickDue, Store!Exists
  <2>3. orders[i].slot \in Slots \cup {NoSlot}
    BY RowFacts DEF Store!OrderRow
  <2>4. /\ new \in ProcState /\ new.job = "renew" /\ new.order = Read(i) /\ new.old = Nil
        /\ new.slot = orders[i].slot
    BY <2>2, <2>3 DEF Idle, ProcState, Calls, Kinds
  <2> HIDE DEF new
  <2> QED BY <2>1, <2>2, <2>4, WorkTaken
<1> QED BY <1>1, <1>2, <1>3

\* No goroutine holds anything at first and after a crash.
LEMMA NoWork == ASSUME proc = [p \in Procs |-> Idle] PROVE WorkInv
  BY IdleState DEF WorkInv, CreatorsApart, WorkFits, Creating

LEMMA NoWorkAfter == ASSUME proc' = [p \in Procs |-> Idle] PROVE WorkInv'
  BY IdleState DEF WorkInv, CreatorsApart, WorkFits, Creating

LEMMA WorkStill == ASSUME WorkInv, UNCHANGED <<orders, proc>> PROVE WorkInv'
  BY DEF WorkInv, CreatorsApart, WorkFits, Creating, Row

LEMMA WorkKeeps == BillingInv /\ WorkInv /\ [Next]_vars => WorkInv'
<1> SUFFICES ASSUME BillingInv, WorkInv, [Next]_vars PROVE WorkInv'
  OBVIOUS
<1>1. ASSUME NEW p \in Procs, Step(p) PROVE WorkInv'
  <2>1. CASE ~InsertCommit(p) /\ ~RenewCommit(p)
    <3>1. Minor(p)
      BY <1>1, <2>1, MinorSteps
    <3> QED BY <3>1, WorkMinor DEF Minor
  <2> QED BY <2>1, WorkInserts, WorkCharges
<1>2. CASE Crash
  BY <1>2, NoWorkAfter DEF Crash
<1>3. CASE Rest \/ UNCHANGED vars
  BY <1>3, WorkStill DEF Rest, vars
<1> QED BY <1>1, <1>2, <1>3, WorkReceives DEF Next

(***************************************************************************)
(* Whatever fails, no two goroutines create the same order, an order is    *)
(* pending while it is created, and the maintainer's copy of the order it  *)
(* renews is never out of date: nothing else charges an order once its     *)
(* creation is over.                                                       *)
(***************************************************************************)
THEOREM OneAtWork == Spec => []WorkInv
<1>1. Init => WorkInv
  BY NoWork DEF Init
<1> QED BY <1>1, WorkKeeps, BillingInvariant, PTL DEF Spec

-----------------------------------------------------------------------------
(***************************************************************************)
(* The first consume of an order is deducted at most once, whatever fails: *)
(* its creation pays once and is never taken up again.                     *)
(***************************************************************************)
LEMMA DeductedType ==
    ASSUME BillingInv, NEW i \in Ids, NEW k \in 1 .. MaxConsume
    PROVE  deducted[i][k] \in Nat
  BY LimitsAssumption DEF BillingInv, VarsOK, LimitsAssumption

LEMMA SpendsOn ==
    ASSUME BillingInv, NEW p \in Procs, Spends(p)
    PROVE  \E i \in Ids, k \in 1 .. MaxConsume :
              /\ i = proc[p].order.id /\ k = proc[p].order.last + 1
              /\ deducted'[i][k] = deducted[i][k] + 1
              /\ \A j \in Ids, n \in 1 .. MaxConsume :
                    ~(j = i /\ n = k) => deducted'[j][n] = deducted[j][n]
              /\ \/ Creating(p) /\ k = 1
                 \/ proc[p].job = "renew" /\ k > 1 /\ orders[i].status # "pending"
<1>1. Creating(p) \/ (proc[p].job = "renew" /\ proc[p].order # Nil)
  BY DEF Spends, BillingInv, VarsOK, ProcInv, JobFits, CreateFits, CancelFits, RenewFits,
         ProcState, Creating
<1>2. PICK i \in Ids, k \in 1 .. MaxConsume : i = proc[p].order.id /\ k = proc[p].order.last + 1
  BY <1>1, ToPay DEF Creating
<1>3. /\ deducted' = [deducted EXCEPT ![i][k] = deducted[i][k] + 1]
      /\ deducted \in [Ids -> [1 .. MaxConsume -> 0 .. MaxDeductions]]
  BY <1>2 DEF Spends, Deduct, BillingInv, VarsOK
<1>4. /\ deducted'[i][k] = deducted[i][k] + 1
      /\ \A j \in Ids, n \in 1 .. MaxConsume :
            ~(j = i /\ n = k) => deducted'[j][n] = deducted[j][n]
  BY <1>3
<1>5. Creating(p) => k = 1
  BY <1>2, JobFacts
<1>6. proc[p].job = "renew" => k > 1 /\ orders[i].status # "pending"
  <2> SUFFICES ASSUME proc[p].job = "renew" PROVE k > 1 /\ orders[i].status # "pending"
    OBVIOUS
  <2>1. PICK n \in Nat : n = proc[p].order.last /\ n >= 1
    BY <1>1, JobFacts, HeldExist
  <2>2. proc[p].order \in copies
    BY <1>1 DEF BillingInv, ProcInv, HoldsCopies, Creating
  <2>3. n <= orders[i].last
    BY <1>2, <2>1, <2>2 DEF BillingInv, Store!StoreInv, Store!CopiesBehind
  <2> QED BY <1>2, <2>1, <2>3, RowFacts
<1> QED BY <1>1, <1>2, <1>4, <1>5, <1>6

LEMMA FirstQuiet ==
    ASSUME FirstInv, UNCHANGED deducted,
           \A i \in Ids : Store!Exists(i) =>
               /\ Store!Exists(i)'
               /\ orders'[i].status = "pending" => orders[i].status = "pending",
           \A q \in Procs : Unpaid(q)'
    PROVE  FirstInv'
  BY DEF FirstInv, PaidRows, FirstChargeOnce

LEMMA FirstMinor ==
    ASSUME BillingInv, WorkInv, FirstInv, NEW p \in Procs, Minor(p)
    PROVE  FirstInv'
<1>1. \A i \in Ids : Store!Exists(i) =>
               /\ Store!Exists(i)'
               /\ orders'[i].status = "pending" => orders[i].status = "pending"
  BY DEF Minor, AllFixed, Fixed, Store!Exists
<1>2. proc'[p].pc \in ToSpend /\ Creating(p)' => proc[p].pc \in {"price", "allocate"} /\ Creating(p)
  BY IdleState DEF Minor, Carries, Drops, Creating
<1>3. CASE UNCHANGED deducted
  <2>1. ASSUME NEW q \in Procs PROVE Unpaid(q)'
    BY <1>2, <1>3, IdleState
    DEF FirstInv, Unpaid, Minor, Only, Carries, Drops, Creating, ToSpend
  <2> QED BY <1>1, <1>3, <2>1, FirstQuiet
<1>4. CASE Spends(p)
  <2>1. PICK i \in Ids, k \in 1 .. MaxConsume :
              /\ i = proc[p].order.id /\ k = proc[p].order.last + 1
              /\ deducted'[i][k] = deducted[i][k] + 1
              /\ \A j \in Ids, n \in 1 .. MaxConsume :
                    ~(j = i /\ n = k) => deducted'[j][n] = deducted[j][n]
              /\ \/ Creating(p) /\ k = 1
                 \/ proc[p].job = "renew" /\ k > 1 /\ orders[i].status # "pending"
    BY <1>4, SpendsOn
  <2>2. Creating(p) => deducted[i][1] = 0
    BY <1>4, <2>1 DEF FirstInv, Unpaid, Spends
  <2>3. FirstChargeOnce'
    BY <2>1, <2>2, LimitsAssumption DEF FirstInv, FirstChargeOnce, LimitsAssumption
  <2>4. Store!Exists(i)
    BY <2>1, HeldExist, JobFacts DEF Creating
  <2>5. ASSUME NEW j \in Ids, NEW n \in 1 .. MaxConsume, deducted'[j][n] > 0
        PROVE  Store!Exists(j)' /\ (orders'[j].status = "pending" => n = 1)
    BY <1>1, <2>1, <2>4, <2>5 DEF FirstInv, PaidRows
  <2>6. ASSUME NEW q \in Procs PROVE Unpaid(q)'
    <3>1. CASE q = p
      BY <1>2, <1>4, <3>1 DEF Unpaid, Spends, ToSpend
    <3>2. CASE q # p
      <4> SUFFICES ASSUME Creating(q), proc[q].pc \in ToSpend
                   PROVE  deducted'[proc[q].order.id][1] = 0
        BY <3>2 DEF Unpaid, Minor, Only, Creating, ToSpend
      <4>1. deducted[proc[q].order.id][1] = 0 /\ proc[q].order.id \in Ids
        BY HeldExist DEF FirstInv, Unpaid, Creating, ToSpend
      <4>2. ~(proc[q].order.id = i /\ 1 = k)
        BY <2>1, <3>2 DEF WorkInv, CreatorsApart
      <4> QED BY <2>1, <4>1, <4>2, LimitsAssumption DEF LimitsAssumption
    <3> QED BY <3>1, <3>2
  <2> QED BY <2>3, <2>5, <2>6 DEF FirstInv, PaidRows
<1> QED BY <1>3, <1>4 DEF Minor

LEMMA FirstInserts ==
    ASSUME BillingInv, FirstInv, NEW p \in Procs, InsertCommit(p)
    PROVE  FirstInv'
<1>1. PICK i \in Ids :
         /\ Store!CreateCommit(p, i)
         /\ \/ proc' = [proc EXCEPT ![p].order = [id |-> i, last |-> 0, deadline |-> 0],
                                    ![p].pc = AfterInsert(p)]
            \/ Return(p)
  BY DEF InsertCommit
<1>2. /\ ~Store!Exists(i) /\ \A j \in Ids : j # i => orders'[j] = orders[j]
      /\ UNCHANGED deducted
  BY <1>1, Inserts DEF InsertCommit
<1>3. Only(p) /\ (Drops(p) \/ proc'[p].order.id = i)
  BY <1>1, Dropped DEF Only, BillingInv, VarsOK, ProcState
<1>4. deducted[i][1] = 0
  <2>1. 1 \in 1 .. MaxConsume
    BY LimitsAssumption DEF LimitsAssumption
  <2>2. ~(deducted[i][1] > 0) /\ deducted[i][1] \in Nat
    BY <1>2, <2>1, DeductedType DEF FirstInv, PaidRows
  <2> QED BY <2>2
<1>5. ASSUME NEW q \in Procs PROVE Unpaid(q)'
  BY <1>2, <1>3, <1>4, IdleState DEF FirstInv, Unpaid, Only, Drops, Creating
<1> QED BY <1>2, <1>5, FirstQuiet DEF Store!Exists

LEMMA FirstCharges ==
    ASSUME BillingInv, FirstInv, NEW p \in Procs, RenewCommit(p)
    PROVE  FirstInv'
<1>1. Only(p) /\ Drops(p) /\ UNCHANGED deducted
  BY Dropped DEF RenewCommit
<1>2. /\ proc[p].order.id \in Ids /\ orders'[proc[p].order.id].status = "consuming"
      /\ \A j \in Ids : j # proc[p].order.id => orders'[j] = orders[j]
  BY Charges
<1>3. ASSUME NEW q \in Procs PROVE Unpaid(q)'
  BY <1>1, IdleState DEF FirstInv, Unpaid, Only, Drops, Creating
<1> QED BY <1>1, <1>2, <1>3, FirstQuiet DEF Store!Exists

\* A goroutine takes up work, or all lose it: no creation is past its insert.
LEMMA FirstOther ==
    ASSUME FirstInv, UNCHANGED <<orders, deducted>>,
           \A q \in Procs : proc'[q] = proc[q] \/ ~Creating(q)'
    PROVE  FirstInv'
<1>1. ASSUME NEW q \in Procs PROVE Unpaid(q)'
  BY DEF FirstInv, Unpaid, Creating
<1> QED BY <1>1, FirstQuiet DEF Store!Exists

\* Who takes up work has no creation past its insert in hand.
LEMMA TakesUp ==
    ASSUME BillingInv,
           \/ \E p \in Users, s \in Slots : ReceiveCreate(p, s)
           \/ \E p \in Users, i \in Ids : ReceiveCancel(p, i)
           \/ \E i \in Ids : PickDue(i)
    PROVE  \E p \in Procs : /\ Only(p) /\ ~Creating(p)' /\ At(p, "idle")
                           /\ proc'[p].pc \in {"insert", "destroy", "pay"}
<1>1. ASSUME NEW p \in Users, NEW s \in Slots, ReceiveCreate(p, s)
      PROVE  /\ Only(p) /\ ~Creating(p)' /\ At(p, "idle") /\ p \in Procs
             /\ proc'[p].pc \in {"insert", "destroy", "pay"}
  <2>1. p \in Procs /\ At(p, "idle") /\ proc \in [Procs -> ProcState]
    BY <1>1 DEF ReceiveCreate, Procs, BillingInv, VarsOK
  <2>2. Only(p) /\ proc'[p].order = Nil /\ proc'[p].pc = "insert"
    BY <1>1, <2>1 DEF ReceiveCreate, Only, Idle
  <2> QED BY <2>1, <2>2 DEF Creating
<1>2. ASSUME NEW p \in Users, NEW i \in Ids, ReceiveCancel(p, i)
      PROVE  /\ Only(p) /\ ~Creating(p)' /\ At(p, "idle") /\ p \in Procs
             /\ proc'[p].pc \in {"insert", "destroy", "pay"}
  <2>1. p \in Procs /\ At(p, "idle") /\ proc \in [Procs -> ProcState]
    BY <1>2 DEF ReceiveCancel, Procs, BillingInv, VarsOK
  <2>2. Only(p) /\ proc'[p].job = "cancel" /\ proc'[p].pc = "destroy"
    BY <1>2, <2>1 DEF ReceiveCancel, Only, Idle
  <2> QED BY <2>1, <2>2 DEF Creating
<1>3. ASSUME NEW i \in Ids, PickDue(i)
      PROVE  /\ Only(Maintainer) /\ ~Creating(Maintainer)' /\ At(Maintainer, "idle")
             /\ Maintainer \in Procs /\ proc'[Maintainer].pc \in {"insert", "destroy", "pay"}
  BY <1>3 DEF PickDue, Only, Creating, BillingInv, VarsOK, Procs, Idle
<1> QED BY <1>1, <1>2, <1>3

LEMMA FirstKeeps == BillingInv /\ WorkInv /\ FirstInv /\ [Next]_vars => FirstInv'
<1> SUFFICES ASSUME BillingInv, WorkInv, FirstInv, [Next]_vars PROVE FirstInv'
  OBVIOUS
<1>1. ASSUME NEW p \in Procs, Step(p) PROVE FirstInv'
  <2>1. CASE ~InsertCommit(p) /\ ~RenewCommit(p)
    BY <1>1, <2>1, MinorSteps, FirstMinor
  <2> QED BY <2>1, FirstInserts, FirstCharges
<1>2. CASE Crash
  BY <1>2, FirstOther, IdleState DEF Crash, Store!StoreCrash, Creating
<1>3. CASE Rest \/ UNCHANGED vars
  BY <1>3, FirstOther DEF Rest, vars
<1>4. CASE \/ \E p \in Users, s \in Slots : ReceiveCreate(p, s)
           \/ \E p \in Users, i \in Ids : ReceiveCancel(p, i)
           \/ \E i \in Ids : PickDue(i)
  <2>1. UNCHANGED <<orders, deducted>>
    BY <1>4 DEF ReceiveCreate, ReceiveCancel, PickDue, storeVars
  <2> QED BY <1>4, <2>1, TakesUp, FirstOther DEF Only
<1> QED BY <1>1, <1>2, <1>3, <1>4 DEF Next

LEMMA FirstStarts == Init => FirstInv
  BY IdleState, LimitsAssumption
  DEF Init, FirstInv, PaidRows, FirstChargeOnce, Unpaid, Creating, LimitsAssumption

LEMMA FirstInvariant == Spec => []FirstInv
  BY FirstStarts, FirstKeeps, BillingInvariant, OneAtWork, PTL DEF Spec

(***************************************************************************)
(* Whatever fails, the first consume of an order is deducted at most once. *)
(***************************************************************************)
THEOREM CreationPaysOnce == Spec => []FirstChargeOnce
<1>1. FirstInv => FirstChargeOnce
  BY DEF FirstInv
<1> QED BY <1>1, FirstInvariant, PTL

-----------------------------------------------------------------------------
(***************************************************************************)
(* No consume is deducted twice while only the resource platform fails:    *)
(* what the maintainer pays for it records, unless the order has ended.    *)
(***************************************************************************)
NoneRecording == \A i \in Ids, k \in 1 .. MaxConsume : ~Recording(i, k)

LEMMA MaintainerIsProc == Maintainer \in Procs
  BY DEF Procs

LEMMA OnceQuiet ==
    ASSUME OnceInv, UNCHANGED deducted,
           \A i \in Ids : orders'[i].status = "consuming" =>
               orders[i].status = "consuming" /\ orders'[i].last = orders[i].last,
           \A i \in Ids, k \in 1 .. MaxConsume :
               Recording(i, k) => Recording(i, k)' \/ orders'[i].status # "consuming",
           RenewalUnpaid'
    PROVE  OnceInv'
  BY DEF OnceInv, Recorded, DeductedOnce

\* A renewal that has paid is only dropped when its order has ended.
LEMMA StillRecording ==
    ASSUME BillingInv, WorkInv, Faults \subseteq {"resource"}, Step(Maintainer),
           ~RenewCommit(Maintainer), NEW i \in Ids, NEW k \in 1 .. MaxConsume, Recording(i, k)
    PROVE  Recording(i, k)' \/ orders'[i].status # "consuming"
<1> DEFINE m == Maintainer
<1>1. /\ m \in Procs /\ proc[m].job = "renew" /\ proc[m].pc \in {"renew", "renewing"}
      /\ proc[m].order.id = i /\ proc[m].order.last + 1 = k
  BY MaintainerIsProc DEF Recording
<1>2. orders[i].last = proc[m].order.last
  BY <1>1 DEF WorkInv, WorkFits, Row
<1>3. ProcInv(m) /\ tx[m].op # "end"
  BY <1>1 DEF BillingInv, ProcInv, TxFits, Store!NoTx
<1>4. CASE RenewBegin(m)
  BY <1>1, <1>4, Carried DEF RenewBegin, Carries, Recording
<1>5. CASE Collides(m)
  <2>1. tx[m].id = i /\ tx[m].last = orders[i].last /\ ~Store!KeyFree(tx[m].id, tx[m].last + 1)
    BY <1>1, <1>2, <1>3, <1>5
    DEF Collides, Store!RenewCollides, Store!EndCollides, ProcInv, TxFits, Store!NoTx
  <2>2. PICK h \in history : h.id = i /\ h.cid = orders[i].last + 1
    BY <2>1 DEF Store!KeyFree
  <2>3. h.kind = "end"
    BY <2>2, RowFacts
    DEF BillingInv, Store!StoreInv, Store!LedgerShape, Store!ChargesMatch, Store!ChargingRows
  <2>4. orders[i].status = "ended"
    BY <2>2, <2>3 DEF BillingInv, Store!StoreInv, Store!LedgerShape, Store!EndsMatch, Store!EndRows
  <2> QED BY <1>5, <2>4 DEF Collides, Store!Abort
<1>6. CASE Refused(m)
  BY <1>1, <1>2, <1>6 DEF Refused, At, Store!MovedOn
<1>7. ~DbFails(m)
  BY DEF DbFails
<1> QED BY <1>1, <1>4, <1>5, <1>6, <1>7
        DEF Step, At, InsertBegin, InsertCommit, Price, Allocate, NothingToPay, PayOk, PayFails,
            CountBegin, CountCommit, Rollback, Quota, EndBegin, EndCommit, RenewCommit, Destroy,
            Short

LEMMA OnceMinor ==
    ASSUME BillingInv, WorkInv, FirstInv, OnceInv, Faults \subseteq {"resource"},
           NEW p \in Procs, Step(p), ~InsertCommit(p), ~RenewCommit(p)
    PROVE  OnceInv'
<1>1. Minor(p)
  BY MinorSteps
<1>2. \A i \in Ids : orders'[i].status = "consuming" =>
          orders[i].status = "consuming" /\ orders'[i].last = orders[i].last
  BY <1>1 DEF Minor, AllFixed, Fixed
<1>3. \A i \in Ids, k \in 1 .. MaxConsume :
          Recording(i, k) => Recording(i, k)' \/ orders'[i].status # "consuming"
  <2>1. CASE p = Maintainer
    BY <2>1, StillRecording
  <2>2. CASE p # Maintainer
    BY <1>1, <2>2, MaintainerIsProc DEF Minor, Only, Recording
  <2> QED BY <2>1, <2>2
<1>4. (proc[Maintainer].job = "renew" /\ proc[Maintainer].pc = "pay")'
        => /\ proc'[Maintainer] = proc[Maintainer] /\ p # Maintainer
  <2>1. proc[p].job = "renew" => proc[p].pc \notin {"price", "allocate"}
    BY DEF BillingInv, ProcInv, JobFits, RenewFits
  <2> QED BY <1>1, <2>1, IdleState, MaintainerIsProc DEF Minor, Only, Carries, Drops, ToSpend
<1>5. CASE UNCHANGED deducted
  <2>1. RenewalUnpaid'
    BY <1>4, <1>5 DEF OnceInv, RenewalUnpaid
  <2> QED BY <1>2, <1>3, <1>5, <2>1, OnceQuiet
<1>6. CASE Spends(p)
  <2>1. PICK i \in Ids, k \in 1 .. MaxConsume :
              /\ i = proc[p].order.id /\ k = proc[p].order.last + 1
              /\ deducted'[i][k] = deducted[i][k] + 1
              /\ \A j \in Ids, n \in 1 .. MaxConsume :
                    ~(j = i /\ n = k) => deducted'[j][n] = deducted[j][n]
              /\ \/ Creating(p) /\ k = 1
                 \/ proc[p].job = "renew" /\ k > 1 /\ orders[i].status # "pending"
    BY <1>6, SpendsOn
  <2>2. deducted[i][k] = 0
    BY <1>6, <2>1, JobFacts DEF FirstInv, Unpaid, OnceInv, RenewalUnpaid, Spends
  <2>3. DeductedOnce'
    BY <2>1, <2>2 DEF OnceInv, DeductedOnce
  <2>4. orders'[i].status = "consuming" => Recording(i, k)'
    <3> SUFFICES ASSUME orders'[i].status = "consuming" PROVE Recording(i, k)'
      OBVIOUS
    <3>1. proc[p].job = "renew" /\ p = Maintainer
      BY <1>2, <2>1, JobFacts DEF WorkInv, WorkFits, Row
    <3>2. PayOk(p)
      <4>1. ~DbFails(p)
        BY DEF DbFails
      <4>2. deducted' # deducted /\ proc[p].pc = "pay"
        BY <2>1, <2>2, <1>6 DEF Spends
      <4>3. ~PayFails(p)
        BY <4>2, <1>6 DEF PayFails
      <4>4. ~Collides(p)
        BY <4>2 DEF Collides, Store!Abort, BillingInv, ProcInv, TxFits
      <4> QED BY <4>1, <4>2, <4>3, <4>4
              DEF Step, At, InsertBegin, InsertCommit, Price, Allocate, NothingToPay,
                  CountBegin, CountCommit, Rollback, Quota, EndBegin, EndCommit, RenewBegin,
                  RenewCommit, Refused, Destroy, Short
    <3>3. AfterPay(p) = "renew"
      BY <3>1 DEF AfterPay
    <3> QED BY <2>1, <3>1, <3>2, <3>3, Carried DEF PayOk, Carries, Recording
  <2>5. ASSUME NEW j \in Ids, NEW n \in 1 .. MaxConsume, ~(j = i /\ n = k),
               orders'[j].status = "consuming", deducted'[j][n] > 0
        PROVE  n <= orders'[j].last \/ Recording(j, n)'
    BY <1>2, <1>3, <2>1, <2>5 DEF OnceInv, Recorded
  <2>6. RenewalUnpaid'
    <3> SUFFICES ASSUME (proc[Maintainer].job = "renew" /\ proc[Maintainer].pc = "pay")'
                 PROVE  deducted'[proc[Maintainer].order.id][proc[Maintainer].order.last + 1] = 0
      BY <1>4 DEF RenewalUnpaid
    <3>1. /\ proc[Maintainer].job = "renew" /\ proc[Maintainer].pc = "pay" /\ p # Maintainer
      BY <1>4
    <3>2. PICK j \in Ids, n \in 1 .. MaxConsume :
             j = proc[Maintainer].order.id /\ n = proc[Maintainer].order.last + 1
      BY <3>1, ToPay, JobFacts, MaintainerIsProc
    <3>3. n # 1 /\ k = 1
      BY <2>1, <3>1, <3>2, JobFacts, HeldExist, MaintainerIsProc
    <3> QED BY <2>1, <3>1, <3>2, <3>3 DEF OnceInv, RenewalUnpaid
  <2>7. Recorded'
    BY <2>4, <2>5 DEF Recorded
  <2> QED BY <2>3, <2>6, <2>7 DEF OnceInv
<1> QED BY <1>1, <1>5, <1>6 DEF Minor

LEMMA OnceInserts ==
    ASSUME BillingInv, OnceInv, NEW p \in Procs, InsertCommit(p)
    PROVE  OnceInv'
<1>1. PICK i \in Ids :
         /\ Store!CreateCommit(p, i)
         /\ \/ proc' = [proc EXCEPT ![p].order = [id |-> i, last |-> 0, deadline |-> 0],
                                    ![p].pc = AfterInsert(p)]
            \/ Return(p)
  BY DEF InsertCommit
<1>2. /\ orders'[i].status = "pending" /\ \A j \in Ids : j # i => orders'[j] = orders[j]
      /\ proc[p].job = "create" /\ UNCHANGED deducted
  BY <1>1, Inserts DEF InsertCommit
<1>3. Only(p) /\ (Drops(p) \/ proc'[p].job = "create")
  BY <1>1, <1>2, Dropped DEF Only, BillingInv, VarsOK, ProcState
<1>4. proc[Maintainer].job = "renew" => proc'[Maintainer] = proc[Maintainer]
  BY <1>2, <1>3, MaintainerIsProc DEF Only
<1>5. proc'[Maintainer].job = "renew" => proc'[Maintainer] = proc[Maintainer]
  BY <1>3, IdleState, MaintainerIsProc DEF Only, Drops
<1>6. RenewalUnpaid'
  BY <1>2, <1>5 DEF OnceInv, RenewalUnpaid
<1>7. \A j \in Ids, k \in 1 .. MaxConsume : Recording(j, k) => Recording(j, k)'
  BY <1>4 DEF Recording
<1> QED BY <1>2, <1>6, <1>7, OnceQuiet

LEMMA OnceCharges ==
    ASSUME BillingInv, WorkInv, FirstInv, OnceInv, NEW p \in Procs, RenewCommit(p)
    PROVE  OnceInv'
<1>1. Only(p) /\ Drops(p) /\ UNCHANGED deducted
  BY Dropped DEF RenewCommit
<1>2. PICK i \in Ids : i = proc[p].order.id
  BY Charges
<1>3. /\ Creating(p) \/ proc[p].job = "renew"
      /\ orders[i].last = proc[p].order.last /\ orders[i].status # "ended"
      /\ orders'[i].last = orders[i].last + 1
      /\ \A j \in Ids : j # i => orders'[j] = orders[j]
  BY <1>2, Charges
<1>4. RenewalUnpaid'
  BY <1>1, IdleState, MaintainerIsProc DEF OnceInv, RenewalUnpaid, Only, Drops
<1>5. ASSUME NEW n \in 1 .. MaxConsume, deducted'[i][n] > 0
      PROVE  n <= orders'[i].last
  <2>1. Store!Exists(i) /\ (orders[i].status = "pending" => n = 1)
    BY <1>1, <1>5 DEF FirstInv, PaidRows
  <2>2. CASE orders[i].status = "pending"
    BY <1>3, <2>1, <2>2, RowFacts
  <2>3. CASE orders[i].status # "pending"
    <3>1. orders[i].status = "consuming"
      BY <1>3, <2>1, <2>3, RowFacts DEF Store!Exists
    <3>2. n <= orders[i].last \/ Recording(i, n)
      BY <1>1, <1>5, <3>1 DEF OnceInv, Recorded
    <3>3. Recording(i, n) => n = orders[i].last + 1
      BY <1>3 DEF Recording, WorkInv, WorkFits, Row, Procs
    <3> QED BY <1>3, <3>2, <3>3, RowFacts
  <2> QED BY <2>2, <2>3
<1>6. ASSUME NEW j \in Ids, NEW n \in 1 .. MaxConsume, j # i,
             orders'[j].status = "consuming", deducted'[j][n] > 0
      PROVE  n <= orders'[j].last \/ Recording(j, n)'
  <2>1. n <= orders[j].last \/ Recording(j, n)
    BY <1>1, <1>3, <1>6 DEF OnceInv, Recorded
  <2>2. Recording(j, n) => p # Maintainer
    BY <1>2, <1>6 DEF Recording
  <2>3. p # Maintainer => (Recording(j, n) <=> Recording(j, n)')
    BY <1>1, MaintainerIsProc DEF Recording, Only
  <2> QED BY <1>3, <1>6, <2>1, <2>2, <2>3
<1>7. Recorded' /\ DeductedOnce'
  BY <1>1, <1>5, <1>6 DEF Recorded, OnceInv, DeductedOnce
<1> QED BY <1>4, <1>7 DEF OnceInv

\* What the maintainer picks to renew has not been paid for.
LEMMA OnceReceives ==
    ASSUME BillingInv, OnceInv,
           \/ \E p \in Users, s \in Slots : ReceiveCreate(p, s)
           \/ \E p \in Users, i \in Ids : ReceiveCancel(p, i)
           \/ \E i \in Ids : PickDue(i)
    PROVE  OnceInv'
<1>1. UNCHANGED <<orders, deducted>>
  BY DEF ReceiveCreate, ReceiveCancel, PickDue, storeVars
<1>2. PICK p \in Procs : Only(p) /\ At(p, "idle")
  BY TakesUp
<1>3. \A i \in Ids, k \in 1 .. MaxConsume : Recording(i, k) => Recording(i, k)'
  BY <1>2, MaintainerIsProc DEF Recording, Only, At
<1>4. RenewalUnpaid'
  <2>1. CASE \E i \in Ids : PickDue(i)
    <3>1. PICK i \in Ids : PickDue(i)
      BY <2>1
    <3>2. /\ proc'[Maintainer].order = Read(i) /\ proc[Maintainer].pc = "idle"
          /\ orders[i].status = "consuming" /\ orders[i].last < MaxConsume
      BY <3>1, MaintainerIsProc DEF PickDue, At, BillingInv, VarsOK, Idle
    <3>3. orders[i].last + 1 \in 1 .. MaxConsume /\ orders[i].last \in Nat
      BY <3>2, RowFacts, LimitsAssumption DEF LimitsAssumption
    <3>4. ~(deducted[i][orders[i].last + 1] > 0)
      BY <3>2, <3>3 DEF OnceInv, Recorded, Recording
    <3>5. deducted[i][orders[i].last + 1] = 0
      BY <3>3, <3>4, DeductedType
    <3>6. Read(i).id = i /\ Read(i).last = orders[i].last
      BY <3>2, ReadOf DEF Store!Exists
    <3> QED BY <1>1, <3>2, <3>5, <3>6 DEF RenewalUnpaid
  <2>2. ASSUME NEW q \in Users, proc'[q].job # "renew", Only(q)
        PROVE  RenewalUnpaid'
    BY <1>1, <2>2, MaintainerAssumption, MaintainerIsProc
    DEF MaintainerAssumption, OnceInv, RenewalUnpaid, Only
  <2>3. ASSUME NEW q \in Users, NEW s \in Slots, ReceiveCreate(q, s)
        PROVE  proc'[q].job # "renew" /\ Only(q)
    <3>1. \E v : proc' = [proc EXCEPT ![q] = v] /\ v.job = "create"
      <4>1. PICK old : proc' = [proc EXCEPT ![q] = [Idle EXCEPT !.pc = "insert", !.job = "create",
                                                                !.slot = s, !.old = old]]
        BY <2>3 DEF ReceiveCreate
      <4>2. [Idle EXCEPT !.pc = "insert", !.job = "create", !.slot = s, !.old = old].job = "create"
        BY DEF Idle
      <4> QED BY <4>1, <4>2
    <3>2. q \in Procs /\ proc \in [Procs -> ProcState]
      BY DEF BillingInv, VarsOK, Procs
    <3> QED BY <3>1, <3>2 DEF Only
  <2>4. ASSUME NEW q \in Users, NEW i \in Ids, ReceiveCancel(q, i)
        PROVE  proc'[q].job # "renew" /\ Only(q)
    BY <2>4 DEF ReceiveCancel, Idle, Only, BillingInv, VarsOK, Procs
  <2> QED BY <2>1, <2>2, <2>3, <2>4
<1> QED BY <1>1, <1>3, <1>4, OnceQuiet

LEMMA OnceStarts == Init => OnceInv
  BY IdleState, MaintainerIsProc, LimitsAssumption
  DEF Init, OnceInv, Recorded, RenewalUnpaid, DeductedOnce, LimitsAssumption

LEMMA OnceKeeps ==
    ASSUME Faults \subseteq {"resource"}
    PROVE  BillingInv /\ WorkInv /\ FirstInv /\ OnceInv /\ [Next]_vars => OnceInv'
<1> SUFFICES ASSUME BillingInv, WorkInv, FirstInv, OnceInv, [Next]_vars PROVE OnceInv'
  OBVIOUS
<1>1. ASSUME NEW p \in Procs, Step(p) PROVE OnceInv'
  BY <1>1, OnceMinor, OnceInserts, OnceCharges
<1>2. ~Crash
  BY DEF Crash
<1>3. CASE Rest \/ UNCHANGED vars
  BY <1>3, OnceQuiet DEF Rest, vars, Recording, OnceInv, RenewalUnpaid
<1> QED BY <1>1, <1>2, <1>3, OnceReceives DEF Next

(***************************************************************************)
(* As long as the database and the recharge service answer truthfully and  *)
(* the process stays up, no consume of an order is deducted twice, even    *)
(* when the resource platform fails and users cancel what is being         *)
(* renewed.                                                                *)
(***************************************************************************)
THEOREM PaidOnce ==
    ASSUME Faults \subseteq {"resource"}
    PROVE  Spec => []DeductedOnce
<1>1. BillingInv /\ WorkInv /\ FirstInv /\ OnceInv /\ [Next]_vars => OnceInv'
  BY OnceKeeps
<1>2. OnceInv => DeductedOnce
  BY DEF OnceInv
<1> QED BY <1>1, <1>2, OnceStarts, BillingInvariant, OneAtWork, FirstInvariant, PTL DEF Spec

-----------------------------------------------------------------------------
(***************************************************************************)
(* No instance without an order while only payments fail: a named resource *)
(* is destroyed before its order is ended, and a creation that allocated   *)
(* one either charges its order or destroys it.                            *)
(***************************************************************************)
Creates(p, i) == Creating(p) /\ proc[p].pc \in Allocated /\ proc[p].order.id = i

LEMMA OwnedStays ==
    ASSUME NEW p \in Procs, Only(p), NEW s, NEW i, Owned(s, i),
           orders'[i].slot = orders[i].slot, orders'[i].status = orders[i].status,
           Creates(p, i) => Creates(p, i)'
    PROVE  Owned(s, i)'
  BY DEF Owned, Only, Creates, Creating

\* A creation past its allocation goes on to the charge or to the rollback.
LEMMA StillCreates ==
    ASSUME BillingInv, WorkInv, Faults \subseteq {"payment"}, NEW p \in Procs, Step(p),
           ~RenewCommit(p), ~Rollback(p), NEW i \in Ids, Creates(p, i),
           proc[p].slot \in NamedSlots
    PROVE  Creates(p, i)'
<1>1. /\ ProcInv(p) /\ proc[p].job = "create" /\ proc[p].pc \in Allocated
      /\ proc[p].order.last = 0 /\ orders[i].last = 0 /\ orders[i].status = "pending"
      /\ proc[p].order.id = i
  BY JobFacts, RowFacts DEF Creates, Creating, WorkInv, WorkFits, Row, BillingInv
<1>2. ASSUME NEW l \in Allocated, Goto(p, l) PROVE Creates(p, i)'
  BY <1>2, Carried DEF Creates, Creating, Carries
<1>3. AfterCount(p) => Creates(p, i)'
  BY <1>1, <1>2 DEF AfterCount, Allocated
<1>4. CASE NothingToPay(p) \/ PayOk(p) \/ PayFails(p)
  <2>1. AfterPay(p) = "renew"
    BY <1>1 DEF AfterPay
  <2>2. proc'[p].pc \in {"renew", "count"} /\ Carries(p)
    BY <1>4, <2>1, Carried
    DEF NothingToPay, PayOk, PayFails, Goto, Carries, BillingInv, VarsOK, ProcState
  <2> QED BY <1>1, <2>2 DEF Creates, Creating, Carries, Allocated
<1>5. CASE CountBegin(p) \/ CountCommit(p) \/ RenewBegin(p)
  BY <1>2, <1>3, <1>5 DEF CountBegin, CountCommit, RenewBegin, Allocated
<1>6. CASE Refused(p)
  BY <1>1, <1>3, <1>6 DEF Refused, At, Store!MovedOn, GiveUp, Allocated
<1>7. ~Collides(p)
  <2> SUFFICES ASSUME Collides(p) PROVE FALSE
    OBVIOUS
  <2>1. tx[p].op = "renew" /\ ~Store!KeyFree(tx[p].id, tx[p].last + 1)
    BY <1>1 DEF Collides, Store!RenewCollides, Store!EndCollides, ProcInv, TxFits, Store!NoTx,
                Allocated
  <2>2. tx[p].id = i /\ tx[p].last = 0
    BY <1>1, <2>1 DEF ProcInv, TxFits, Store!NoTx, Allocated
  <2>3. PICK h \in history : h.id = i /\ h.cid = 1
    BY <2>1, <2>2 DEF Store!KeyFree
  <2>4. h.kind = "end"
    BY <1>1, <2>3
    DEF BillingInv, Store!StoreInv, Store!LedgerShape, Store!ChargesMatch, Store!ChargingRows
  <2> QED BY <1>1, <2>3, <2>4
          DEF BillingInv, Store!StoreInv, Store!LedgerShape, Store!EndsMatch, Store!EndRows
<1>8. ~DbFails(p)
  BY DEF DbFails
<1> QED BY <1>1, <1>4, <1>5, <1>6, <1>7, <1>8
        DEF Step, At, InsertBegin, InsertCommit, Price, Allocate, Quota, EndBegin, EndCommit,
            Destroy, Short, Allocated

\* The steps that change no instance and end no order.
LEMMA OwnQuiet ==
    ASSUME BillingInv, OwnInv, NEW p \in Procs, Only(p), UNCHANGED instance,
           \A i \in Ids : /\ orders'[i].slot = orders[i].slot
                          /\ orders'[i].status = orders[i].status,
           \A i \in Ids : Creates(p, i) /\ proc[p].slot \in NamedSlots => Creates(p, i)',
           \A i \in Ids : Creates(p, i) => orders[i].slot = proc[p].slot,
           GoneBefore(p)', QuotaBlank(p)'
    PROVE  OwnInv'
<1>1. ASSUME NEW s \in NamedSlots, instance'[s] # Nil PROVE Owned(s, instance[s])'
  <2>1. PICK i \in Ids : i = instance[s] /\ i = instance'[s] /\ Owned(s, i)
    BY <1>1, SlotsAssumption DEF SlotsAssumption, OwnInv, InstancesOwned, BillingInv, VarsOK
  <2>2. Creates(p, i) => Creates(p, i)'
    BY <1>1, <2>1 DEF Owned
  <2>3. Owned(s, i)'
    BY <2>1, <2>2, OwnedStays
  <2> QED BY <2>1, <2>3
<1>2. ASSUME NEW q \in Procs, q # p PROVE GoneBefore(q)' /\ QuotaBlank(q)'
  BY <1>2 DEF OwnInv, GoneBefore, QuotaBlank, Only
<1> QED BY <1>1, <1>2 DEF OwnInv, InstancesOwned

LEMMA OwnInserts ==
    ASSUME BillingInv, OwnInv, NEW p \in Procs, InsertCommit(p)
    PROVE  OwnInv'
<1>1. PICK i \in Ids :
         /\ Store!CreateCommit(p, i)
         /\ \/ proc' = [proc EXCEPT ![p].order = [id |-> i, last |-> 0, deadline |-> 0],
                                    ![p].pc = AfterInsert(p)]
            \/ Return(p)
  BY DEF InsertCommit
<1>2. /\ ~Store!Exists(i) /\ \A j \in Ids : j # i => orders'[j] = orders[j]
      /\ UNCHANGED instance /\ proc[p].order = Nil
  BY <1>1, Inserts DEF InsertCommit, At, BillingInv, ProcInv, JobFits, CreateFits
<1>3. Only(p) /\ proc'[p].pc \in {"idle", "allocate", "price", "pay"}
  BY <1>1, Dropped, IdleState DEF Only, BillingInv, VarsOK, ProcState, AfterInsert, Drops
<1>4. ASSUME NEW s \in NamedSlots, instance'[s] # Nil PROVE Owned(s, instance[s])'
  <2>1. PICK j \in Ids : j = instance[s] /\ j = instance'[s] /\ Owned(s, j)
    BY <1>2, <1>4, SlotsAssumption
    DEF SlotsAssumption, OwnInv, InstancesOwned, BillingInv, VarsOK
  <2>2. j # i /\ ~Creates(p, j)
    BY <1>2, <2>1 DEF Owned, Store!Exists, Creates, Creating
  <2> QED BY <1>2, <1>3, <2>1, <2>2, OwnedStays
<1>5. ASSUME NEW q \in Procs PROVE GoneBefore(q)' /\ QuotaBlank(q)'
  BY <1>2, <1>3 DEF OwnInv, GoneBefore, QuotaBlank, Only
<1> QED BY <1>4, <1>5 DEF OwnInv, InstancesOwned

LEMMA OwnCharges ==
    ASSUME BillingInv, WorkInv, OwnInv, NEW p \in Procs, RenewCommit(p)
    PROVE  OwnInv'
<1>1. Only(p) /\ Drops(p) /\ UNCHANGED instance
  BY Dropped DEF RenewCommit
<1>2. PICK i \in Ids : i = proc[p].order.id
  BY Charges
<1>3. /\ orders'[i].status = "consuming" /\ orders'[i].slot = orders[i].slot
      /\ \A j \in Ids : j # i => orders'[j] = orders[j]
  BY <1>2, Charges
<1>4. ASSUME NEW s \in NamedSlots, instance'[s] # Nil PROVE Owned(s, instance[s])'
  <2>1. PICK j \in Ids : j = instance[s] /\ j = instance'[s] /\ Owned(s, j)
    BY <1>1, <1>4, SlotsAssumption
    DEF SlotsAssumption, OwnInv, InstancesOwned, BillingInv, VarsOK
  <2>2. CASE j = i
    BY <1>3, <2>1, <2>2 DEF Owned
  <2>3. CASE j # i
    BY <1>1, <1>2, <1>3, <2>1, <2>3, OwnedStays DEF Creates
  <2> QED BY <2>1, <2>2, <2>3
<1>5. ASSUME NEW q \in Procs PROVE GoneBefore(q)' /\ QuotaBlank(q)'
  BY <1>1, IdleState DEF OwnInv, GoneBefore, QuotaBlank, Only, Drops
<1> QED BY <1>4, <1>5 DEF OwnInv, InstancesOwned

\* The new instance is of a creation that is now past its allocation.
LEMMA OwnAllocates ==
    ASSUME BillingInv, WorkInv, OwnInv, Faults \subseteq {"payment"}, NEW p \in Procs, Allocate(p)
    PROVE  OwnInv'
<1>1. /\ proc[p].pc = "allocate" /\ ProcInv(p) /\ UNCHANGED orders
      /\ proc[p].order # Nil /\ proc[p].job = "create" /\ proc[p].slot \in Slots
  BY DEF Allocate, At, storeVars, BillingInv, VarsOK, ProcInv, JobFits, CreateFits, CancelFits,
         RenewFits, ProcState
<1>2. PICK i \in Ids : i = proc[p].order.id
  BY <1>1, HeldExist
<1>3. orders[i].status = "pending" /\ orders[i].slot = proc[p].slot
  BY <1>1, <1>2 DEF WorkInv, WorkFits, Creating, Row
<1>4. \/ instance' = [instance EXCEPT ![proc[p].slot] = i] /\ Goto(p, "pay")
      \/ instance' = instance /\ Return(p)
  BY <1>2 DEF Allocate
<1>5. Only(p) /\ (Drops(p) \/ (Carries(p) /\ proc'[p].pc = "pay"))
  BY <1>4, Carried, Dropped
<1>6. ASSUME NEW s \in NamedSlots, instance'[s] # Nil PROVE Owned(s, instance[s])'
  <2>1. CASE instance'[s] = instance[s]
    <3>1. PICK j \in Ids : j = instance[s] /\ j = instance'[s] /\ Owned(s, j)
      BY <1>6, <2>1, SlotsAssumption
      DEF SlotsAssumption, OwnInv, InstancesOwned, BillingInv, VarsOK
    <3>2. ~Creates(p, j)
      BY <1>1 DEF Creates, Allocated
    <3> QED BY <1>1, <1>5, <3>1, <3>2, OwnedStays
  <2>2. CASE instance'[s] # instance[s]
    <3>1. /\ s = proc[p].slot /\ instance'[s] = i /\ Goto(p, "pay")
      BY <1>4, <2>2, SlotsAssumption DEF SlotsAssumption, BillingInv, VarsOK
    <3>2. Creates(p, i)'
      BY <1>1, <1>2, <3>1, Carried DEF Creates, Creating, Carries, Allocated
    <3>3. orders'[i].status = "pending" /\ orders'[i].slot = s
      BY <1>1, <1>3, <3>1
    <3>4. Owned(s, i)'
      BY <3>2, <3>3 DEF Owned, Creates
    <3> QED BY <3>1, <3>4
  <2> QED BY <2>1, <2>2
<1>7. ASSUME NEW q \in Procs PROVE GoneBefore(q)' /\ QuotaBlank(q)'
  <2>1. CASE q = p
    BY <1>5, <2>1, IdleState DEF GoneBefore, QuotaBlank, Drops
  <2>2. CASE q # p
    <3>1. proc'[q] = proc[q] /\ GoneBefore(q) /\ QuotaBlank(q)
      BY <1>5, <2>2 DEF Only, OwnInv
    <3> SUFFICES ASSUME proc[q].pc \in {"end", "ending"}, proc[q].job # "create",
                        proc[q].slot \in NamedSlots
                 PROVE  instance'[proc[q].slot] # proc[q].order.id
      BY <3>1 DEF GoneBefore, QuotaBlank
    <3>2. proc[q].job \in {"cancel", "renew"} /\ proc[q].order # Nil
      BY JobFacts DEF BillingInv, ProcInv, JobFits
    <3>3. PICK n \in Nat : n = proc[q].order.last /\ n > 0
      BY <3>2, HeldExist DEF WorkInv, WorkFits
    <3>4. /\ proc[q].order.id \in Ids /\ proc[q].order \in copies
      BY <3>2, HeldExist DEF BillingInv, ProcInv, HoldsCopies
    <3>5. n <= orders[proc[q].order.id].last
      BY <3>3, <3>4 DEF BillingInv, Store!StoreInv, Store!CopiesBehind
    <3>6. proc[q].order.id # i
      BY <1>3, <3>3, <3>5, RowFacts
    <3> QED BY <1>4, <3>1, <3>6, SlotsAssumption
            DEF SlotsAssumption, BillingInv, VarsOK, GoneBefore
  <2> QED BY <2>1, <2>2
<1> QED BY <1>6, <1>7 DEF OwnInv, InstancesOwned

\* A destroyed instance is no instance; the order it had may stay without.
LEMMA OwnDestroys ==
    ASSUME BillingInv, WorkInv, OwnInv, Faults \subseteq {"payment"}, NEW p \in Procs,
           Rollback(p) \/ Destroy(p)
    PROVE  OwnInv'
<1>1. /\ proc[p].pc \in {"rollback", "destroy"} /\ ProcInv(p) /\ UNCHANGED orders
      /\ DestroyOk(proc[p].slot) \/ DestroyFails(proc[p].slot)
  BY DEF Rollback, Destroy, At, storeVars, BillingInv, ProcInv
<1>2. /\ \/ proc[p].slot \in Slots /\ instance'[proc[p].slot] = Nil
         \/ proc[p].slot \notin Slots
      /\ \A s \in Slots : s # proc[p].slot => instance'[s] = instance[s]
  BY <1>1 DEF DestroyOk, DestroyFails, BillingInv, VarsOK
<1>3. /\ Only(p)
      /\ Drops(p) \/ Carries(p)
      /\ proc'[p].pc \in {"idle", "end"}
      /\ proc'[p].pc = "end" => DestroyOk(proc[p].slot)
  BY Carried, Dropped, IdleState DEF Rollback, Destroy, Drops
<1>4. ASSUME NEW s \in NamedSlots, instance'[s] # Nil PROVE Owned(s, instance[s])'
  <2>1. s \in Slots /\ s # proc[p].slot /\ instance'[s] = instance[s]
    BY <1>2, <1>4, SlotsAssumption DEF SlotsAssumption
  <2>2. PICK j \in Ids : j = instance[s] /\ j = instance'[s] /\ Owned(s, j)
    BY <1>4, <2>1 DEF OwnInv, InstancesOwned, BillingInv, VarsOK
  <2>3. ~Creates(p, j)
    BY <2>1, <2>2 DEF Owned, Creates, WorkInv, WorkFits, Row
  <2> QED BY <1>1, <1>3, <2>2, <2>3, OwnedStays
<1>5. ASSUME NEW q \in Procs, q # p PROVE GoneBefore(q)' /\ QuotaBlank(q)'
  <2>1. proc'[q] = proc[q] /\ GoneBefore(q) /\ QuotaBlank(q)
    BY <1>3, <1>5 DEF Only, OwnInv
  <2>2. \A s \in Slots : instance'[s] = instance[s] \/ instance'[s] = Nil
    BY <1>2
  <2> SUFFICES ASSUME proc[q].pc \in {"end", "ending"}, proc[q].job # "create",
                      proc[q].slot \in NamedSlots
               PROVE  instance'[proc[q].slot] # proc[q].order.id
    BY <2>1 DEF GoneBefore, QuotaBlank
  <2>3. proc[q].order.id \in Ids
    BY JobFacts, HeldExist DEF BillingInv, ProcInv, JobFits
  <2> QED BY <2>1, <2>2, <2>3, NilAssumption, SlotsAssumption
          DEF GoneBefore, NilAssumption, SlotsAssumption
<1>6. GoneBefore(p)' /\ QuotaBlank(p)'
  <2> SUFFICES ASSUME proc'[p].pc = "end", proc'[p].job # "create", proc'[p].slot \in NamedSlots
               PROVE  instance'[proc'[p].slot] # proc'[p].order.id
    BY <1>3 DEF GoneBefore, QuotaBlank
  <2>1. Carries(p) /\ proc[p].order.id \in Ids
    <3>1. Carries(p)
      BY <1>3, IdleState DEF Drops
    <3>2. proc[p].job # "none" /\ proc[p].job # "create"
      BY <1>1, <3>1 DEF Carries, ProcInv, JobFits
    <3> QED BY <3>1, <3>2, JobFacts, HeldExist
  <2>2. instance'[proc[p].slot] = Nil
    BY <1>2, <2>1, SlotsAssumption DEF SlotsAssumption, Carries
  <2> QED BY <2>1, <2>2, NilAssumption DEF NilAssumption, Carries
<1> QED BY <1>4, <1>5, <1>6 DEF OwnInv, InstancesOwned

\* The resource of an order that ends is gone already; an old order has no name.
LEMMA OwnEnds ==
    ASSUME BillingInv, WorkInv, OwnInv, NEW p \in Procs, EndCommit(p)
    PROVE  OwnInv'
<1>1. /\ proc[p].pc = "ending" /\ ProcInv(p) /\ UNCHANGED instance
      /\ Store!EndCommit(p) \/ (Store!EndNothing(p) /\ UNCHANGED orders)
      /\ AfterEnd(p) \/ Return(p)
  BY DEF EndCommit, At, BillingInv, Store!EndNothing
<1>2. Only(p) /\ proc'[p].pc \in {"idle", "renew"}
  BY <1>1, Carried, Dropped, IdleState DEF AfterEnd, Drops
<1>3. /\ AllFixed
      /\ \A j \in Ids : j # Ending(p).id => orders'[j] = orders[j]
  BY <1>1, EndsRow, SameIsFixed DEF At
<1>4. ASSUME NEW s \in NamedSlots, instance'[s] # Nil PROVE Owned(s, instance[s])'
  <2>1. PICK j \in Ids : j = instance[s] /\ j = instance'[s] /\ Owned(s, j)
    BY <1>1, <1>4, SlotsAssumption
    DEF SlotsAssumption, OwnInv, InstancesOwned, BillingInv, VarsOK
  <2>2. j # Ending(p).id
    <3> SUFFICES ASSUME j = Ending(p).id PROVE FALSE
      OBVIOUS
    <3>1. CASE proc[p].job = "create"
      <4>1. Ending(p) = proc[p].old /\ proc[p].old # Nil
        BY <1>1, <3>1, Ends
      <4>2. proc[p].slot \notin NamedSlots
        BY <1>1, <3>1, <4>1 DEF ProcInv, JobFits, CreateFits
      <4>3. orders[j].slot = proc[p].slot
        BY <4>1 DEF WorkInv, WorkFits, Row
      <4> QED BY <2>1, <4>2, <4>3 DEF Owned
    <3>2. CASE proc[p].job # "create"
      <4>1. Ending(p) = proc[p].order /\ proc[p].job \in {"cancel", "renew"}
        BY <1>1, <3>2, Ends DEF Ending
      <4>2. orders[j].slot = proc[p].slot
        BY <4>1 DEF WorkInv, WorkFits, Row
      <4> QED BY <1>1, <2>1, <3>2, <4>1, <4>2 DEF Owned, OwnInv, GoneBefore
    <3> QED BY <3>1, <3>2
  <2>3. ~Creates(p, j)
    BY <1>1 DEF Creates, Allocated
  <2> QED BY <1>2, <1>3, <2>1, <2>2, <2>3, OwnedStays
<1>5. ASSUME NEW q \in Procs PROVE GoneBefore(q)' /\ QuotaBlank(q)'
  BY <1>1, <1>2 DEF OwnInv, GoneBefore, QuotaBlank, Only
<1> QED BY <1>4, <1>5 DEF OwnInv, InstancesOwned

\* A quota has no name, so no named instance changes.
LEMMA OwnQuota ==
    ASSUME BillingInv, WorkInv, OwnInv, NEW p \in Procs, Quota(p)
    PROVE  OwnInv'
<1>1. /\ proc[p].pc = "quota" /\ proc[p].slot \notin NamedSlots /\ UNCHANGED orders
      /\ proc[p].job = "create"
      /\ \A s \in NamedSlots : instance'[s] = instance[s]
  BY SlotsAssumption
  DEF SlotsAssumption, Quota, At, storeVars, OwnInv, QuotaBlank, BillingInv, VarsOK, ProcInv,
      JobFits, CancelFits, RenewFits, ProcState
<1>2. Only(p) /\ (Drops(p) \/ (Carries(p) /\ proc'[p].pc \in {"end", "renew"}))
  BY Carried, Dropped DEF Quota, AfterQuota
<1>3. ASSUME NEW s \in NamedSlots, instance'[s] # Nil PROVE Owned(s, instance[s])'
  <2>1. PICK j \in Ids : j = instance[s] /\ j = instance'[s] /\ Owned(s, j)
    BY <1>1, <1>3, SlotsAssumption
    DEF SlotsAssumption, OwnInv, InstancesOwned, BillingInv, VarsOK
  <2>2. ~Creates(p, j)
    BY <1>1 DEF Creates, Allocated
  <2> QED BY <1>1, <1>2, <2>1, <2>2, OwnedStays
<1>4. ASSUME NEW q \in Procs PROVE GoneBefore(q)' /\ QuotaBlank(q)'
  <2>1. CASE q # p
    BY <1>1, <1>2, <2>1 DEF OwnInv, GoneBefore, QuotaBlank, Only
  <2>2. CASE q = p
    BY <1>1, <1>2, <2>2, IdleState DEF GoneBefore, QuotaBlank, Carries, Drops
  <2> QED BY <2>1, <2>2
<1> QED BY <1>3, <1>4 DEF OwnInv, InstancesOwned

\* The steps left over: no row and no instance changes.
LEMMA OwnElse ==
    ASSUME BillingInv, WorkInv, OwnInv, Faults \subseteq {"payment"}, NEW p \in Procs, Step(p),
           ~InsertCommit(p), ~RenewCommit(p), ~Allocate(p), ~Rollback(p), ~Destroy(p),
           ~EndCommit(p), ~Quota(p)
    PROVE  OwnInv'
<1> USE DEF Step
<1>1. Only(p) /\ (Carries(p) \/ Drops(p))
  BY MinorSteps DEF Minor
<1>2. UNCHANGED instance
  BY DEF InsertBegin, Price, NothingToPay, PayOk, PayFails, CountBegin, CountCommit, EndBegin,
         RenewBegin, Refused, Collides, DbFails, Short
<1>3. \A i \in Ids : orders'[i].slot = orders[i].slot /\ orders'[i].status = orders[i].status
  <2>1. CASE CountCommit(p)
    BY <2>1
    DEF CountCommit, Store!FailCommit, BillingInv, Store!StoreInv, Store!TypeOK, Store!OrderRow
  <2>2. CASE ~CountCommit(p)
    BY <2>2
    DEF InsertBegin, Price, NothingToPay, PayOk, PayFails, CountBegin, EndBegin, RenewBegin,
        Refused, Collides, DbFails, Short, Store!CreateBegin, Store!FailBegin, Store!EndBegin,
        Store!RenewBegin, Store!Abort, storeVars
  <2> QED BY <2>1, <2>2
<1>4. \A i \in Ids : Creates(p, i) => orders[i].slot = proc[p].slot
  BY DEF Creates, WorkInv, WorkFits, Row
<1>5. \A i \in Ids : Creates(p, i) /\ proc[p].slot \in NamedSlots => Creates(p, i)'
  BY StillCreates
<1>6. GoneBefore(p)'
  <2>1. proc'[p].pc \in {"end", "ending"} => proc[p].pc \in {"end", "ending"}
    <3>1. CASE AfterCount(p) \/ Return(p)
      BY <3>1, Carried, Dropped, IdleState DEF AfterCount, Drops
    <3>2. CASE NothingToPay(p) \/ PayOk(p) \/ PayFails(p) \/ Price(p)
      <4>1. proc'[p].pc \in {"idle", "quota", "renew", "count", "pay"}
        BY <3>2, IdleState
        DEF NothingToPay, PayOk, PayFails, Price, AfterPay, Goto, Return, BillingInv, VarsOK,
            ProcState
      <4> QED BY <4>1
    <3>3. CASE \/ InsertBegin(p) \/ CountBegin(p) \/ EndBegin(p) \/ RenewBegin(p)
               \/ Goto(p, "destroy")
      BY <3>3, Carried DEF InsertBegin, CountBegin, EndBegin, RenewBegin, At
    <3> QED BY <3>1, <3>2, <3>3 DEF CountCommit, Refused, Collides, DbFails, Short, GiveUp
  <2> QED BY <1>1, <1>2, <2>1, IdleState DEF OwnInv, GoneBefore, Carries, Drops
<1>7. QuotaBlank(p)'
  <2> SUFFICES ASSUME proc'[p].pc = "quota" PROVE proc[p].slot \notin NamedSlots
    BY <1>1, IdleState DEF QuotaBlank, Carries, Drops
  <2>1. ~AfterCount(p) /\ ~Return(p) /\ ~PayFails(p) /\ ~Price(p)
    BY Carried, Dropped, IdleState
    DEF AfterCount, Drops, PayFails, Price, Goto, BillingInv, VarsOK, ProcState
  <2>2. ~InsertBegin(p) /\ ~CountBegin(p) /\ ~EndBegin(p) /\ ~RenewBegin(p) /\ ~Short(p)
    BY <2>1, Carried DEF InsertBegin, CountBegin, EndBegin, RenewBegin, Short
  <2>3. NothingToPay(p) \/ PayOk(p)
    BY <2>1, <2>2 DEF CountCommit, Refused, Collides, DbFails, GiveUp
  <2> QED BY <2>3, Carried DEF NothingToPay, PayOk, AfterPay
<1> QED BY <1>1, <1>2, <1>3, <1>4, <1>5, <1>6, <1>7, OwnQuiet

LEMMA OwnReceives ==
    ASSUME BillingInv, OwnInv,
           \/ \E p \in Users, s \in Slots : ReceiveCreate(p, s)
           \/ \E p \in Users, i \in Ids : ReceiveCancel(p, i)
           \/ \E i \in Ids : PickDue(i)
    PROVE  OwnInv'
<1>1. UNCHANGED <<orders, instance>>
  BY DEF ReceiveCreate, ReceiveCancel, PickDue, storeVars
<1>2. PICK p \in Procs : /\ Only(p) /\ At(p, "idle")
                         /\ proc'[p].pc \in {"insert", "destroy", "pay"}
  BY TakesUp
<1>3. \A i \in Ids : ~Creates(p, i)
  BY <1>2 DEF At, Creates, Allocated
<1>4. GoneBefore(p)' /\ QuotaBlank(p)'
  BY <1>2 DEF GoneBefore, QuotaBlank
<1> QED BY <1>1, <1>2, <1>3, <1>4, OwnQuiet

LEMMA OwnKeeps ==
    ASSUME Faults \subseteq {"payment"}
    PROVE  BillingInv /\ WorkInv /\ OwnInv /\ [Next]_vars => OwnInv'
<1> SUFFICES ASSUME BillingInv, WorkInv, OwnInv, [Next]_vars PROVE OwnInv'
  OBVIOUS
<1>1. ASSUME NEW p \in Procs, Step(p) PROVE OwnInv'
  BY <1>1, OwnElse, OwnInserts, OwnCharges, OwnAllocates, OwnDestroys, OwnEnds, OwnQuota
<1>2. ~Crash
  BY DEF Crash
<1>3. CASE Rest \/ UNCHANGED vars
  BY <1>3 DEF Rest, vars, OwnInv, InstancesOwned, Owned, Creating, GoneBefore, QuotaBlank
<1> QED BY <1>1, <1>2, <1>3, OwnReceives DEF Next

LEMMA OwnStarts == Init => OwnInv
  BY IdleState, SlotsAssumption
  DEF SlotsAssumption, Init, OwnInv, InstancesOwned, GoneBefore, QuotaBlank

(***************************************************************************)
(* With no failures but refused payments, a named resource that exists has *)
(* an order that is charged for it, or a goroutine creating that order.    *)
(***************************************************************************)
THEOREM InstancesHaveOrders ==
    ASSUME Faults \subseteq {"payment"}
    PROVE  Spec => []NoOrphanInstance
<1>1. BillingInv /\ WorkInv /\ OwnInv /\ [Next]_vars => OwnInv'
  BY OwnKeeps
<1>2. OwnInv => NoOrphanInstance
  BY DEF OwnInv, InstancesOwned, Owned, Creating, NoOrphanInstance, InHand, WorksOn
<1> QED BY <1>1, <1>2, OwnStarts, BillingInvariant, OneAtWork, PTL DEF Spec
=============================================================================
