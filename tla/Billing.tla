------------------------------- MODULE Billing -------------------------------
(***************************************************************************)
(* The life of an order across package api, the order store, the recharge  *)
(* service and the resource platform: CreateOrder and ModifyOrder of       *)
(* api/usage.go, each run by a goroutine per request, and the maintainer   *)
(* goroutine of api/maintain.go that renews orders, all of them through    *)
(* createOrder and endOrder.                                               *)
(*                                                                         *)
(* A goroutine is at one call at a time (proc[p].pc) and works on copies   *)
(* of rows it read before.  Calls to the store are the actions of          *)
(* OrderStore; nothing locks an order between two of them.                 *)
(*                                                                         *)
(* Time is not modelled: the maintainer may pick any consuming order it    *)
(* has charged before, and a switch may find its old order at any point of *)
(* its cycle.                                                              *)
(***************************************************************************)
EXTENDS Integers, FiniteSets

CONSTANTS
    Users,           \* goroutines that serve API requests
    Maintainer,      \* the goroutine of StartMaintaining
    Ids, Slots, NamedSlots, NoSlot, MaxNumRenewalRetries, MaxConsume,
    Nil,          \* the nil *PurchaseOrder
    Faults,          \* the kinds of failure the environment produces
    MaxDeductions    \* bound: deductions made for one consume of one order

ASSUME MaintainerAssumption == Maintainer \notin Users
ASSUME FaultsAssumption == Faults \subseteq {"db", "payment", "resource", "crash"}
ASSUME SlotsAssumption == NamedSlots \subseteq Slots /\ NoSlot \notin Slots
ASSUME LimitsAssumption ==
    {MaxNumRenewalRetries, MaxDeductions} \subseteq Nat /\ MaxConsume \in Nat \ {0}

VARIABLES
    orders, history, copies, tx,   \* the store
    proc,       \* what every goroutine is doing
    instance,   \* the order whose instance or quota a slot carries, or Nil
    deducted,   \* ghost: deductions the recharge service made, by (order, consume)
    free        \* ghost: orders whose first consume a switch's credit pays in full

storeVars == <<orders, history, copies, tx>>
vars == <<orders, history, copies, tx, proc, instance, deducted, free>>

Procs == Users \cup {Maintainer}
Kinds == {"new", "renew", "switch"}

Store == INSTANCE OrderStore WITH Clients <- Procs

ASSUME NilAssumption == Nil \notin Ids \cup Store!Copy

\* What a goroutine is at: a call, or between the two halves of a transaction.
Calls == {"idle", "insert", "inserting", "price", "allocate", "pay", "count", "counting",
          "rollback", "short", "quota", "destroy", "end", "ending", "renew", "renewing"}

ProcState == [pc : Calls, job : {"none", "create", "cancel", "renew"},
              slot : Slots \cup {NoSlot},
              order : Store!Copy \cup {Nil}, old : Store!Copy \cup {Nil},
              kind : Kinds, due : BOOLEAN, short : BOOLEAN]

Idle == [pc |-> "idle", job |-> "none", slot |-> NoSlot, order |-> Nil,
         old |-> Nil, kind |-> "new", due |-> TRUE, short |-> FALSE]

Init ==
    /\ Store!StoreInit
    /\ proc = [p \in Procs |-> Idle]
    /\ instance = [s \in Slots |-> Nil]
    /\ deducted = [i \in Ids |-> [k \in 1 .. MaxConsume |-> 0]]
    /\ free = {}

At(p, l) == proc[p].pc = l
Goto(p, l) == proc' = [proc EXCEPT ![p].pc = l]
Return(p) == proc' = [proc EXCEPT ![p] = Idle]

Consuming(s) == {i \in Ids : orders[i].slot = s /\ orders[i].status = "consuming"}
\* Mutant: DEADLINE_TIME is not scanned.
ReadMutant(i) == [id |-> i, last |-> orders[i].last, deadline |-> 0]

Read(i) == Store!CopyOf(i, orders[i])

-----------------------------------------------------------------------------
(***************************************************************************)
(* api.CreateOrder up to the pending row.  The order id of a quota order   *)
(* is made of the account and the plan type, so a consuming order of the   *)
(* same slot is the old order to switch from (any one of them, the query   *)
(* is not ordered); every other order id is random and has no old order.   *)
(* Requests that are refused or dry runs change nothing and are left out.  *)
(***************************************************************************)
IdsLeft ==
    Cardinality({i \in Ids : orders[i].status = "absent"})
      > Cardinality({q \in Users : proc[q].pc \in {"insert", "inserting"}})

OldOrders(s) == IF s \in NamedSlots THEN {} ELSE Consuming(s)

ReceiveCreate(p, s) ==
    /\ At(p, "idle")
    /\ IdsLeft
    /\ \E old \in IF OldOrders(s) = {} THEN {Nil} ELSE {Read(i) : i \in OldOrders(s)} :
          proc' = [proc EXCEPT ![p] = [Idle EXCEPT !.pc = "insert", !.job = "create",
                                                   !.slot = s, !.old = old]]
    /\ UNCHANGED <<storeVars, instance, deducted, free>>

InsertBegin(p) ==
    /\ At(p, "insert")
    /\ Store!CreateBegin(p, proc[p].slot)
    /\ Goto(p, "inserting")
    /\ UNCHANGED <<instance, deducted, free>>

\* createOrder's first round is for volumes and backing service instances.
AfterInsert(p) ==
    CASE proc[p].slot \in NamedSlots -> "allocate"
      [] proc[p].old # Nil -> "price"
      [] OTHER -> "pay"

InsertCommit(p) ==
    /\ At(p, "inserting")
    /\ \E i \in Ids :
          /\ Store!CreateCommit(p, i)
          /\ \/ proc' = [proc EXCEPT ![p].order = [id |-> i, last |-> 0, deadline |-> 0],
                                     ![p].pc = AfterInsert(p)]
             \/ "db" \in Faults /\ Return(p)
    /\ UNCHANGED <<instance, deducted, free>>

(***************************************************************************)
(* createOrder: what remains of the old order's last charge is credited.   *)
(* After its deadline nothing remains and the order counts as new; before, *)
(* it is a switch, which may cost nothing, or be refused because more      *)
(* remains than the new plan costs.  How much remains, and when the code   *)
(* panics over it, is in Cycle; here a panic is a crash.                   *)
(***************************************************************************)
Price(p) ==
    /\ At(p, "price")
    /\ \/ /\ Store!HasConsume(proc[p].old.id, proc[p].old.last)
          /\ \E kind \in {"new", "switch"}, due \in BOOLEAN :
                /\ kind = "new" => due
                /\ proc' = [proc EXCEPT ![p].pc = "pay", ![p].kind = kind, ![p].due = due]
                /\ free' = IF due THEN free ELSE free \cup {proc[p].order.id}
       \/ Return(p) /\ UNCHANGED free
    /\ UNCHANGED <<storeVars, instance, deducted>>

\* createPersistentVolume, createBSI: refused while the name is in use.
Allocate(p) ==
    LET s == proc[p].slot
    IN  /\ At(p, "allocate")
        /\ \/ /\ instance[s] = Nil
              /\ instance' = [instance EXCEPT ![s] = proc[p].order.id]
              /\ Goto(p, "pay") \/ ("resource" \in Faults /\ Return(p))
           \/ /\ instance[s] # Nil \/ "resource" \in Faults
              /\ Return(p)
              /\ UNCHANGED instance
        /\ UNCHANGED <<storeVars, deducted, free>>

-----------------------------------------------------------------------------
(***************************************************************************)
(* makePayment for consume order.last + 1.  It succeeds, is refused for an *)
(* insufficient balance, or fails with or without the money deducted.  The *)
(* code names a payment by Order_id and number, which the orders an        *)
(* account makes of one quota plan share; deducted keeps each order apart. *)
(***************************************************************************)
AfterPay(p) ==
    IF proc[p].job = "create" /\ proc[p].slot \notin NamedSlots THEN "quota" ELSE "renew"

Deduct(p) ==
    LET i == proc[p].order.id
        k == proc[p].order.last + 1
    IN  /\ deducted[i][k] < MaxDeductions
        /\ deducted' = [deducted EXCEPT ![i][k] = @ + 1]

\* Mutant: no switch pays, whatever its price.
NothingToPayMutant(p) ==
    /\ At(p, "pay")
    /\ proc[p].kind = "switch"
    /\ Goto(p, AfterPay(p))
    /\ UNCHANGED <<storeVars, instance, deducted, free>>

NothingToPay(p) ==
    /\ At(p, "pay")
    /\ ~proc[p].due
    /\ Goto(p, AfterPay(p))
    /\ UNCHANGED <<storeVars, instance, deducted, free>>

PayOk(p) ==
    /\ At(p, "pay")
    /\ proc[p].due
    /\ Deduct(p)
    /\ Goto(p, AfterPay(p))
    /\ UNCHANGED <<storeVars, instance, free>>

\* Mutant: a payment that fails is tried again.
PaysAgainMutant(p) ==
    /\ At(p, "pay")
    /\ proc[p].due
    /\ "payment" \in Faults
    /\ Deduct(p)
    /\ UNCHANGED <<storeVars, proc, instance, free>>

\* short: the balance is insufficient.
PayFails(p) ==
    /\ At(p, "pay")
    /\ proc[p].due
    /\ \/ /\ proc' = [proc EXCEPT ![p].pc = "count", ![p].short = TRUE]
          /\ UNCHANGED deducted
       \/ /\ "payment" \in Faults
          /\ Goto(p, "count")
          /\ Deduct(p) \/ UNCHANGED deducted
    /\ UNCHANGED <<storeVars, instance, free>>

\* IncreaseOrderRenewalFails: its own errors are only logged.
AfterCount(p) ==
    CASE proc[p].job = "create" /\ proc[p].slot \in NamedSlots -> Goto(p, "rollback")
      [] proc[p].job = "renew" /\ proc[p].short -> Goto(p, "short")
      [] OTHER -> Return(p)

CountBegin(p) ==
    /\ At(p, "count")
    /\ Store!FailBegin(p, proc[p].order.id)
    /\ Goto(p, "counting")
    /\ UNCHANGED <<instance, deducted, free>>

CountCommit(p) ==
    /\ At(p, "counting")
    /\ Store!FailCommit(p)
    /\ AfterCount(p)
    /\ UNCHANGED <<instance, deducted, free>>

(***************************************************************************)
(* A resource is destroyed by its name, whoever holds it by then.  A name  *)
(* that is not in use is an error of the volume service and a success of   *)
(* destroyBSI; a quota can always be zeroed.                               *)
(***************************************************************************)
DestroyOk(s) == instance' = [instance EXCEPT ![s] = Nil]

DestroyFails(s) ==
    \/ UNCHANGED instance /\ ("resource" \in Faults \/ (s \in NamedSlots /\ instance[s] = Nil))
    \/ "resource" \in Faults /\ DestroyOk(s)

\* Mutant: the deferred function forgets the resource.
RollbackMutant(p) ==
    /\ At(p, "rollback")
    /\ Return(p)
    /\ UNCHANGED <<storeVars, instance, deducted, free>>

\* The deferred function of the first round, when the payment did not succeed.
Rollback(p) ==
    /\ At(p, "rollback")
    /\ DestroyOk(proc[p].slot) \/ DestroyFails(proc[p].slot)
    /\ Return(p)
    /\ UNCHANGED <<storeVars, deducted, free>>

(***************************************************************************)
(* The second round: changeDfProjectQuotaWithPlan.  An error leaves the    *)
(* order charged and pending.                                              *)
(***************************************************************************)
AfterQuota(p) == IF proc[p].old # Nil THEN "end" ELSE "renew"

Quota(p) ==
    /\ At(p, "quota")
    /\ \/ /\ instance' = [instance EXCEPT ![proc[p].slot] = proc[p].order.id]
          /\ Goto(p, AfterQuota(p)) \/ ("resource" \in Faults /\ Return(p))
       \/ /\ "resource" \in Faults
          /\ Return(p)
          /\ UNCHANGED instance
    /\ UNCHANGED <<storeVars, deducted, free>>

-----------------------------------------------------------------------------
(***************************************************************************)
(* usage.EndOrder, of the old order in createOrder and of the order itself *)
(* in endOrder.                                                            *)
(***************************************************************************)
Ending(p) == IF proc[p].job = "create" THEN proc[p].old ELSE proc[p].order

AfterEnd(p) == IF proc[p].job = "create" THEN Goto(p, "renew") ELSE Return(p)

EndBegin(p) ==
    /\ At(p, "end")
    /\ Store!EndBegin(p, Ending(p))
    /\ Goto(p, "ending")
    /\ UNCHANGED <<instance, deducted, free>>

EndCommit(p) ==
    /\ At(p, "ending")
    /\ \/ Store!EndCommit(p) /\ (AfterEnd(p) \/ ("db" \in Faults /\ Return(p)))
       \/ Store!EndNothing(p) /\ AfterEnd(p)
    /\ UNCHANGED <<instance, deducted, free>>

\* usage.RenewOrder, the last step of createOrder.
RenewBegin(p) ==
    /\ At(p, "renew")
    /\ Store!RenewBegin(p, proc[p].order, proc[p].kind)
    /\ Goto(p, "renewing")
    /\ UNCHANGED <<instance, deducted, free>>

RenewCommit(p) ==
    /\ At(p, "renewing")
    /\ Store!RenewCommit(p)
    /\ Return(p)
    /\ UNCHANGED <<instance, deducted, free>>

-----------------------------------------------------------------------------
(***************************************************************************)
(* The ways a call to the store comes back without having done its work:   *)
(* it refuses what it read, its insert meets a taken key, or the database  *)
(* reports an error before the commit or instead of it.                    *)
(***************************************************************************)
\* Mutant: an error of EndOrder on the old order is only logged.
GiveUpMutant(p) ==
    CASE proc[p].pc \in {"count", "counting"} -> AfterCount(p)
      [] proc[p].pc \in {"end", "ending"} -> AfterEnd(p)
      [] OTHER -> Return(p)

GiveUp(p) == IF proc[p].pc \in {"count", "counting"} THEN AfterCount(p) ELSE Return(p)

Refused(p) ==
    /\ \/ At(p, "insert") /\ Store!CreateRefused(proc[p].slot)
       \/ At(p, "count") /\ ~Store!RetriesLeft(orders[proc[p].order.id].retries)
       \/ At(p, "end") /\ ~Store!Endable(Ending(p))
       \/ At(p, "renew") /\ Store!MovedOn(proc[p].order)
    /\ GiveUp(p)
    /\ UNCHANGED <<storeVars, instance, deducted, free>>

\* Mutant: no rollback after a failed insert.
CollidesMutant(p) ==
    /\ Store!RenewCollides(p) \/ Store!EndCollides(p)
    /\ GiveUp(p)
    /\ UNCHANGED <<storeVars, instance, deducted, free>>

Collides(p) ==
    /\ Store!RenewCollides(p) \/ Store!EndCollides(p)
    /\ Store!Abort(p)
    /\ GiveUp(p)
    /\ UNCHANGED <<instance, deducted, free>>

DbFails(p) ==
    /\ "db" \in Faults
    /\ \/ proc[p].pc \in {"insert", "count", "end", "renew"} /\ UNCHANGED storeVars
       \/ Store!Abort(p)
    /\ GiveUp(p)
    /\ UNCHANGED <<instance, deducted, free>>

-----------------------------------------------------------------------------
(***************************************************************************)
(* ModifyOrder, "cancel": the row is read, then endOrder destroys the      *)
(* resource and ends the order.                                            *)
(***************************************************************************)
ReceiveCancel(p, i) ==
    /\ At(p, "idle")
    /\ orders[i].status = "consuming"
    /\ proc' = [proc EXCEPT ![p] = [Idle EXCEPT !.pc = "destroy", !.job = "cancel",
                                         !.slot = orders[i].slot, !.order = Read(i)]]
    /\ UNCHANGED <<storeVars, instance, deducted, free>>

Destroy(p) ==
    /\ At(p, "destroy")
    /\ \/ DestroyOk(proc[p].slot) /\ Goto(p, "end")
       \/ DestroyFails(proc[p].slot) /\ Return(p)
    /\ UNCHANGED <<storeVars, deducted, free>>

\* Mutant: pending orders are not filtered out.
PickDueMutant(i) ==
    /\ At(Maintainer, "idle")
    /\ orders[i].status \in {"pending", "consuming"}
    /\ orders[i].last < MaxConsume
    /\ proc' = [proc EXCEPT ![Maintainer] =
                   [Idle EXCEPT !.pc = "pay", !.job = "renew", !.kind = "renew",
                                !.slot = orders[i].slot, !.order = Read(i)]]
    /\ UNCHANGED <<storeVars, instance, deducted, free>>

(***************************************************************************)
(* TryToRenewConsumingOrders takes the orders of its batch one after       *)
(* another; the copy it pays with is as old as its query.                  *)
(***************************************************************************)
PickDue(i) ==
    /\ At(Maintainer, "idle")
    /\ orders[i].status = "consuming" /\ orders[i].payed
    /\ orders[i].last < MaxConsume
    /\ proc' = [proc EXCEPT ![Maintainer] =
                   [Idle EXCEPT !.pc = "pay", !.job = "renew", !.kind = "renew",
                                !.slot = orders[i].slot, !.order = Read(i)]]
    /\ UNCHANGED <<storeVars, instance, deducted, free>>

\* onInsufficientBalance: a warning, or the end of a long expired order.
Short(p) ==
    /\ At(p, "short")
    /\ Return(p) \/ Goto(p, "destroy")
    /\ UNCHANGED <<storeVars, instance, deducted, free>>

\* The process dies and comes back: goroutines and open transactions are gone.
Crash ==
    /\ "crash" \in Faults
    /\ Store!StoreCrash
    /\ proc' = [p \in Procs |-> Idle]
    /\ UNCHANGED <<instance, deducted, free>>

Step(p) ==
    \/ InsertBegin(p) \/ InsertCommit(p) \/ Price(p) \/ Allocate(p)
    \/ NothingToPay(p) \/ PayOk(p) \/ PayFails(p)
    \/ CountBegin(p) \/ CountCommit(p) \/ Rollback(p) \/ Quota(p)
    \/ EndBegin(p) \/ EndCommit(p) \/ RenewBegin(p) \/ RenewCommit(p)
    \/ Refused(p) \/ Collides(p) \/ DbFails(p) \/ Destroy(p) \/ Short(p)

\* No request is being served: the process idles, or refuses what comes.
Rest ==
    /\ \A p \in Procs : At(p, "idle")
    /\ UNCHANGED vars

Next ==
    \/ \E p \in Users, s \in Slots : ReceiveCreate(p, s)
    \/ \E p \in Users, i \in Ids : ReceiveCancel(p, i)
    \/ \E i \in Ids : PickDue(i)
    \/ \E p \in Procs : Step(p)
    \/ Crash
    \/ Rest

Spec == Init /\ [][Next]_vars

-----------------------------------------------------------------------------
(***************************************************************************)
(* Goroutines, instances and deductions have the shapes the handlers give  *)
(* them, and a goroutine has a transaction open exactly inside a call.     *)
(***************************************************************************)
TypeOK ==
    /\ Store!TypeOK
    /\ proc \in [Procs -> ProcState]
    /\ \A p \in Procs : proc[p].pc \in {"inserting", "counting", "ending", "renewing"}
                            <=> tx[p] # Store!NoTx
    /\ instance \in [Slots -> Ids \cup {Nil}]
    /\ deducted \in [Ids -> [1 .. MaxConsume -> 0 .. MaxDeductions]]
    /\ free \subseteq Ids

WorksOn(p, i) == proc[p].order # Nil /\ proc[p].order.id = i
InHand(i) == \E p \in Procs : WorksOn(p, i)

(***************************************************************************)
(* Whatever fails, a consume in the history was deducted by the recharge   *)
(* service for that very order and consume.  Only a switch may be recorded *)
(* without, and only if its price came out as nothing: createOrder then    *)
(* makes no payment.                                                       *)
(***************************************************************************)
ConsumesAreDeducted ==
    \A h \in history : h.kind # "end" =>
        deducted[h.id][h.cid] > 0 \/ (h.kind = "switch" /\ h.id \in free)

(***************************************************************************)
(* Only the first consume of an order is a new one or a switch, and only   *)
(* later ones are renewals: the maintainer never charges an order whose    *)
(* creation is not finished.                                               *)
(***************************************************************************)
RenewalsFollow ==
    \A h \in history : h.kind # "end" => (h.cid > 1 <=> h.kind = "renew")

(***************************************************************************)
(* When createOrder comes to making the new order consuming, the order it  *)
(* replaces has ended, whoever ended it and in whatever state it is read.  *)
(***************************************************************************)
SwitchEndsOld ==
    \A p \in Procs :
        proc[p].pc \in {"renew", "renewing"} /\ proc[p].old # Nil
            => orders[proc[p].old.id].status = "ended"

(***************************************************************************)
(* Whatever fails, the first consume of an order is deducted at most once: *)
(* a creation that was interrupted is never taken up again.                *)
(***************************************************************************)
FirstChargeOnce == \A i \in Ids : deducted[i][1] <= 1

(***************************************************************************)
(* Every step of the handlers is a step of the store, a refinement of      *)
(* OrderStore by its callers.                                              *)
(***************************************************************************)
ImplementsStore == Store!StoreSpec

(***************************************************************************)
(* With no failures but refused payments, and no panic, a named resource   *)
(* that exists has an order that is being charged for it, or a goroutine   *)
(* in the middle of creating that order: nothing runs for free.            *)
(***************************************************************************)
NoOrphanInstance ==
    \A s \in NamedSlots : instance[s] # Nil =>
        \/ orders[instance[s]].status = "consuming"
        \/ orders[instance[s]].status = "pending" /\ InHand(instance[s])

(***************************************************************************)
(* As long as the database and the recharge service answer truthfully and  *)
(* the process stays up, no consume of an order is deducted twice.         *)
(***************************************************************************)
DeductedOnce == \A i \in Ids, k \in 1 .. MaxConsume : deducted[i][k] <= 1

-----------------------------------------------------------------------------
(***************************************************************************)
(* What the repository says and the code does not keep.                    *)
(***************************************************************************)

(***************************************************************************)
(* LAST_CONSUME_ID is 'charging times' (_db/initdb_v001.sql): once nobody  *)
(* works on an order, it was charged as often as its row says.             *)
(***************************************************************************)
ChargingTimes ==
    \A i \in Ids : ~InHand(i) =>
        \A k \in 1 .. MaxConsume : deducted[i][k] > 0 => k <= orders[i].last

(***************************************************************************)
(* "there should be most one consuming order for a orderId" (ModifyOrder): *)
(* the orders of a quota slot share one order id.                          *)
(***************************************************************************)
OneConsumingOrder ==
    \A s \in Slots \ NamedSlots : Cardinality(Consuming(s)) <= 1

(***************************************************************************)
(* An order corresponds to one service instance (readme.md): a consuming   *)
(* order nobody works on has its instance.                                 *)
(***************************************************************************)
OneOrderOneInstance ==
    \A i \in Ids : orders[i].status = "consuming" /\ ~InHand(i) =>
        instance[orders[i].slot] = i
=============================================================================
