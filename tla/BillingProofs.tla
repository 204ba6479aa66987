---------------------------- MODULE BillingProofs ----------------------------
(***************************************************************************)
(* Billing for any number of goroutines, orders, slots and charges, and    *)
(* whatever fails: what the handlers hold and have paid for when they come *)
(* to a call, that they use the store only as OrderStore allows, and what  *)
(* the ledger and a switch owe to that.  Then, with fewer failures, what   *)
(* the code can promise about deductions and instances.                    *)
(***************************************************************************)
EXTENDS Billing, TLAPS

\* What OrderStoreProofs shows of the store, for these clients.
Proved == INSTANCE OrderStoreProofs WITH Clients <- Procs

-----------------------------------------------------------------------------
(***************************************************************************)
(* The inductive invariant.  A goroutine only passes on images the store   *)
(* has handed out.                                                         *)
(***************************************************************************)
HoldsCopies(p) ==
    /\ proc[p].order # Nil => proc[p].order \in copies
    /\ proc[p].old # Nil => proc[p].old \in copies

\* The calls of each job, and what is known of its order and its slot there.
CreateFits(p) ==
    /\ proc[p].slot \in Slots
    /\ proc[p].pc \notin {"idle", "short", "destroy"}
    /\ proc[p].pc \in {"insert", "inserting"} <=> proc[p].order = Nil
    /\ proc[p].order # Nil => proc[p].order.last = 0
    /\ proc[p].old # Nil => proc[p].slot \notin NamedSlots
    /\ proc[p].pc \in {"price", "end", "ending"} => proc[p].old # Nil
    /\ proc[p].kind \in {"new", "switch"}

CancelFits(p) ==
    /\ proc[p].pc \in {"destroy", "end", "ending"}
    /\ proc[p].order # Nil /\ proc[p].old = Nil /\ proc[p].kind = "new"

RenewFits(p) ==
    /\ proc[p].pc \in {"pay", "count", "counting", "short", "destroy", "end", "ending",
                       "renew", "renewing"}
    /\ proc[p].order # Nil /\ proc[p].old = Nil /\ proc[p].kind = "renew"
    /\ proc[p].order.last \in 1 .. MaxConsume - 1
    /\ p = Maintainer

JobFits(p) ==
    /\ proc[p].job = "none" => proc[p].pc = "idle"
    /\ proc[p].job = "create" => CreateFits(p)
    /\ proc[p].job = "cancel" => CancelFits(p)
    /\ proc[p].job = "renew" => RenewFits(p)
    /\ ~proc[p].due => proc[p].kind = "switch"

\* The transaction a goroutine has open is the one of its call.
TxFits(p) ==
    /\ proc[p].pc = "inserting" => tx[p].op = "create" /\ tx[p].slot = proc[p].slot
    /\ proc[p].pc = "counting" => tx[p].op = "fail"
    /\ proc[p].pc = "ending" => tx[p].op = "end" /\ tx[p].copy = Ending(p)
    /\ proc[p].pc = "renewing" => /\ tx[p].op = "renew"
                                  /\ tx[p].id = proc[p].order.id
                                  /\ tx[p].last = proc[p].order.last
                                  /\ tx[p].kind = proc[p].kind
    /\ proc[p].pc \notin {"inserting", "counting", "ending", "renewing"} => tx[p] = Store!NoTx

\* Past the payment of the consume it will record.
Past(p) ==
    \/ proc[p].pc \in {"quota", "renew", "renewing"}
    \/ proc[p].pc \in {"end", "ending"} /\ proc[p].job = "create"

HasPaid(p) ==
    Past(p) /\ proc[p].due => deducted[proc[p].order.id][proc[p].order.last + 1] > 0

\* Nothing is due only where the price came out as nothing.
IsFree(p) == ~proc[p].due => proc[p].order # Nil /\ proc[p].order.id \in free

OldHasEnded(p) ==
    proc[p].pc \in {"renew", "renewing"} /\ proc[p].old # Nil
        => orders[proc[p].old.id].status = "ended"

ProcInv(p) ==
    /\ HoldsCopies(p) /\ JobFits(p) /\ TxFits(p)
    /\ HasPaid(p) /\ IsFree(p) /\ OldHasEnded(p)

\* A query of an order is handed an image the store knows.
ReadsAreCopies == \A i \in Ids : Store!Exists(i) => Read(i) \in copies

\* The charging rows are of consumes the model counts.
LedgerInRange ==
    \A h \in history : h.kind # "end" => h.id \in Ids /\ h.cid \in 1 .. MaxConsume

VarsOK ==
    /\ proc \in [Procs -> ProcState]
    /\ instance \in [Slots -> Ids \cup {Nil}]
    /\ deducted \in [Ids -> [1 .. MaxConsume -> 0 .. MaxDeductions]]
    /\ free \subseteq Ids

TablesInv == ReadsAreCopies /\ LedgerInRange /\ ConsumesAreDeducted /\ RenewalsFollow

BillingInv == Store!StoreInv /\ VarsOK /\ (\A p \in Procs : ProcInv(p)) /\ TablesInv

-----------------------------------------------------------------------------
(***************************************************************************)
(* The store's theorems speak of Proved!StoreInv, the invariants here of   *)
(* Store!StoreInv: they are the same formulas.                             *)
(***************************************************************************)
LEMMA SameInv == Store!StoreInv <=> Proved!StoreInv
  BY DEF Store!StoreInv, Store!TypeOK, Store!RowAgrees, Store!LedgerShape, Store!ChargesMatch,
         Store!EndsMatch, Store!KeysUnique, Store!ChargingRows, Store!EndRows,
         Store!CopiesBehind, Store!TxBehind, Store!Exists, Store!OrderRow, Store!HistoryRow,
         Store!Copy, Store!Tx, Store!NoTx, Store!Status,
         Proved!StoreInv, Proved!TypeOK, Proved!RowAgrees, Proved!LedgerShape,
         Proved!ChargesMatch, Proved!EndsMatch, Proved!KeysUnique, Proved!ChargingRows,
         Proved!EndRows, Proved!CopiesBehind, Proved!TxBehind, Proved!Exists, Proved!OrderRow,
         Proved!HistoryRow, Proved!Copy, Proved!Tx, Proved!NoTx, Proved!Status

LEMMA SameNext == [Store!StoreNext]_storeVars <=> [Proved!StoreNext]_(Proved!storeVars)
  BY DEF storeVars, Store!StoreNext, Store!StoreCrash, Store!Abort, Store!CreateBegin,
         Store!CreateCommit, Store!FailBegin, Store!FailCommit, Store!RenewBegin,
         Store!RenewCommit, Store!EndBegin, Store!EndCommit, Store!EndNothing, Store!NoTx,
         Store!NameTaken, Store!Exists, Store!NewRow, Store!CopyOf, Store!RetriesLeft,
         Store!MovedOn, Store!Renewed, Store!RenewRow, Store!KeyFree, Store!Endable,
         Store!HasConsume, Store!EndRow, Store!StillConsuming,
         Proved!storeVars, Proved!StoreNext, Proved!StoreCrash, Proved!Abort,
         Proved!CreateBegin, Proved!CreateCommit, Proved!FailBegin, Proved!FailCommit,
         Proved!RenewBegin, Proved!RenewCommit, Proved!EndBegin, Proved!EndCommit,
         Proved!EndNothing, Proved!NoTx, Proved!NameTaken, Proved!Exists, Proved!NewRow,
         Proved!CopyOf, Proved!RetriesLeft, Proved!MovedOn, Proved!Renewed, Proved!RenewRow,
         Proved!KeyFree, Proved!Endable, Proved!HasConsume, Proved!EndRow,
         Proved!StillConsuming

LEMMA SameInit == Store!StoreInit <=> Proved!StoreInit
  BY DEF Store!StoreInit, Store!NoRow, Store!NoTx, Proved!StoreInit, Proved!NoRow, Proved!NoTx

\* The assumptions of OrderStore.
LEMMA StoreAssumptions ==
    /\ Proved!SlotsAssumption /\ Proved!KindsAssumption
    /\ Proved!RetriesAssumption /\ Proved!ConsumeAssumption
  BY SlotsAssumption, LimitsAssumption
  DEF SlotsAssumption, LimitsAssumption, Proved!SlotsAssumption, Proved!KindsAssumption,
      Proved!RetriesAssumption, Proved!ConsumeAssumption, Kinds

LEMMA StoreStarts == Store!StoreInit => Store!StoreInv
  BY SameInv, SameInit, StoreAssumptions, Proved!InitEstablishes

LEMMA StoreKeeps == Store!StoreInv /\ [Store!StoreNext]_storeVars => Store!StoreInv'
<1>1. Store!StoreInv /\ [Store!StoreNext]_storeVars => Proved!StoreInv'
  BY SameInv, SameNext, StoreAssumptions, Proved!NextKeeps
<1> QED BY <1>1, SameInv, PTL

(***************************************************************************)
(* What no step of the store undoes.                                       *)
(***************************************************************************)
LEMMA StoreGrows ==
    ASSUME Store!StoreInv, [Store!StoreNext]_storeVars
    PROVE  /\ copies \subseteq copies'
           /\ \A i \in Ids : orders[i].status = "ended" => orders'[i].status = "ended"
<1>1. copies \subseteq copies'
  BY DEF storeVars, Store!StoreNext, Store!StoreCrash, Store!Abort, Store!CreateBegin,
         Store!CreateCommit, Store!FailBegin, Store!FailCommit, Store!RenewBegin,
         Store!RenewCommit, Store!EndBegin, Store!EndCommit, Store!EndNothing
<1>2. \/ \A i \in Ids : Proved!SameRow(i)
      \/ \E i \in Ids : Proved!RowMoves(i) /\ \A j \in Ids : j # i => Proved!SameRow(j)
  BY SameInv, SameNext, StoreAssumptions, Proved!StepMoves
<1>3. \A i \in Ids : orders[i].status = "ended" => orders'[i].status = "ended"
  BY <1>2 DEF Proved!SameRow, Proved!RowMoves, Proved!RowPlaced, Proved!RowCharged,
              Proved!RowEnded
<1> QED BY <1>1, <1>3
-----------------------------------------------------------------------------
(***************************************************************************)
(* How a step changes one goroutine, and what it must not change of the    *)
(* others.                                                                 *)
(***************************************************************************)
Only(p) == \A q \in Procs : q # p => proc'[q] = proc[q]

LEMMA Gone ==
    ASSUME VarsOK, NEW p \in Procs, NEW l \in Calls, Goto(p, l)
    PROVE  /\ proc' \in [Procs -> ProcState] /\ Only(p)
           /\ proc'[p].pc = l
           /\ proc'[p].job = proc[p].job /\ proc'[p].slot = proc[p].slot
           /\ proc'[p].order = proc[p].order /\ proc'[p].old = proc[p].old
           /\ proc'[p].kind = proc[p].kind /\ proc'[p].due = proc[p].due
           /\ proc'[p].short = proc[p].short
  BY DEF VarsOK, ProcState, Goto, Only

LEMMA IdleState ==
    /\ Idle \in ProcState
    /\ Idle.pc = "idle" /\ Idle.job = "none" /\ Idle.order = Nil /\ Idle.old = Nil /\ Idle.due
  BY DEF Idle, ProcState, Calls, Kinds

LEMMA Returned ==
    ASSUME VarsOK, NEW p \in Procs, Return(p)
    PROVE  proc' \in [Procs -> ProcState] /\ Only(p) /\ proc'[p] = Idle
  BY IdleState DEF VarsOK, Return, Only

LEMMA IdleFits ==
    ASSUME NEW p \in Procs, proc'[p] = Idle, tx'[p] = Store!NoTx
    PROVE  ProcInv(p)'
  BY IdleState DEF ProcInv, HoldsCopies, JobFits, TxFits, HasPaid, Past, IsFree, OldHasEnded

\* Neither deductions nor prices are taken back.
Deducts ==
    /\ \A i \in Ids, k \in 1 .. MaxConsume : deducted'[i][k] >= deducted[i][k]
    /\ free \subseteq free' /\ free' \subseteq Ids

LEMMA NothingDeducted == ASSUME VarsOK, UNCHANGED <<deducted, free>> PROVE Deducts
  BY LimitsAssumption DEF VarsOK, Deducts, LimitsAssumption

\* The consume a goroutine pays for is one the model counts.
LEMMA ToPay ==
    ASSUME BillingInv, NEW p \in Procs,
           proc[p].job = "create" \/ proc[p].job = "renew", proc[p].order # Nil
    PROVE  proc[p].order \in Store!Copy
           /\ proc[p].order.id \in Ids /\ proc[p].order.last + 1 \in 1 .. MaxConsume
<1>1. proc[p] \in ProcState /\ JobFits(p)
  BY DEF BillingInv, VarsOK, ProcInv
<1>2. proc[p].order \in Store!Copy
  BY <1>1 DEF ProcState
<1>3. proc[p].order.id \in Ids /\ proc[p].order.last \in Nat
  BY <1>2 DEF Store!Copy
<1>4. CASE proc[p].job = "create"
  BY <1>1, <1>2, <1>3, <1>4, LimitsAssumption DEF JobFits, CreateFits, LimitsAssumption
<1>5. CASE proc[p].job = "renew"
  BY <1>1, <1>2, <1>3, <1>5, LimitsAssumption DEF JobFits, RenewFits, LimitsAssumption
<1> QED BY <1>4, <1>5

LEMMA Others ==
    ASSUME BillingInv, NEW p \in Procs, [Store!StoreNext]_storeVars, Only(p), Deducts,
           deducted' \in [Ids -> [1 .. MaxConsume -> 0 .. MaxDeductions]],
           \A q \in Procs : q # p => tx'[q] = tx[q]
    PROVE  \A q \in Procs : q # p => ProcInv(q)'
<1> SUFFICES ASSUME NEW q \in Procs, q # p PROVE ProcInv(q)'
  OBVIOUS
<1>1. ProcInv(q) /\ proc'[q] = proc[q] /\ tx'[q] = tx[q] /\ proc[q] \in ProcState
  BY DEF BillingInv, VarsOK, Only
<1>2. /\ copies \subseteq copies'
      /\ \A i \in Ids : orders[i].status = "ended" => orders'[i].status = "ended"
  BY StoreGrows DEF BillingInv
<1>3. HoldsCopies(q)'
  BY <1>1, <1>2 DEF ProcInv, HoldsCopies
<1>4. JobFits(q)'
  BY <1>1 DEF ProcInv, JobFits, CreateFits, CancelFits, RenewFits
<1>5. TxFits(q)'
  BY <1>1 DEF ProcInv, TxFits, Ending
<1>6. HasPaid(q)'
  <2> SUFFICES ASSUME Past(q)', proc[q].due
               PROVE  deducted'[proc[q].order.id][proc[q].order.last + 1] > 0
    BY <1>1 DEF HasPaid
  <2>1. Past(q) /\ deducted[proc[q].order.id][proc[q].order.last + 1] > 0
    BY <1>1 DEF ProcInv, HasPaid, Past
  <2>2. proc[q].order # Nil /\ (proc[q].job = "create" \/ proc[q].job = "renew")
    BY <1>1, <2>1 DEF ProcInv, JobFits, CreateFits, CancelFits, RenewFits, Past, ProcState
  <2>3. proc[q].order.id \in Ids /\ proc[q].order.last + 1 \in 1 .. MaxConsume
    BY <2>2, ToPay
  <2>4. PICK i \in Ids, k \in 1 .. MaxConsume : i = proc[q].order.id /\ k = proc[q].order.last + 1
    BY <2>3
  <2>5. deducted'[i][k] >= deducted[i][k] /\ deducted[i][k] > 0
    BY <2>1, <2>4 DEF Deducts
  <2>6. deducted'[i][k] \in Nat /\ deducted[i][k] \in Nat
    BY LimitsAssumption DEF BillingInv, VarsOK, LimitsAssumption
  <2> QED BY <2>4, <2>5, <2>6
<1>7. OldHasEnded(q)'
  BY <1>1, <1>2 DEF ProcInv, OldHasEnded, ProcState, Store!Copy
<1>8. IsFree(q)'
  BY <1>1 DEF ProcInv, IsFree, Deducts
<1> QED BY <1>3, <1>4, <1>5, <1>6, <1>7, <1>8 DEF ProcInv

LEMMA SameTables ==
    ASSUME BillingInv, UNCHANGED <<orders, history, copies>>, Deducts,
           deducted' \in [Ids -> [1 .. MaxConsume -> 0 .. MaxDeductions]]
    PROVE  TablesInv'
<1>1. ReadsAreCopies' /\ LedgerInRange' /\ RenewalsFollow'
  BY DEF BillingInv, TablesInv, ReadsAreCopies, LedgerInRange, RenewalsFollow, Read, Store!CopyOf, Store!Exists
<1>2. ASSUME NEW h \in history, h.kind # "end"
      PROVE  deducted'[h.id][h.cid] > 0 \/ (h.kind = "switch" /\ h.id \in free')
  <2>1. PICK i \in Ids, k \in 1 .. MaxConsume : i = h.id /\ k = h.cid
    BY <1>2 DEF BillingInv, TablesInv, LedgerInRange
  <2>2. deducted[i][k] > 0 \/ (h.kind = "switch" /\ i \in free)
    BY <1>2, <2>1 DEF BillingInv, TablesInv, ConsumesAreDeducted
  <2>3. deducted'[i][k] >= deducted[i][k] /\ free \subseteq free'
    BY DEF Deducts
  <2>4. deducted'[i][k] \in Nat /\ deducted[i][k] \in Nat
    BY LimitsAssumption DEF BillingInv, TablesInv, VarsOK, LimitsAssumption
  <2>5. CASE deducted[i][k] > 0
    BY <2>1, <2>3, <2>4, <2>5
  <2>6. CASE h.kind = "switch" /\ i \in free
    BY <2>1, <2>3, <2>6
  <2> QED BY <2>2, <2>5, <2>6
<1> QED BY <1>1, <1>2 DEF ConsumesAreDeducted, TablesInv

\* A step of one goroutine that keeps what is known of the tables.
LEMMA StepKeeps ==
    ASSUME BillingInv, NEW p \in Procs, [Store!StoreNext]_storeVars, TablesInv', VarsOK',
           Only(p), Deducts, \A q \in Procs : q # p => tx'[q] = tx[q], ProcInv(p)'
    PROVE  BillingInv'
<1>1. Store!StoreInv'
  BY StoreKeeps DEF BillingInv
<1>2. \A q \in Procs : ProcInv(q)'
  BY Others DEF VarsOK
<1> QED BY <1>1, <1>2 DEF BillingInv

\* A goroutine that returns, with its transaction closed.
LEMMA ReturnsKeep ==
    ASSUME BillingInv, NEW p \in Procs, [Store!StoreNext]_storeVars, TablesInv', Return(p),
           UNCHANGED <<deducted, free>>, instance' \in [Slots -> Ids \cup {Nil}],
           tx'[p] = Store!NoTx, \A q \in Procs : q # p => tx'[q] = tx[q]
    PROVE  BillingInv'
<1>1. proc' \in [Procs -> ProcState] /\ Only(p) /\ proc'[p] = Idle
  BY Returned DEF BillingInv
<1>2. ProcInv(p)'
  BY <1>1, IdleFits
<1>3. VarsOK' /\ Deducts
  BY <1>1, NothingDeducted DEF BillingInv, VarsOK
<1> QED BY <1>1, <1>2, <1>3, StepKeeps

\* A goroutine that goes on to its next call.
LEMMA GoesKeep ==
    ASSUME BillingInv, NEW p \in Procs, NEW l \in Calls, [Store!StoreNext]_storeVars,
           TablesInv', Goto(p, l), Deducts,
           instance' \in [Slots -> Ids \cup {Nil}],
           deducted' \in [Ids -> [1 .. MaxConsume -> 0 .. MaxDeductions]],
           \A q \in Procs : q # p => tx'[q] = tx[q],
           JobFits(p)', TxFits(p)', HasPaid(p)',
           l \in {"renew", "renewing"} => proc[p].old = Nil \/ OldHasEnded(p)'
    PROVE  BillingInv'
<1>1. proc' \in [Procs -> ProcState] /\ Only(p) /\ proc'[p].pc = l
      /\ proc'[p].order = proc[p].order /\ proc'[p].old = proc[p].old
  BY Gone DEF BillingInv
<1>2. VarsOK'
  BY <1>1 DEF VarsOK, Deducts
<1>3. OldHasEnded(p)' /\ IsFree(p)'
  <2>1. OldHasEnded(p)'
    BY <1>1 DEF OldHasEnded
  <2>2. proc'[p].due = proc[p].due
    BY Gone DEF BillingInv
  <2>3. IsFree(p)'
    BY <1>1, <2>2 DEF BillingInv, ProcInv, IsFree, Deducts
  <2> QED BY <2>1, <2>3
<1>4. HoldsCopies(p)'
  BY <1>1, StoreGrows DEF BillingInv, ProcInv, HoldsCopies
<1>5. ProcInv(p)'
  BY <1>3, <1>4 DEF ProcInv
<1> QED BY <1>1, <1>2, <1>5, StepKeeps

(***************************************************************************)
(* The same when the tables stay as they are.                              *)
(***************************************************************************)
LEMMA Quiet ==
    ASSUME BillingInv, NEW p \in Procs, [Store!StoreNext]_storeVars,
           UNCHANGED <<orders, history, copies>>, VarsOK', Only(p), Deducts,
           \A q \in Procs : q # p => tx'[q] = tx[q],
           ProcInv(p)'
    PROVE  BillingInv'
  BY StepKeeps, SameTables DEF VarsOK

LEMMA ReturnKeeps ==
    ASSUME BillingInv, NEW p \in Procs, [Store!StoreNext]_storeVars, Return(p),
           UNCHANGED <<orders, history, copies, deducted, free>>,
           instance' \in [Slots -> Ids \cup {Nil}],
           tx'[p] = Store!NoTx, \A q \in Procs : q # p => tx'[q] = tx[q]
    PROVE  BillingInv'
  BY ReturnsKeep, SameTables, NothingDeducted DEF BillingInv, VarsOK

LEMMA GotoKeeps ==
    ASSUME BillingInv, NEW p \in Procs, NEW l \in Calls, Goto(p, l), Deducts,
           UNCHANGED <<orders, history, copies>>, [Store!StoreNext]_storeVars,
           instance' \in [Slots -> Ids \cup {Nil}],
           deducted' \in [Ids -> [1 .. MaxConsume -> 0 .. MaxDeductions]],
           \A q \in Procs : q # p => tx'[q] = tx[q],
           JobFits(p)', TxFits(p)', HasPaid(p)',
           l \in {"renew", "renewing"} => proc[p].old = Nil \/ OldHasEnded(p)'
    PROVE  BillingInv'
  BY GoesKeep, SameTables

-----------------------------------------------------------------------------
(***************************************************************************)
(* The steps that are no call of the store.                                *)
(***************************************************************************)
LEMMA IdIsCopy ==
    ASSUME BillingInv, NEW i \in Ids, Store!Exists(i)
    PROVE  Read(i) \in copies /\ Read(i) \in Store!Copy /\ Read(i) # Nil
           /\ Read(i).last = orders[i].last /\ Read(i).id = i
  BY NilAssumption DEF BillingInv, TablesInv, ReadsAreCopies, Read, Store!CopyOf, Store!StoreInv,
                       Store!TypeOK, NilAssumption

LEMMA ReceiveCreateKeeps ==
    ASSUME BillingInv, NEW p \in Users, NEW s \in Slots, ReceiveCreate(p, s)
    PROVE  BillingInv'
<1>0. p \in Procs /\ ProcInv(p) /\ tx[p] = Store!NoTx
  BY DEF Procs, BillingInv, ProcInv, TxFits, ReceiveCreate, At
<1>1. PICK old \in IF OldOrders(s) = {} THEN {Nil} ELSE {Read(i) : i \in OldOrders(s)} :
         proc' = [proc EXCEPT ![p] = [Idle EXCEPT !.pc = "insert", !.job = "create",
                                                  !.slot = s, !.old = old]]
  BY DEF ReceiveCreate
<1>2. old # Nil => old \in copies /\ old \in Store!Copy /\ s \notin NamedSlots
  <2> SUFFICES ASSUME old # Nil PROVE old \in copies /\ old \in Store!Copy /\ s \notin NamedSlots
    OBVIOUS
  <2>1. PICK i \in OldOrders(s) : old = Read(i)
    BY <1>1
  <2>2. s \notin NamedSlots /\ i \in Ids /\ Store!Exists(i)
    BY <2>1 DEF OldOrders, Consuming, Store!Exists
  <2> QED BY <2>1, <2>2, IdIsCopy
<1> DEFINE new == [Idle EXCEPT !.pc = "insert", !.job = "create", !.slot = s, !.old = old]
<1>3. /\ new.pc = "insert" /\ new.job = "create" /\ new.slot = s /\ new.old = old
      /\ new.order = Nil /\ new.kind = "new" /\ new.due
      /\ new \in ProcState
  BY <1>2 DEF Idle, ProcState, Calls, Kinds
<1> HIDE DEF new
<1>4. proc'[p] = new /\ Only(p) /\ proc' \in [Procs -> ProcState]
  BY <1>0, <1>1, <1>3 DEF new, BillingInv, VarsOK, Only
<1>5. UNCHANGED <<orders, history, copies, tx, instance, deducted, free>>
  BY DEF ReceiveCreate, storeVars
<1>6. ProcInv(p)'
  BY <1>0, <1>2, <1>3, <1>4, <1>5
  DEF ProcInv, HoldsCopies, JobFits, CreateFits, TxFits, HasPaid, Past, IsFree, OldHasEnded
<1>7. VarsOK' /\ Deducts
  BY <1>4, <1>5, NothingDeducted DEF BillingInv, VarsOK
<1> QED BY <1>0, <1>4, <1>5, <1>6, <1>7, Quiet DEF storeVars

LEMMA ReceiveCancelKeeps ==
    ASSUME BillingInv, NEW p \in Users, NEW i \in Ids, ReceiveCancel(p, i)
    PROVE  BillingInv'
<1>0. p \in Procs /\ tx[p] = Store!NoTx
  BY DEF Procs, BillingInv, ProcInv, TxFits, ReceiveCancel, At
<1>1. Read(i) \in copies /\ Read(i) \in Store!Copy /\ Read(i) # Nil
  BY IdIsCopy DEF ReceiveCancel, Store!Exists
<1>2. orders[i].slot \in Slots \cup {NoSlot}
  BY DEF BillingInv, Store!StoreInv, Store!TypeOK, Store!OrderRow
<1> DEFINE new == [Idle EXCEPT !.pc = "destroy", !.job = "cancel", !.slot = orders[i].slot,
                               !.order = Read(i)]
<1>3. /\ new.pc = "destroy" /\ new.job = "cancel" /\ new.old = Nil
      /\ new.order = Read(i) /\ new.kind = "new" /\ new.due
      /\ new \in ProcState
  BY <1>1, <1>2 DEF Idle, ProcState, Calls, Kinds
<1>4. proc' = [proc EXCEPT ![p] = new]
  BY DEF ReceiveCancel
<1> HIDE DEF new
<1>5. proc'[p] = new /\ Only(p) /\ proc' \in [Procs -> ProcState]
  BY <1>0, <1>3, <1>4 DEF BillingInv, VarsOK, Only
<1>6. UNCHANGED <<orders, history, copies, tx, instance, deducted, free>>
  BY DEF ReceiveCancel, storeVars
<1>7. ProcInv(p)'
  BY <1>0, <1>1, <1>3, <1>5, <1>6
  DEF ProcInv, HoldsCopies, JobFits, CancelFits, TxFits, HasPaid, Past, IsFree, OldHasEnded
<1>8. VarsOK' /\ Deducts
  BY <1>5, <1>6, NothingDeducted DEF BillingInv, VarsOK
<1> QED BY <1>0, <1>5, <1>6, <1>7, <1>8, Quiet DEF storeVars

LEMMA PickDueKeeps ==
    ASSUME BillingInv, NEW i \in Ids, PickDue(i)
    PROVE  BillingInv'
<1> DEFINE p == Maintainer
<1>0. p \in Procs /\ tx[p] = Store!NoTx
  BY DEF Procs, BillingInv, ProcInv, TxFits, PickDue, At
<1>1. Read(i) \in copies /\ Read(i) \in Store!Copy /\ Read(i) # Nil
      /\ Read(i).last = orders[i].last
  BY IdIsCopy DEF PickDue, Store!Exists
<1>2. orders[i].slot \in Slots \cup {NoSlot}
  BY DEF BillingInv, Store!StoreInv, Store!TypeOK, Store!OrderRow
<1>3. orders[i].last \in 1 .. MaxConsume - 1
  BY LimitsAssumption
  DEF PickDue, BillingInv, Store!StoreInv, Store!TypeOK, Store!OrderRow, Store!RowAgrees,
      LimitsAssumption
<1> DEFINE new == [Idle EXCEPT !.pc = "pay", !.job = "renew", !.kind = "renew",
                               !.slot = orders[i].slot, !.order = Read(i)]
<1>4. /\ new.pc = "pay" /\ new.job = "renew" /\ new.old = Nil
      /\ new.order = Read(i) /\ new.kind = "renew" /\ new.due
      /\ new \in ProcState
  BY <1>1, <1>2 DEF Idle, ProcState, Calls, Kinds
<1>5. proc' = [proc EXCEPT ![p] = new]
  BY DEF PickDue
<1> HIDE DEF new
<1>6. proc'[p] = new /\ Only(p) /\ proc' \in [Procs -> ProcState]
  BY <1>0, <1>4, <1>5 DEF BillingInv, VarsOK, Only
<1>7. UNCHANGED <<orders, history, copies, tx, instance, deducted, free>>
  BY DEF PickDue, storeVars
<1>8. ProcInv(p)'
  BY <1>0, <1>1, <1>3, <1>4, <1>6, <1>7
  DEF ProcInv, HoldsCopies, JobFits, RenewFits, TxFits, HasPaid, Past, IsFree, OldHasEnded
<1>9. VarsOK' /\ Deducts
  BY <1>6, <1>7, NothingDeducted DEF BillingInv, VarsOK
<1> QED BY <1>0, <1>6, <1>7, <1>8, <1>9, Quiet DEF storeVars

-----------------------------------------------------------------------------
(***************************************************************************)
(* createOrder up to and with the payment.                                 *)
(***************************************************************************)
LEMMA InsertBeginKeeps ==
    ASSUME BillingInv, NEW p \in Procs, InsertBegin(p)
    PROVE  BillingInv'
<1>1. /\ ProcInv(p) /\ proc[p].pc = "insert" /\ proc[p] \in ProcState
      /\ Goto(p, "inserting") /\ Store!CreateBegin(p, proc[p].slot)
      /\ UNCHANGED <<instance, deducted, free>>
  BY DEF BillingInv, VarsOK, InsertBegin, At
<1>2. /\ proc[p].job = "create" /\ proc[p].slot \in Slots
  BY <1>1 DEF ProcInv, JobFits, CreateFits, CancelFits, RenewFits, ProcState
<1>3. [Store!StoreNext]_storeVars
  BY <1>1, <1>2 DEF Store!StoreNext
<1>4. /\ tx' = [tx EXCEPT ![p] = [op |-> "create", slot |-> proc[p].slot]]
      /\ UNCHANGED <<orders, history, copies>>
  BY <1>1 DEF Store!CreateBegin
<1>5. tx'[p] = [op |-> "create", slot |-> proc[p].slot] /\ \A q \in Procs : q # p => tx'[q] = tx[q]
  BY <1>4 DEF BillingInv, Store!StoreInv, Store!TypeOK
<1>6. JobFits(p)' /\ TxFits(p)' /\ HasPaid(p)'
  <2>1. /\ proc'[p].pc = "inserting"
        /\ proc'[p].job = proc[p].job /\ proc'[p].slot = proc[p].slot
        /\ proc'[p].order = proc[p].order /\ proc'[p].old = proc[p].old
        /\ proc'[p].kind = proc[p].kind /\ proc'[p].due = proc[p].due
    BY <1>1, Gone DEF BillingInv, Calls
  <2>2. JobFits(p)'
    BY <1>1, <1>2, <2>1 DEF ProcInv, JobFits, CreateFits
  <2>3. TxFits(p)' /\ HasPaid(p)'
    BY <1>5, <2>1 DEF TxFits, HasPaid, Past
  <2> QED BY <2>2, <2>3
<1> QED BY <1>1, <1>3, <1>4, <1>5, <1>6, GotoKeeps, NothingDeducted
        DEF BillingInv, VarsOK, Calls

\* A new row is pending: no charge of it is recorded, and its image is in copies.
LEMMA InsertCommitKeeps ==
    ASSUME BillingInv, NEW p \in Procs, InsertCommit(p)
    PROVE  BillingInv'
<1>1. PICK i \in Ids :
         /\ Store!CreateCommit(p, i)
         /\ \/ proc' = [proc EXCEPT ![p].order = [id |-> i, last |-> 0, deadline |-> 0],
                                    ![p].pc = AfterInsert(p)]
            \/ Return(p)
  BY DEF InsertCommit
<1>2. /\ ProcInv(p) /\ proc[p].pc = "inserting" /\ proc[p] \in ProcState
      /\ UNCHANGED <<instance, deducted, free>>
  BY DEF BillingInv, VarsOK, InsertCommit, At
<1>3. proc[p].job = "create"
  BY <1>2 DEF ProcInv, JobFits, CreateFits, CancelFits, RenewFits, ProcState
<1>4. [Store!StoreNext]_storeVars
  BY <1>1 DEF Store!StoreNext
<1> DEFINE o == [id |-> i, last |-> 0, deadline |-> 0]
           row == Store!NewRow(tx[p].slot)
<1>5. Store!CopyOf(i, row) = o /\ row.last = 0 /\ row.deadline = 0
  BY DEF Store!CopyOf, Store!NewRow
<1>6. /\ orders' = [orders EXCEPT ![i] = row] /\ history' = history
      /\ copies' = copies \cup {o} /\ tx' = [tx EXCEPT ![p] = Store!NoTx]
  BY <1>1, <1>5 DEF Store!CreateCommit
<1> HIDE DEF row
<1>7. /\ orders'[i] = row /\ \A j \in Ids : j # i => orders'[j] = orders[j]
      /\ tx'[p] = Store!NoTx /\ \A q \in Procs : q # p => tx'[q] = tx[q]
  BY <1>6 DEF BillingInv, Store!StoreInv, Store!TypeOK
<1>8. o \in Store!Copy /\ o # Nil /\ o.last = 0
  BY NilAssumption DEF Store!Copy, NilAssumption
<1>9. ReadsAreCopies'
  BY <1>5, <1>6, <1>7 DEF BillingInv, TablesInv, ReadsAreCopies, Read, Store!CopyOf, Store!Exists
<1>10. LedgerInRange' /\ ConsumesAreDeducted' /\ RenewalsFollow'
  BY <1>2, <1>6 DEF BillingInv, TablesInv, LedgerInRange, ConsumesAreDeducted, RenewalsFollow
<1>11. /\ proc' \in [Procs -> ProcState] /\ Only(p) /\ ProcInv(p)'
  <2>1. CASE proc' = [proc EXCEPT ![p].order = o, ![p].pc = AfterInsert(p)]
    <3> DEFINE new == [proc[p] EXCEPT !.order = o, !.pc = AfterInsert(p)]
    <3>1. AfterInsert(p) \in {"allocate", "price", "pay"}
          /\ (AfterInsert(p) = "price" => proc[p].old # Nil)
      BY DEF AfterInsert
    <3>2. /\ new \in ProcState /\ new.pc = AfterInsert(p) /\ new.order = o
          /\ new.job = proc[p].job /\ new.slot = proc[p].slot /\ new.old = proc[p].old
          /\ new.kind = proc[p].kind /\ new.due = proc[p].due
      BY <1>2, <1>8, <3>1 DEF ProcState, Calls
    <3>3. proc' = [proc EXCEPT ![p] = new]
      BY <2>1 DEF BillingInv, VarsOK
    <3> HIDE DEF new, o
    <3>4. proc'[p] = new /\ Only(p) /\ proc' \in [Procs -> ProcState]
      BY <3>2, <3>3 DEF BillingInv, VarsOK, Only
    <3>5. HoldsCopies(p)'
      BY <1>2, <1>6, <3>2, <3>4 DEF ProcInv, HoldsCopies
    <3>6. JobFits(p)'
      BY <1>2, <1>3, <1>8, <3>1, <3>2, <3>4 DEF ProcInv, JobFits, CreateFits
    <3>7. TxFits(p)' /\ HasPaid(p)' /\ OldHasEnded(p)'
      BY <1>7, <3>1, <3>2, <3>4 DEF TxFits, HasPaid, Past, OldHasEnded
    <3>8. IsFree(p)'
      BY <1>2, <1>3, <3>2, <3>4 DEF ProcInv, IsFree, JobFits, CreateFits
    <3> QED BY <3>4, <3>5, <3>6, <3>7, <3>8 DEF ProcInv
  <2>2. CASE Return(p)
    BY <1>7, <2>2, Returned, IdleFits DEF BillingInv
  <2> QED BY <1>1, <2>1, <2>2
<1>12. VarsOK' /\ Deducts
  BY <1>2, <1>11, NothingDeducted DEF BillingInv, VarsOK
<1>13. \A q \in Procs : ProcInv(q)'
  BY <1>4, <1>7, <1>11, <1>12, Others DEF VarsOK
<1>14. Store!StoreInv'
  BY <1>4, StoreKeeps DEF BillingInv
<1> QED BY <1>9, <1>10, <1>12, <1>13, <1>14 DEF BillingInv, TablesInv

LEMMA PriceKeeps ==
    ASSUME BillingInv, NEW p \in Procs, Price(p)
    PROVE  BillingInv'
<1>1. /\ ProcInv(p) /\ proc[p].pc = "price" /\ proc[p] \in ProcState /\ tx[p] = Store!NoTx
      /\ UNCHANGED <<orders, history, copies, tx, instance, deducted>>
  BY DEF BillingInv, VarsOK, ProcInv, TxFits, Price, At, storeVars
<1>2. [Store!StoreNext]_storeVars
  BY <1>1 DEF storeVars
<1>3. CASE Return(p) /\ UNCHANGED free
  BY <1>1, <1>2, <1>3, ReturnKeeps DEF BillingInv, VarsOK
<1>4. ASSUME NEW kind \in {"new", "switch"}, NEW due \in BOOLEAN, kind = "new" => due,
             proc' = [proc EXCEPT ![p].pc = "pay", ![p].kind = kind, ![p].due = due],
             free' = IF due THEN free ELSE free \cup {proc[p].order.id}
      PROVE  BillingInv'
  <2> DEFINE new == [proc[p] EXCEPT !.pc = "pay", !.kind = kind, !.due = due]
  <2>1. /\ new \in ProcState /\ new.pc = "pay" /\ new.order = proc[p].order
        /\ new.job = proc[p].job /\ new.slot = proc[p].slot /\ new.old = proc[p].old
        /\ new.kind = kind /\ new.due = due
    BY <1>1 DEF ProcState, Calls, Kinds
  <2>2. proc' = [proc EXCEPT ![p] = new]
    BY <1>4 DEF BillingInv, VarsOK
  <2> HIDE DEF new
  <2>3. proc'[p] = new /\ Only(p) /\ proc' \in [Procs -> ProcState]
    BY <2>1, <2>2 DEF BillingInv, VarsOK, Only
  <2>4. proc[p].job = "create" /\ proc[p].order # Nil
    BY <1>1 DEF ProcInv, JobFits, CreateFits, CancelFits, RenewFits, ProcState
  <2>5. HoldsCopies(p)' /\ JobFits(p)'
    BY <1>1, <1>4, <2>1, <2>3, <2>4 DEF ProcInv, HoldsCopies, JobFits, CreateFits
  <2>6. TxFits(p)' /\ HasPaid(p)' /\ OldHasEnded(p)'
    BY <1>1, <2>1, <2>3 DEF TxFits, HasPaid, Past, OldHasEnded
  <2>7. IsFree(p)'
    BY <1>4, <2>1, <2>3, <2>4 DEF IsFree
  <2>8. free \subseteq free' /\ free' \subseteq Ids
    BY <1>4, <2>4, ToPay DEF BillingInv, VarsOK
  <2>9. \A i \in Ids, k \in 1 .. MaxConsume : deducted'[i][k] >= deducted[i][k]
    BY <1>1, LimitsAssumption DEF BillingInv, VarsOK, LimitsAssumption
  <2>10. VarsOK' /\ Deducts
    BY <1>1, <2>3, <2>8, <2>9 DEF BillingInv, VarsOK, Deducts
  <2> QED BY <1>1, <1>2, <2>3, <2>5, <2>6, <2>7, <2>10, Quiet DEF ProcInv
<1> QED BY <1>3, <1>4 DEF Price

LEMMA AllocateKeeps ==
    ASSUME BillingInv, NEW p \in Procs, Allocate(p)
    PROVE  BillingInv'
<1>1. /\ ProcInv(p) /\ proc[p].pc = "allocate" /\ proc[p] \in ProcState /\ tx[p] = Store!NoTx
      /\ UNCHANGED <<orders, history, copies, tx, deducted, free>>
  BY DEF BillingInv, VarsOK, ProcInv, TxFits, Allocate, At, storeVars
<1>2. proc[p].job = "create" /\ proc[p].order # Nil
  BY <1>1 DEF ProcInv, JobFits, CreateFits, CancelFits, RenewFits, ProcState
<1>3. instance' \in [Slots -> Ids \cup {Nil}]
  BY <1>1, <1>2, ToPay DEF Allocate, BillingInv, VarsOK
<1>4. [Store!StoreNext]_storeVars /\ Deducts
  BY <1>1, NothingDeducted DEF storeVars, BillingInv
<1>5. CASE Return(p)
  BY <1>1, <1>3, <1>4, <1>5, ReturnKeeps
<1>6. CASE Goto(p, "pay")
  <2>1. JobFits(p)' /\ TxFits(p)' /\ HasPaid(p)'
    BY <1>1, <1>2, <1>6, Gone
    DEF BillingInv, ProcInv, JobFits, CreateFits, TxFits, HasPaid, Past, Calls
  <2> QED BY <1>1, <1>3, <1>4, <1>6, <2>1, GotoKeeps DEF Calls, BillingInv, VarsOK
<1> QED BY <1>5, <1>6 DEF Allocate

\* Where a goroutine goes when the payment is done.
LEMMA AfterPayFits ==
    ASSUME BillingInv, NEW p \in Procs, At(p, "pay"), Goto(p, AfterPay(p)), tx' = tx
    PROVE  /\ AfterPay(p) \in {"renew", "quota"} /\ (AfterPay(p) = "renew" => proc[p].old = Nil)
           /\ JobFits(p)' /\ TxFits(p)'
           /\ proc[p].order # Nil /\ (proc[p].job = "create" \/ proc[p].job = "renew")
<1>1. /\ ProcInv(p) /\ proc[p].pc = "pay" /\ proc[p] \in ProcState /\ tx[p] = Store!NoTx
  BY DEF BillingInv, VarsOK, ProcInv, TxFits, At
<1>2. proc[p].job = "create" \/ proc[p].job = "renew"
  BY <1>1 DEF ProcInv, JobFits, CancelFits, ProcState
<1>3. CASE proc[p].job = "create"
  <2>1. /\ AfterPay(p) \in {"renew", "quota"} /\ (AfterPay(p) = "renew" => proc[p].old = Nil)
    BY <1>1, <1>3 DEF AfterPay, ProcInv, JobFits, CreateFits
  <2>2. JobFits(p)' /\ TxFits(p)'
    BY <1>1, <1>3, <2>1, Gone
    DEF BillingInv, ProcInv, JobFits, CreateFits, TxFits, Calls
  <2> QED BY <1>1, <1>3, <2>1, <2>2 DEF ProcInv, JobFits, CreateFits
<1>4. CASE proc[p].job = "renew"
  <2>1. AfterPay(p) = "renew"
    BY <1>4 DEF AfterPay
  <2>2. JobFits(p)' /\ TxFits(p)'
    BY <1>1, <1>4, <2>1, Gone
    DEF BillingInv, ProcInv, JobFits, RenewFits, TxFits, Calls
  <2> QED BY <1>1, <1>4, <2>1, <2>2 DEF ProcInv, JobFits, RenewFits
<1> QED BY <1>2, <1>3, <1>4

LEMMA NothingToPayKeeps ==
    ASSUME BillingInv, NEW p \in Procs, NothingToPay(p)
    PROVE  BillingInv'
<1>1. /\ ProcInv(p) /\ At(p, "pay") /\ Goto(p, AfterPay(p)) /\ ~proc[p].due
      /\ UNCHANGED <<orders, history, copies, tx, instance, deducted, free>>
  BY DEF BillingInv, NothingToPay, storeVars
<1>2. AfterPay(p) \in {"renew", "quota"} /\ (AfterPay(p) = "renew" => proc[p].old = Nil)
      /\ JobFits(p)' /\ TxFits(p)'
  BY <1>1, AfterPayFits
<1>3. HasPaid(p)'
  BY <1>1, <1>2, Gone DEF BillingInv, ProcInv, JobFits, HasPaid, Calls
<1>4. [Store!StoreNext]_storeVars /\ Deducts
  BY <1>1, NothingDeducted DEF storeVars, BillingInv
<1> QED BY <1>1, <1>2, <1>3, <1>4, GotoKeeps DEF Calls, BillingInv, VarsOK

\* A deduction counts for the consume the goroutine is at.
LEMMA DeductKeeps ==
    ASSUME BillingInv, NEW p \in Procs, Deduct(p), UNCHANGED free,
           proc[p].order # Nil, proc[p].job = "create" \/ proc[p].job = "renew"
    PROVE  /\ deducted' \in [Ids -> [1 .. MaxConsume -> 0 .. MaxDeductions]] /\ Deducts
           /\ deducted'[proc[p].order.id][proc[p].order.last + 1] > 0
<1>1. PICK i \in Ids, k \in 1 .. MaxConsume : i = proc[p].order.id /\ k = proc[p].order.last + 1
  BY ToPay
<1>2. deducted[i][k] < MaxDeductions /\ deducted' = [deducted EXCEPT ![i][k] = deducted[i][k] + 1]
  BY <1>1 DEF Deduct
<1>3. MaxDeductions \in Nat /\ deducted \in [Ids -> [1 .. MaxConsume -> 0 .. MaxDeductions]]
  BY LimitsAssumption DEF BillingInv, VarsOK, LimitsAssumption
<1>d. \A j \in Ids, n \in 1 .. MaxConsume : deducted[j][n] \in 0 .. MaxDeductions
  BY <1>3
<1>4. deducted[i][k] + 1 \in 0 .. MaxDeductions
  BY <1>d, <1>2, <1>3
<1>5. deducted' \in [Ids -> [1 .. MaxConsume -> 0 .. MaxDeductions]]
  BY <1>2, <1>3, <1>4
<1>6. deducted'[i][k] = deducted[i][k] + 1
  BY <1>2, <1>3
<1>7. \A j \in Ids, n \in 1 .. MaxConsume :
         ~(j = i /\ n = k) => deducted'[j][n] = deducted[j][n]
  BY <1>2, <1>3
<1>8. Deducts
  <2>1. \A j \in Ids, n \in 1 .. MaxConsume : deducted'[j][n] >= deducted[j][n]
    BY <1>d, <1>3, <1>6, <1>7
  <2> QED BY <2>1 DEF Deducts, BillingInv, VarsOK
<1>9. deducted'[i][k] > 0
  BY <1>d, <1>3, <1>6
<1> QED BY <1>1, <1>5, <1>8, <1>9

LEMMA PayOkKeeps ==
    ASSUME BillingInv, NEW p \in Procs, PayOk(p)
    PROVE  BillingInv'
<1>1. /\ ProcInv(p) /\ At(p, "pay") /\ Goto(p, AfterPay(p)) /\ Deduct(p)
      /\ UNCHANGED <<orders, history, copies, tx, instance, free>>
  BY DEF BillingInv, PayOk, storeVars
<1>2. /\ AfterPay(p) \in {"renew", "quota"} /\ (AfterPay(p) = "renew" => proc[p].old = Nil)
      /\ JobFits(p)' /\ TxFits(p)'
      /\ proc[p].order # Nil /\ (proc[p].job = "create" \/ proc[p].job = "renew")
  BY <1>1, AfterPayFits
<1>3. /\ deducted' \in [Ids -> [1 .. MaxConsume -> 0 .. MaxDeductions]] /\ Deducts
      /\ deducted'[proc[p].order.id][proc[p].order.last + 1] > 0
  BY <1>1, <1>2, DeductKeeps
<1>4. HasPaid(p)'
  BY <1>1, <1>2, <1>3, Gone DEF BillingInv, HasPaid, Calls
<1>5. [Store!StoreNext]_storeVars
  BY <1>1 DEF storeVars
<1> QED BY <1>1, <1>2, <1>3, <1>4, <1>5, GotoKeeps DEF Calls, BillingInv, VarsOK

LEMMA PayFailsKeeps ==
    ASSUME BillingInv, NEW p \in Procs, PayFails(p)
    PROVE  BillingInv'
<1>1. /\ ProcInv(p) /\ proc[p].pc = "pay" /\ proc[p] \in ProcState /\ tx[p] = Store!NoTx
      /\ UNCHANGED <<orders, history, copies, tx, instance, free>>
  BY DEF BillingInv, VarsOK, ProcInv, TxFits, PayFails, At, storeVars
<1>2. proc[p].order # Nil /\ (proc[p].job = "create" \/ proc[p].job = "renew")
  BY <1>1 DEF ProcInv, JobFits, CreateFits, CancelFits, RenewFits, ProcState
<1>3. deducted' \in [Ids -> [1 .. MaxConsume -> 0 .. MaxDeductions]] /\ Deducts
  <2>1. CASE Deduct(p)
    BY <1>1, <1>2, <2>1, DeductKeeps
  <2>2. CASE UNCHANGED deducted
    BY <1>1, <2>2, NothingDeducted DEF BillingInv, VarsOK
  <2> QED BY <2>1, <2>2 DEF PayFails
<1> DEFINE new == [proc[p] EXCEPT !.pc = "count", !.short = TRUE]
           gone == [proc[p] EXCEPT !.pc = "count"]
<1>4. PICK x \in {new, gone} : proc' = [proc EXCEPT ![p] = x]
  BY DEF PayFails, Goto, BillingInv, VarsOK
<1>5. /\ x \in ProcState /\ x.pc = "count" /\ x.order = proc[p].order
      /\ x.job = proc[p].job /\ x.slot = proc[p].slot /\ x.old = proc[p].old
      /\ x.kind = proc[p].kind /\ x.due = proc[p].due
  BY <1>1 DEF ProcState, Calls
<1>6. proc'[p] = x /\ Only(p) /\ proc' \in [Procs -> ProcState]
  BY <1>4, <1>5 DEF BillingInv, VarsOK, Only
<1>7. HoldsCopies(p)' /\ JobFits(p)'
  BY <1>1, <1>2, <1>5, <1>6 DEF ProcInv, HoldsCopies, JobFits, CreateFits, RenewFits
<1>8. TxFits(p)' /\ HasPaid(p)' /\ IsFree(p)' /\ OldHasEnded(p)'
  BY <1>1, <1>5, <1>6 DEF ProcInv, TxFits, HasPaid, Past, IsFree, OldHasEnded
<1>9. VarsOK'
  BY <1>1, <1>3, <1>6 DEF BillingInv, VarsOK, Deducts
<1> QED BY <1>1, <1>3, <1>6, <1>7, <1>8, <1>9, Quiet DEF ProcInv, storeVars
-----------------------------------------------------------------------------
(***************************************************************************)
(* After a failed payment, and whenever a call gives up.                   *)
(***************************************************************************)
LEMMA AfterCountKeeps ==
    ASSUME BillingInv, NEW p \in Procs, proc[p].pc \in {"count", "counting"},
           [Store!StoreNext]_storeVars, TablesInv', AfterCount(p),
           UNCHANGED <<instance, deducted, free>>,
           tx'[p] = Store!NoTx, \A q \in Procs : q # p => tx'[q] = tx[q]
    PROVE  BillingInv'
<1>1. ProcInv(p) /\ proc[p] \in ProcState
  BY DEF BillingInv, VarsOK
<1>2. Deducts /\ VarsOK
  BY NothingDeducted DEF BillingInv
<1>3. CASE Return(p)
  BY <1>3, ReturnsKeep DEF BillingInv, VarsOK
<1>4. CASE proc[p].job = "create" /\ Goto(p, "rollback")
  <2>1. JobFits(p)' /\ TxFits(p)' /\ HasPaid(p)'
    BY <1>1, <1>4, Gone
    DEF BillingInv, ProcInv, JobFits, CreateFits, TxFits, HasPaid, Past, Calls
  <2> QED BY <1>2, <1>4, <2>1, GoesKeep DEF Calls, VarsOK
<1>5. CASE proc[p].job = "renew" /\ Goto(p, "short")
  <2>1. JobFits(p)' /\ TxFits(p)' /\ HasPaid(p)'
    BY <1>1, <1>5, Gone
    DEF BillingInv, ProcInv, JobFits, RenewFits, TxFits, HasPaid, Past, Calls
  <2> QED BY <1>2, <1>5, <2>1, GoesKeep DEF Calls, VarsOK
<1> QED BY <1>3, <1>4, <1>5 DEF AfterCount

LEMMA GiveUpKeeps ==
    ASSUME BillingInv, NEW p \in Procs, [Store!StoreNext]_storeVars, GiveUp(p),
           UNCHANGED <<orders, history, copies, instance, deducted, free>>,
           tx'[p] = Store!NoTx, \A q \in Procs : q # p => tx'[q] = tx[q]
    PROVE  BillingInv'
<1>1. TablesInv'
  BY SameTables, NothingDeducted DEF BillingInv, VarsOK
<1>2. CASE proc[p].pc \in {"count", "counting"}
  BY <1>1, <1>2, AfterCountKeeps DEF GiveUp
<1>3. CASE proc[p].pc \notin {"count", "counting"}
  BY <1>1, <1>3, ReturnsKeep DEF GiveUp, BillingInv, VarsOK
<1> QED BY <1>2, <1>3

LEMMA CountBeginKeeps ==
    ASSUME BillingInv, NEW p \in Procs, CountBegin(p)
    PROVE  BillingInv'
<1>1. /\ ProcInv(p) /\ proc[p].pc = "count" /\ proc[p] \in ProcState
      /\ Goto(p, "counting") /\ Store!FailBegin(p, proc[p].order.id)
      /\ UNCHANGED <<instance, deducted, free>>
  BY DEF BillingInv, VarsOK, CountBegin, At
<1>2. /\ proc[p].job = "create" \/ proc[p].job = "renew"
      /\ proc[p].order # Nil
  BY <1>1 DEF ProcInv, JobFits, CreateFits, CancelFits, RenewFits, ProcState
<1>3. [Store!StoreNext]_storeVars
  BY <1>1, <1>2 DEF Store!StoreNext, ProcInv, HoldsCopies
<1>4. /\ tx'[p].op = "fail" /\ \A q \in Procs : q # p => tx'[q] = tx[q]
      /\ UNCHANGED <<orders, history, copies>>
  BY <1>1 DEF Store!FailBegin, BillingInv, Store!StoreInv, Store!TypeOK
<1>5. JobFits(p)' /\ TxFits(p)' /\ HasPaid(p)'
  BY <1>1, <1>2, <1>4, Gone
  DEF BillingInv, ProcInv, JobFits, CreateFits, RenewFits, TxFits, HasPaid, Past, Calls
<1> QED BY <1>1, <1>3, <1>4, <1>5, GotoKeeps, NothingDeducted
        DEF BillingInv, VarsOK, Calls

LEMMA CountCommitKeeps ==
    ASSUME BillingInv, NEW p \in Procs, CountCommit(p)
    PROVE  BillingInv'
<1>1. /\ proc[p].pc = "counting" /\ Store!FailCommit(p) /\ AfterCount(p)
      /\ UNCHANGED <<instance, deducted, free>>
  BY DEF CountCommit, At
<1>2. [Store!StoreNext]_storeVars
  BY <1>1 DEF Store!StoreNext
<1> DEFINE i == tx[p].id
           n == tx[p].retries + 1
<1>3. /\ orders' = [orders EXCEPT ![i].retries = n]
      /\ tx' = [tx EXCEPT ![p] = Store!NoTx]
      /\ UNCHANGED <<history, copies>>
  BY <1>1 DEF Store!FailCommit
<1> HIDE DEF i, n
<1>4. /\ \A j \in Ids : Store!CopyOf(j, orders'[j]) = Store!CopyOf(j, orders[j])
                        /\ orders'[j].status = orders[j].status
      /\ tx'[p] = Store!NoTx /\ \A q \in Procs : q # p => tx'[q] = tx[q]
  BY <1>3 DEF BillingInv, Store!StoreInv, Store!TypeOK, Store!OrderRow, Store!CopyOf
<1>5. TablesInv'
  BY <1>1, <1>3, <1>4
  DEF BillingInv, TablesInv, ReadsAreCopies, LedgerInRange, ConsumesAreDeducted,
      RenewalsFollow, Read, Store!Exists
<1> QED BY <1>1, <1>2, <1>4, <1>5, AfterCountKeeps

-----------------------------------------------------------------------------
(***************************************************************************)
(* The platform: what a destroy or a change of quota does to instance.     *)
(***************************************************************************)
LEMMA DestroyedOK ==
    ASSUME BillingInv, NEW s, DestroyOk(s) \/ DestroyFails(s)
    PROVE  instance' \in [Slots -> Ids \cup {Nil}]
  BY DEF BillingInv, VarsOK, DestroyOk, DestroyFails

LEMMA RollbackKeeps ==
    ASSUME BillingInv, NEW p \in Procs, Rollback(p)
    PROVE  BillingInv'
<1>1. /\ tx[p] = Store!NoTx /\ UNCHANGED <<orders, history, copies, tx, deducted, free>>
      /\ Return(p)
      /\ DestroyOk(proc[p].slot) \/ DestroyFails(proc[p].slot)
  BY DEF BillingInv, ProcInv, TxFits, Rollback, At, storeVars
<1>2. instance' \in [Slots -> Ids \cup {Nil}]
  BY <1>1, DestroyedOK
<1> QED BY <1>1, <1>2, ReturnKeeps DEF storeVars

LEMMA QuotaKeeps ==
    ASSUME BillingInv, NEW p \in Procs, Quota(p)
    PROVE  BillingInv'
<1>1. /\ ProcInv(p) /\ proc[p].pc = "quota" /\ proc[p] \in ProcState /\ tx[p] = Store!NoTx
      /\ UNCHANGED <<orders, history, copies, tx, deducted, free>>
  BY DEF BillingInv, VarsOK, ProcInv, TxFits, Quota, At, storeVars
<1>2. proc[p].job = "create" /\ proc[p].order # Nil
  BY <1>1 DEF ProcInv, JobFits, CreateFits, CancelFits, RenewFits, ProcState
<1>3. instance' \in [Slots -> Ids \cup {Nil}]
  BY <1>2, ToPay DEF Quota, BillingInv, VarsOK
<1>4. [Store!StoreNext]_storeVars /\ Deducts
  BY <1>1, NothingDeducted DEF storeVars, BillingInv
<1>5. CASE Return(p)
  BY <1>1, <1>3, <1>4, <1>5, ReturnKeeps
<1>6. CASE Goto(p, AfterQuota(p))
  <2>1. AfterQuota(p) \in {"end", "renew"}
        /\ (AfterQuota(p) = "end" <=> proc[p].old # Nil)
    BY DEF AfterQuota
  <2>2. JobFits(p)' /\ TxFits(p)' /\ HasPaid(p)'
    BY <1>1, <1>2, <1>6, <2>1, Gone
    DEF BillingInv, ProcInv, JobFits, CreateFits, TxFits, HasPaid, Past, Calls
  <2> QED BY <1>1, <1>3, <1>4, <1>6, <2>1, <2>2, GotoKeeps DEF Calls, BillingInv, VarsOK
<1> QED BY <1>5, <1>6 DEF Quota

LEMMA DestroyKeeps ==
    ASSUME BillingInv, NEW p \in Procs, Destroy(p)
    PROVE  BillingInv'
<1>1. /\ ProcInv(p) /\ proc[p].pc = "destroy" /\ proc[p] \in ProcState /\ tx[p] = Store!NoTx
      /\ UNCHANGED <<orders, history, copies, tx, deducted, free>>
  BY DEF BillingInv, VarsOK, ProcInv, TxFits, Destroy, At, storeVars
<1>2. instance' \in [Slots -> Ids \cup {Nil}]
  BY DestroyedOK DEF Destroy
<1>3. [Store!StoreNext]_storeVars /\ Deducts
  BY <1>1, NothingDeducted DEF storeVars, BillingInv
<1>4. CASE Return(p)
  BY <1>1, <1>2, <1>3, <1>4, ReturnKeeps
<1>5. CASE Goto(p, "end")
  <2>1. JobFits(p)' /\ TxFits(p)' /\ HasPaid(p)'
    BY <1>1, <1>5, Gone
    DEF BillingInv, ProcInv, JobFits, CreateFits, CancelFits, RenewFits, TxFits, HasPaid, Past,
        Calls
  <2> QED BY <1>1, <1>2, <1>3, <1>5, <2>1, GotoKeeps DEF Calls, BillingInv, VarsOK
<1> QED BY <1>4, <1>5 DEF Destroy

LEMMA ShortKeeps ==
    ASSUME BillingInv, NEW p \in Procs, Short(p)
    PROVE  BillingInv'
<1>1. /\ ProcInv(p) /\ proc[p].pc = "short" /\ proc[p] \in ProcState /\ tx[p] = Store!NoTx
      /\ UNCHANGED <<orders, history, copies, tx, instance, deducted, free>>
  BY DEF BillingInv, VarsOK, ProcInv, TxFits, Short, At, storeVars
<1>2. [Store!StoreNext]_storeVars /\ Deducts
  BY <1>1, NothingDeducted DEF storeVars, BillingInv
<1>3. CASE Return(p)
  BY <1>1, <1>2, <1>3, ReturnKeeps DEF BillingInv, VarsOK
<1>4. CASE Goto(p, "destroy")
  <2>1. JobFits(p)' /\ TxFits(p)' /\ HasPaid(p)'
    BY <1>1, <1>4, Gone
    DEF BillingInv, ProcInv, JobFits, CreateFits, CancelFits, RenewFits, TxFits, HasPaid, Past,
        Calls
  <2> QED BY <1>1, <1>2, <1>4, <2>1, GotoKeeps DEF Calls, BillingInv, VarsOK
<1> QED BY <1>3, <1>4 DEF Short

-----------------------------------------------------------------------------
(***************************************************************************)
(* Calls that come back without having done their work.                    *)
(***************************************************************************)
LEMMA RefusedKeeps ==
    ASSUME BillingInv, NEW p \in Procs, Refused(p)
    PROVE  BillingInv'
<1>1. /\ proc[p].pc \in {"insert", "count", "end", "renew"} /\ GiveUp(p)
      /\ UNCHANGED <<orders, history, copies, tx, instance, deducted, free>>
  BY DEF Refused, At, storeVars
<1>2. tx[p] = Store!NoTx
  BY <1>1 DEF BillingInv, ProcInv, TxFits
<1> QED BY <1>1, <1>2, GiveUpKeeps DEF storeVars

LEMMA AbortKeeps ==
    ASSUME BillingInv, NEW p \in Procs, Store!Abort(p), GiveUp(p), UNCHANGED <<instance, deducted, free>>
    PROVE  BillingInv'
<1>1. [Store!StoreNext]_storeVars
  BY DEF Store!StoreNext
<1>2. /\ tx'[p] = Store!NoTx /\ \A q \in Procs : q # p => tx'[q] = tx[q]
      /\ UNCHANGED <<orders, history, copies>>
  BY DEF Store!Abort, BillingInv, Store!StoreInv, Store!TypeOK
<1> QED BY <1>1, <1>2, GiveUpKeeps

LEMMA CollidesKeeps ==
    ASSUME BillingInv, NEW p \in Procs, Collides(p)
    PROVE  BillingInv'
  BY AbortKeeps DEF Collides

LEMMA DbFailsKeeps ==
    ASSUME BillingInv, NEW p \in Procs, DbFails(p)
    PROVE  BillingInv'
<1>1. GiveUp(p) /\ UNCHANGED <<instance, deducted, free>>
  BY DEF DbFails
<1>2. CASE Store!Abort(p)
  BY <1>1, <1>2, AbortKeeps
<1>3. CASE proc[p].pc \in {"insert", "count", "end", "renew"} /\ UNCHANGED storeVars
  <2>1. tx[p] = Store!NoTx
    BY <1>3 DEF BillingInv, ProcInv, TxFits
  <2> QED BY <1>1, <1>3, <2>1, GiveUpKeeps DEF storeVars
<1> QED BY <1>2, <1>3 DEF DbFails

-----------------------------------------------------------------------------
(***************************************************************************)
(* The end of an order.                                                    *)
(***************************************************************************)
LEMMA Ends ==
    ASSUME BillingInv, NEW p \in Procs, proc[p].pc \in {"end", "ending"}
    PROVE  /\ Ending(p) \in copies /\ Ending(p) \in Store!Copy
           /\ proc[p].job = "create" => /\ Ending(p) = proc[p].old
                                        /\ proc[p].old # Nil /\ proc[p].order # Nil
           /\ proc[p].job \in {"create", "cancel", "renew"}
<1>1. ProcInv(p) /\ proc[p] \in ProcState
  BY DEF BillingInv, VarsOK
<1>2. /\ proc[p].job \in {"create", "cancel", "renew"} /\ proc[p].order # Nil
      /\ proc[p].job = "create" => proc[p].old # Nil
  BY <1>1 DEF ProcInv, JobFits, CreateFits, CancelFits, RenewFits, ProcState
<1>3. Ending(p) \in copies
  BY <1>1, <1>2 DEF ProcInv, HoldsCopies, Ending
<1> QED BY <1>2, <1>3 DEF Ending, BillingInv, Store!StoreInv, Store!TypeOK

LEMMA EndBeginKeeps ==
    ASSUME BillingInv, NEW p \in Procs, EndBegin(p)
    PROVE  BillingInv'
<1>1. /\ ProcInv(p) /\ proc[p].pc = "end" /\ proc[p] \in ProcState
      /\ Goto(p, "ending") /\ Store!EndBegin(p, Ending(p))
      /\ UNCHANGED <<instance, deducted, free>>
  BY DEF BillingInv, VarsOK, EndBegin, At
<1>2. [Store!StoreNext]_storeVars
  BY <1>1, Ends DEF Store!StoreNext
<1>3. /\ tx'[p] = [op |-> "end", copy |-> Ending(p)] /\ \A q \in Procs : q # p => tx'[q] = tx[q]
      /\ UNCHANGED <<orders, history, copies>>
  BY <1>1 DEF Store!EndBegin, BillingInv, Store!StoreInv, Store!TypeOK
<1>4. Ending(p)' = Ending(p)
  BY <1>1, Gone DEF BillingInv, Ending, Calls
<1>5. TxFits(p)'
  BY <1>1, <1>3, <1>4, Gone DEF BillingInv, TxFits, Calls
<1>6. JobFits(p)' /\ HasPaid(p)'
  BY <1>1, Gone
  DEF BillingInv, ProcInv, JobFits, CreateFits, CancelFits, RenewFits, HasPaid, Past, Calls
<1> QED BY <1>1, <1>2, <1>3, <1>5, <1>6, GotoKeeps, NothingDeducted
        DEF BillingInv, VarsOK, Calls

\* Who ends an old order that is not consuming any more finds it ended.
LEMMA AlreadyEnded ==
    ASSUME BillingInv, NEW p \in Procs, Store!EndNothing(p)
    PROVE  orders[tx[p].copy.id].status = "ended"
<1>1. /\ tx[p].op = "end" /\ orders[tx[p].copy.id].status # "consuming"
      /\ tx[p].copy \in copies /\ tx[p].copy.last > 0
  BY DEF Store!EndNothing, Store!StillConsuming, BillingInv, Store!StoreInv, Store!TxBehind
<1>2. PICK o \in copies : o = tx[p].copy
  BY <1>1
<1>3. o \in Store!Copy /\ o.last <= orders[o.id].last
  BY DEF BillingInv, Store!StoreInv, Store!TypeOK, Store!CopiesBehind
<1>4. o.id \in Ids /\ o.last \in Nat /\ orders[o.id] \in Store!OrderRow
  BY <1>3 DEF Store!Copy, BillingInv, Store!StoreInv, Store!TypeOK
<1>5. orders[o.id].last # 0
  BY <1>1, <1>2, <1>3, <1>4 DEF Store!OrderRow
<1>6. orders[o.id].status \notin {"absent", "pending"}
  BY <1>4, <1>5 DEF BillingInv, Store!StoreInv, Store!RowAgrees
<1> QED BY <1>1, <1>2, <1>4, <1>6 DEF Store!OrderRow, Store!Status

LEMMA EndCommitKeeps ==
    ASSUME BillingInv, NEW p \in Procs, EndCommit(p)
    PROVE  BillingInv'
<1>1. /\ ProcInv(p) /\ proc[p].pc = "ending" /\ proc[p] \in ProcState
      /\ Store!EndCommit(p) \/ Store!EndNothing(p)
      /\ AfterEnd(p) \/ Return(p)
      /\ UNCHANGED <<instance, deducted, free>>
  BY DEF BillingInv, VarsOK, EndCommit, At
<1>2. [Store!StoreNext]_storeVars
  BY <1>1 DEF Store!StoreNext
<1>3. tx[p].copy = Ending(p) /\ Ending(p) \in Store!Copy
  BY <1>1, Ends DEF ProcInv, TxFits
<1>4. PICK i \in Ids : i = Ending(p).id
  BY <1>3 DEF Store!Copy
<1>5. tx'[p] = Store!NoTx /\ \A q \in Procs : q # p => tx'[q] = tx[q]
  BY <1>1 DEF Store!EndCommit, Store!EndNothing, BillingInv, Store!StoreInv, Store!TypeOK
<1>6. orders'[i].status = "ended" /\ TablesInv'
  <2>1. CASE Store!EndCommit(p)
    <3>1. /\ orders' = [orders EXCEPT ![i].status = "ended"]
          /\ history' = history \cup {Store!EndRow(Ending(p))}
          /\ copies' = copies
      BY <1>3, <1>4, <2>1 DEF Store!EndCommit
    <3>2. Store!EndRow(Ending(p)).kind = "end"
      BY DEF Store!EndRow
    <3>3. \A j \in Ids : Store!CopyOf(j, orders'[j]) = Store!CopyOf(j, orders[j])
      BY <3>1 DEF BillingInv, Store!StoreInv, Store!TypeOK, Store!OrderRow, Store!CopyOf
    <3>4. orders'[i].status = "ended"
          /\ \A j \in Ids : j # i => orders'[j].status = orders[j].status
      BY <3>1 DEF BillingInv, Store!StoreInv, Store!TypeOK, Store!OrderRow
    <3>5. orders[i].status = "consuming"
      BY <1>3, <1>4, <2>1 DEF Store!EndCommit, Store!StillConsuming
    <3>6. ReadsAreCopies'
      BY <3>1, <3>3, <3>4, <3>5 DEF BillingInv, TablesInv, ReadsAreCopies, Read, Store!Exists
    <3>7. LedgerInRange' /\ ConsumesAreDeducted' /\ RenewalsFollow'
      BY <1>1, <3>1, <3>2
      DEF BillingInv, TablesInv, LedgerInRange, ConsumesAreDeducted, RenewalsFollow
    <3> QED BY <3>4, <3>6, <3>7 DEF TablesInv
  <2>2. CASE Store!EndNothing(p)
    <3>1. UNCHANGED <<orders, history, copies>>
      BY <2>2 DEF Store!EndNothing
    <3>2. TablesInv'
      BY <1>1, <3>1, SameTables, NothingDeducted DEF BillingInv, VarsOK
    <3> QED BY <1>3, <1>4, <2>2, <3>1, <3>2, AlreadyEnded
  <2> QED BY <1>1, <2>1, <2>2
<1>7. CASE Return(p)
  BY <1>1, <1>2, <1>5, <1>6, <1>7, ReturnsKeep DEF BillingInv, VarsOK
<1>8. CASE proc[p].job = "create" /\ Goto(p, "renew")
  <2>1. JobFits(p)' /\ TxFits(p)' /\ HasPaid(p)'
    BY <1>1, <1>5, <1>8, Gone
    DEF BillingInv, ProcInv, JobFits, CreateFits, TxFits, HasPaid, Past, Calls
  <2>2. i = proc[p].old.id
    BY <1>1, <1>4, <1>8, Ends
  <2>3. OldHasEnded(p)'
    BY <1>6, <1>8, <2>2, Gone DEF OldHasEnded, BillingInv, Calls
  <2> QED BY <1>1, <1>2, <1>5, <1>6, <1>8, <2>1, <2>3, GoesKeep, NothingDeducted
          DEF Calls, BillingInv, VarsOK
<1> QED BY <1>1, <1>7, <1>8 DEF AfterEnd
-----------------------------------------------------------------------------
(***************************************************************************)
(* The charge.                                                             *)
(***************************************************************************)
LEMMA RenewBeginKeeps ==
    ASSUME BillingInv, NEW p \in Procs, RenewBegin(p)
    PROVE  BillingInv'
<1>1. /\ ProcInv(p) /\ proc[p].pc = "renew" /\ proc[p] \in ProcState
      /\ Goto(p, "renewing") /\ Store!RenewBegin(p, proc[p].order, proc[p].kind)
      /\ UNCHANGED <<instance, deducted, free>>
  BY DEF BillingInv, VarsOK, RenewBegin, At
<1>2. /\ proc[p].job = "create" \/ proc[p].job = "renew"
      /\ proc[p].order # Nil /\ proc[p].order \in copies /\ proc[p].kind \in Kinds
  BY <1>1
  DEF ProcInv, HoldsCopies, JobFits, CreateFits, CancelFits, RenewFits, ProcState
<1>3. [Store!StoreNext]_storeVars
  BY <1>1, <1>2 DEF Store!StoreNext
<1>4. /\ tx'[p] = [op |-> "renew", id |-> proc[p].order.id, last |-> proc[p].order.last,
                   deadline |-> orders[proc[p].order.id].deadline, kind |-> proc[p].kind]
      /\ \A q \in Procs : q # p => tx'[q] = tx[q]
      /\ UNCHANGED <<orders, history, copies>>
  BY <1>1 DEF Store!RenewBegin, Store!MovedOn, BillingInv, Store!StoreInv, Store!TypeOK
<1>5. JobFits(p)' /\ TxFits(p)' /\ HasPaid(p)'
  <2>1. /\ proc'[p].pc = "renewing"
        /\ proc'[p].job = proc[p].job /\ proc'[p].slot = proc[p].slot
        /\ proc'[p].order = proc[p].order /\ proc'[p].old = proc[p].old
        /\ proc'[p].kind = proc[p].kind /\ proc'[p].due = proc[p].due
    BY <1>1, Gone DEF BillingInv, Calls
  <2>2. JobFits(p)'
    BY <1>1, <1>2, <2>1 DEF ProcInv, JobFits, CreateFits, RenewFits
  <2>3. TxFits(p)'
    BY <1>4, <2>1 DEF TxFits
  <2>4. HasPaid(p)'
    BY <1>1, <2>1 DEF ProcInv, HasPaid, Past
  <2> QED BY <2>2, <2>3, <2>4
<1>6. OldHasEnded(p)'
  BY <1>1, <1>4, Gone DEF BillingInv, ProcInv, OldHasEnded, Calls
<1> QED BY <1>1, <1>3, <1>4, <1>5, <1>6, GotoKeeps, NothingDeducted
        DEF BillingInv, VarsOK, Calls

(***************************************************************************)
(* The new row is for a consume its goroutine has paid, unless nothing was *)
(* due; its kind is the job's.                                             *)
(***************************************************************************)
LEMMA RenewCommitKeeps ==
    ASSUME BillingInv, NEW p \in Procs, RenewCommit(p)
    PROVE  BillingInv'
<1>1. /\ ProcInv(p) /\ proc[p].pc = "renewing" /\ proc[p] \in ProcState
      /\ Store!RenewCommit(p) /\ Return(p)
      /\ UNCHANGED <<instance, deducted, free>>
  BY DEF BillingInv, VarsOK, RenewCommit, At
<1>2. [Store!StoreNext]_storeVars
  BY <1>1 DEF Store!StoreNext
<1>3. /\ proc[p].job = "create" \/ proc[p].job = "renew"
      /\ proc[p].order # Nil
  BY <1>1 DEF ProcInv, JobFits, CreateFits, CancelFits, RenewFits, ProcState
<1>4. PICK i \in Ids, k \in 1 .. MaxConsume : i = proc[p].order.id /\ k = proc[p].order.last + 1
  BY <1>3, ToPay
<1>5. /\ proc[p].kind \in {"new", "switch", "renew"}
      /\ k > 1 <=> proc[p].kind = "renew"
      /\ deducted[i][k] > 0 \/ (proc[p].kind = "switch" /\ i \in free)
  BY <1>1, <1>3, <1>4 DEF ProcInv, JobFits, CreateFits, RenewFits, HasPaid, Past, IsFree
<1> DEFINE row == Store!Renewed(orders[i], tx[p])
           new == Store!RenewRow(tx[p])
<1>6. new.id = i /\ new.cid = k /\ new.kind = proc[p].kind
  BY <1>1, <1>4 DEF Store!RenewRow, ProcInv, TxFits
<1>7. /\ orders' = [orders EXCEPT ![i] = row]
      /\ history' = history \cup {new}
      /\ copies' = copies \cup {Store!CopyOf(i, row)}
      /\ tx' = [tx EXCEPT ![p] = Store!NoTx]
  BY <1>1, <1>4 DEF Store!RenewCommit, ProcInv, TxFits
<1> HIDE DEF row, new
<1>8. /\ orders'[i] = row /\ \A j \in Ids : j # i => orders'[j] = orders[j]
      /\ tx'[p] = Store!NoTx /\ \A q \in Procs : q # p => tx'[q] = tx[q]
  BY <1>7 DEF BillingInv, Store!StoreInv, Store!TypeOK
<1>9. ReadsAreCopies'
  BY <1>7, <1>8 DEF BillingInv, TablesInv, ReadsAreCopies, Read, Store!Exists, Store!CopyOf
<1>10. LedgerInRange'
  BY <1>6, <1>7 DEF BillingInv, TablesInv, LedgerInRange
<1>11. ConsumesAreDeducted'
  BY <1>1, <1>5, <1>6, <1>7 DEF BillingInv, TablesInv, ConsumesAreDeducted
<1>12. RenewalsFollow'
  BY <1>5, <1>6, <1>7 DEF BillingInv, TablesInv, RenewalsFollow
<1> QED BY <1>1, <1>2, <1>8, <1>9, <1>10, <1>11, <1>12, ReturnsKeep
        DEF TablesInv, BillingInv, VarsOK

-----------------------------------------------------------------------------
LEMMA CrashKeeps == ASSUME BillingInv, Crash PROVE BillingInv'
<1>1. /\ proc' = [p \in Procs |-> Idle] /\ tx' = [p \in Procs |-> Store!NoTx]
      /\ UNCHANGED <<orders, history, copies, instance, deducted, free>>
      /\ [Store!StoreNext]_storeVars
  BY DEF Crash, Store!StoreCrash, Store!StoreNext
<1>2. Store!StoreInv'
  BY <1>1, StoreKeeps DEF BillingInv
<1>3. \A p \in Procs : ProcInv(p)'
  BY <1>1, IdleFits
<1>4. VarsOK'
  BY <1>1, IdleState DEF BillingInv, VarsOK
<1>5. TablesInv'
  BY <1>1, SameTables, NothingDeducted DEF BillingInv, VarsOK
<1> QED BY <1>2, <1>3, <1>4, <1>5 DEF BillingInv

LEMMA Starts == Init => BillingInv
<1> SUFFICES ASSUME Init PROVE BillingInv
  OBVIOUS
<1>1. Store!StoreInv
  BY StoreStarts DEF Init
<1>2. VarsOK
  BY IdleState, LimitsAssumption DEF Init, VarsOK, LimitsAssumption
<1>3. \A p \in Procs : ProcInv(p)
  BY IdleState
  DEF Init, Store!StoreInit, ProcInv, HoldsCopies, JobFits, TxFits, HasPaid, Past, IsFree,
      OldHasEnded
<1>4. TablesInv
  BY DEF Init, Store!StoreInit, Store!NoRow, Store!Exists, TablesInv, ReadsAreCopies,
         LedgerInRange, ConsumesAreDeducted, RenewalsFollow
<1> QED BY <1>1, <1>2, <1>3, <1>4 DEF BillingInv

LEMMA StandsStill == ASSUME BillingInv, UNCHANGED vars PROVE BillingInv'
<1>1. UNCHANGED <<orders, history, copies, tx, proc, instance, deducted, free>>
  BY DEF vars
<1>2. Store!StoreInv'
  BY <1>1, StoreKeeps DEF BillingInv, storeVars
<1>3. \A p \in Procs : ProcInv(p)'
  BY <1>1
  DEF BillingInv, ProcInv, HoldsCopies, JobFits, CreateFits, CancelFits, RenewFits, TxFits,
      Ending, HasPaid, Past, IsFree, OldHasEnded
<1>4. TablesInv' /\ VarsOK'
  BY <1>1, SameTables, NothingDeducted DEF BillingInv, VarsOK
<1> QED BY <1>2, <1>3, <1>4 DEF BillingInv

LEMMA NextKeeps == BillingInv /\ [Next]_vars => BillingInv'
<1> SUFFICES ASSUME BillingInv, [Next]_vars PROVE BillingInv'
  OBVIOUS
<1>1. ASSUME NEW p \in Users, NEW s \in Slots, ReceiveCreate(p, s) PROVE BillingInv'
  BY <1>1, ReceiveCreateKeeps
<1>2. ASSUME NEW p \in Users, NEW i \in Ids, ReceiveCancel(p, i) PROVE BillingInv'
  BY <1>2, ReceiveCancelKeeps
<1>3. ASSUME NEW i \in Ids, PickDue(i) PROVE BillingInv'
  BY <1>3, PickDueKeeps
<1>4. ASSUME NEW p \in Procs, Step(p) PROVE BillingInv'
  BY <1>4, InsertBeginKeeps, InsertCommitKeeps, PriceKeeps, AllocateKeeps, NothingToPayKeeps,
     PayOkKeeps, PayFailsKeeps, CountBeginKeeps, CountCommitKeeps, RollbackKeeps, QuotaKeeps,
     EndBeginKeeps, EndCommitKeeps, RenewBeginKeeps, RenewCommitKeeps, RefusedKeeps,
     CollidesKeeps, DbFailsKeeps, DestroyKeeps, ShortKeeps
  DEF Step
<1>5. CASE Crash
  BY <1>5, CrashKeeps
<1>6. CASE Rest \/ UNCHANGED vars
  BY <1>6, StandsStill DEF Rest
<1> QED BY <1>1, <1>2, <1>3, <1>4, <1>5, <1>6 DEF Next

(***************************************************************************)
(* The inductive invariant holds whatever fails and however many           *)
(* goroutines serve requests beside the maintainer.                        *)
(***************************************************************************)
THEOREM BillingInvariant == Spec => []BillingInv
  BY Starts, NextKeeps, PTL DEF Spec

(***************************************************************************)
(* Every variable has its type, and a goroutine has a transaction open     *)
(* exactly inside a call of package usage.                                 *)
(***************************************************************************)
THEOREM BillingTypeOK == Spec => []TypeOK
<1>1. ASSUME BillingInv, NEW p \in Procs
      PROVE  proc[p].pc \in {"inserting", "counting", "ending", "renewing"} <=> tx[p] # Store!NoTx
  BY <1>1 DEF BillingInv, ProcInv, TxFits, Store!NoTx
<1>2. BillingInv => TypeOK
  BY <1>1 DEF BillingInv, VarsOK, TypeOK, Store!StoreInv
<1> QED BY <1>2, BillingInvariant, PTL

(***************************************************************************)
(* A recorded consume was deducted, unless it is a switch's that came out  *)
(* at nothing: no failure, crash or stale copy lets createOrder or a       *)
(* renewal skip a payment that is due.                                     *)
(***************************************************************************)
THEOREM RecordedIsDeducted == Spec => []ConsumesAreDeducted
<1>1. BillingInv => ConsumesAreDeducted
  BY DEF BillingInv, TablesInv
<1> QED BY <1>1, BillingInvariant, PTL

(***************************************************************************)
(* The first consume of an order is a new one or a switch, every later one *)
(* a renewal.                                                              *)
(***************************************************************************)
THEOREM RenewalsComeLater == Spec => []RenewalsFollow
<1>1. BillingInv => RenewalsFollow
  BY DEF BillingInv, TablesInv
<1> QED BY <1>1, BillingInvariant, PTL

(***************************************************************************)
(* Before createOrder makes an order consuming, the order it replaces has  *)
(* ended, even when another goroutine ended it.                            *)
(***************************************************************************)
THEOREM SwitchReplaces == Spec => []SwitchEndsOld
<1>1. BillingInv => SwitchEndsOld
  BY DEF BillingInv, ProcInv, OldHasEnded, SwitchEndsOld
<1> QED BY <1>1, BillingInvariant, PTL

-----------------------------------------------------------------------------
(***************************************************************************)
(* The refinement: which step of the store each step of a handler is.      *)
(***************************************************************************)
LEMMA BeginsInStore ==
    ASSUME BillingInv, NEW p \in Procs,
           InsertBegin(p) \/ CountBegin(p) \/ EndBegin(p) \/ RenewBegin(p)
    PROVE  Store!StoreNext
<1>1. ProcInv(p) /\ proc[p] \in ProcState
  BY DEF BillingInv, VarsOK
<1>2. CASE InsertBegin(p)
  <2>1. proc[p].slot \in Slots
    BY <1>1, <1>2
    DEF InsertBegin, At, ProcInv, JobFits, CreateFits, CancelFits, RenewFits, ProcState
  <2> QED BY <1>2, <2>1 DEF InsertBegin, Store!StoreNext
<1>3. CASE CountBegin(p)
  <2>1. proc[p].order \in copies
    BY <1>1, <1>3
    DEF CountBegin, At, ProcInv, HoldsCopies, JobFits, CreateFits, CancelFits, RenewFits, ProcState
  <2> QED BY <1>3, <2>1 DEF CountBegin, Store!StoreNext
<1>4. CASE EndBegin(p)
  BY <1>4, Ends DEF EndBegin, At, Store!StoreNext
<1>5. CASE RenewBegin(p)
  <2>1. proc[p].order \in copies /\ proc[p].kind \in Kinds
    BY <1>1, <1>5
    DEF RenewBegin, At, ProcInv, HoldsCopies, JobFits, CreateFits, CancelFits, RenewFits, ProcState
  <2> QED BY <1>5, <2>1 DEF RenewBegin, Store!StoreNext
<1> QED BY <1>2, <1>3, <1>4, <1>5

LEMMA EndsInStore ==
    ASSUME NEW p \in Procs,
           InsertCommit(p) \/ CountCommit(p) \/ EndCommit(p) \/ RenewCommit(p) \/ Collides(p)
    PROVE  Store!StoreNext
  BY DEF InsertCommit, CountCommit, EndCommit, RenewCommit, Collides, Store!StoreNext

LEMMA StepInStore ==
    ASSUME BillingInv, [Next]_vars
    PROVE  [Store!StoreNext]_storeVars
<1>1. ASSUME NEW p \in Procs, Step(p) PROVE [Store!StoreNext]_storeVars
  <2>1. CASE InsertBegin(p) \/ CountBegin(p) \/ EndBegin(p) \/ RenewBegin(p)
    BY <2>1, BeginsInStore
  <2>2. CASE InsertCommit(p) \/ CountCommit(p) \/ EndCommit(p) \/ RenewCommit(p) \/ Collides(p)
    BY <2>2, EndsInStore
  <2>3. CASE DbFails(p)
    BY <2>3 DEF DbFails, Store!StoreNext
  <2>4. CASE \/ Price(p) \/ Allocate(p) \/ NothingToPay(p) \/ PayOk(p) \/ PayFails(p)
             \/ Rollback(p) \/ Quota(p) \/ Refused(p) \/ Destroy(p) \/ Short(p)
    BY <2>4
    DEF Price, Allocate, NothingToPay, PayOk, PayFails, Rollback, Quota, Refused, Destroy, Short
  <2> QED BY <1>1, <2>1, <2>2, <2>3, <2>4 DEF Step
<1>2. CASE Crash
  BY <1>2 DEF Crash, Store!StoreNext
<1>3. CASE Rest \/ UNCHANGED vars
  BY <1>3 DEF Rest, vars, storeVars
<1>4. CASE \/ \E p \in Users, s \in Slots : ReceiveCreate(p, s)
           \/ \E p \in Users, i \in Ids : ReceiveCancel(p, i)
           \/ \E i \in Ids : PickDue(i)
  BY <1>4 DEF ReceiveCreate, ReceiveCancel, PickDue
<1> QED BY <1>1, <1>2, <1>3, <1>4 DEF Next

(***************************************************************************)
(* The handlers drive the store only in the ways OrderStore allows its     *)
(* clients, so what OrderStoreProofs shows of the tables holds of the      *)
(* whole service.                                                          *)
(***************************************************************************)
THEOREM BillingDrivesStore == Spec => ImplementsStore
<1>1. Init => Store!StoreInit
  BY DEF Init
<1>2. BillingInv /\ [Next]_vars => [Store!StoreNext]_(Store!storeVars)
  BY StepInStore DEF storeVars, Store!storeVars
<1> QED BY <1>1, <1>2, BillingInvariant, PTL DEF Spec, ImplementsStore, Store!StoreSpec
(***************************************************************************)
(* With what OrderStoreProofs shows of the store, the orders of the whole  *)
(* service, whatever fails and however requests and the maintainer race,   *)
(* live the atomic life of OrderLife: their rows and the history agree,    *)
(* they are charged one consume after the other, and once ended they stay  *)
(* as they are.                                                            *)
(***************************************************************************)
THEOREM OrdersLive ==
    Spec => []Store!LedgerShape /\ Proved!EndedIsFinal /\ Proved!ImplementsLife
<1>1. BillingInv => Store!LedgerShape
  BY DEF BillingInv, Store!StoreInv
<1>2. Spec => Proved!StoreSpec
  <2>1. Store!StoreInit => Proved!StoreInit
    BY SameInit
  <2>2. [Store!StoreNext]_(Store!storeVars) => [Proved!StoreNext]_(Proved!storeVars)
    BY SameNext DEF storeVars, Store!storeVars
  <2> QED BY <2>1, <2>2, BillingDrivesStore, PTL DEF ImplementsStore, Store!StoreSpec,
             Proved!StoreSpec
<1>3. Proved!StoreSpec => Proved!EndedIsFinal
  BY StoreAssumptions, Proved!EndedStaysEnded
<1>4. Proved!StoreSpec => Proved!ImplementsLife
  BY StoreAssumptions, Proved!Refinement
<1> QED BY <1>1, <1>2, <1>3, <1>4, BillingInvariant, PTL
=============================================================================
