----------------------------- MODULE OrderStore -----------------------------
(***************************************************************************)
(* The order table and the consuming history of usage/usage.go, as the     *)
(* concurrent callers of package usage drive them.                         *)
(*                                                                         *)
(* Every function modelled here opens a transaction, reads the order row   *)
(* with a plain select (a snapshot read under MySQL's REPEATABLE READ),    *)
(* decides, and only then locks the row by updating it.  Other             *)
(* transactions commit between the two, so each function is two actions:   *)
(* XBegin takes the snapshot, XCommit does the update, the insert and the  *)
(* commit, which the row lock makes one step.  What was read is kept in    *)
(* tx[c] and may be stale when XCommit uses it.                            *)
(*                                                                         *)
(* DEADLINE_TIME is counted in billing cycles from START_TIME: extendTime  *)
(* adds one cycle per call.                                                *)
(***************************************************************************)
EXTENDS Integers, FiniteSets

CONSTANTS
    Clients,             \* goroutines that call package usage
    Ids,                 \* values of the AUTO_INCREMENT column ID
    Slots,               \* (region, account, plan type, resource name)
    NamedSlots,          \* the slots whose resource name is not blank
    Kinds,               \* EXTRA_INFO of a charging row: new, renew, switch
    NoSlot,              \* the slot of an ID not yet given to a row
    MaxNumRenewalRetries,
    MaxConsume           \* bound: cycles charged to one order

ASSUME SlotsAssumption == NamedSlots \subseteq Slots /\ NoSlot \notin Slots
ASSUME KindsAssumption == "end" \notin Kinds
ASSUME RetriesAssumption == MaxNumRenewalRetries \in Nat
ASSUME ConsumeAssumption == MaxConsume \in Nat

VARIABLES
    orders,    \* DF_PURCHASE_ORDER: the committed row of every ID
    history,   \* DF_CONSUMING_HISTORY: the set of committed rows
    copies,    \* every *PurchaseOrder image a caller can have been handed
    tx         \* the open transaction of every client

storeVars == <<orders, history, copies, tx>>

Status == {"absent", "pending", "consuming", "ended"}

OrderRow == [slot : Slots \cup {NoSlot}, status : Status, last : Nat,
             deadline : Nat, payed : BOOLEAN, retries : Nat]

HistoryRow == [id : Ids, cid : Nat, kind : Kinds \cup {"end"}, to : Nat]

\* The fields of a PurchaseOrder that RenewOrder and EndOrder use.
Copy == [id : Ids, last : Nat, deadline : Nat]

NoTx == [op |-> "none"]

Tx == {NoTx}
      \cup [op : {"create"}, slot : Slots]
      \cup [op : {"fail"}, id : Ids, retries : Nat]
      \cup [op : {"renew"}, id : Ids, last : Nat, deadline : Nat, kind : Kinds]
      \cup [op : {"end"}, copy : Copy]

NoRow == [slot |-> NoSlot, status |-> "absent", last |-> 0, deadline |-> 0,
          payed |-> FALSE, retries |-> 0]

CopyOf(i, row) == [id |-> i, last |-> row.last, deadline |-> row.deadline]

Exists(i) == orders[i].status # "absent"

\* Mutant: the history table has no primary key.
KeyFreeMutant(i, k) == TRUE

\* PRIMARY KEY (ID, ORDER_ID, CONSUME_ID): an insert at (i, k) goes through.
KeyFree(i, k) == \A h \in history : ~(h.id = i /\ h.cid = k)

\* RetrieveConsumeHistory finds the row of the k-th consume of order i.
HasConsume(i, k) == \E h \in history : h.id = i /\ h.cid = k

StoreInit ==
    /\ orders = [i \in Ids |-> NoRow]
    /\ history = {}
    /\ copies = {}
    /\ tx = [c \in Clients |-> NoTx]

(***************************************************************************)
(* Any open transaction may fail: the driver reports an error, the code    *)
(* rolls back (or the commit itself fails), or the process dies.           *)
(***************************************************************************)
Abort(c) ==
    /\ tx[c] # NoTx
    /\ tx' = [tx EXCEPT ![c] = NoTx]
    /\ UNCHANGED <<orders, history, copies>>

StoreCrash ==
    /\ tx' = [c \in Clients |-> NoTx]
    /\ UNCHANGED <<orders, history, copies>>

(***************************************************************************)
(* CreateOrder.  A blank resource name is refused when an earlier order of *)
(* the same id is too recent; time is not modelled here, so any earlier    *)
(* row may refuse the call and CreateBegin is what happens when none does. *)
(* A resource name is refused while the snapshot shows a consuming order   *)
(* of that name: pending orders are not counted.                           *)
(***************************************************************************)
NameTaken(s) == \E i \in Ids : orders[i].slot = s /\ orders[i].status = "consuming"

CreateRefused(s) ==
    IF s \in NamedSlots THEN NameTaken(s)
                        ELSE \E i \in Ids : orders[i].slot = s

CreateBegin(c, s) ==
    /\ tx[c] = NoTx
    /\ s \in NamedSlots => ~NameTaken(s)
    /\ tx' = [tx EXCEPT ![c] = [op |-> "create", slot |-> s]]
    /\ UNCHANGED <<orders, history, copies>>

\* Mutant: the row is inserted as consuming.
NewRowMutant(s) == [slot |-> s, status |-> "consuming", last |-> 0, deadline |-> 0,
                    payed |-> FALSE, retries |-> 0]

NewRow(s) == [slot |-> s, status |-> "pending", last |-> 0, deadline |-> 0,
              payed |-> FALSE, retries |-> 0]

CreateCommit(c, i) ==
    /\ tx[c].op = "create"
    /\ ~Exists(i)
    /\ orders' = [orders EXCEPT ![i] = NewRow(tx[c].slot)]
    /\ copies' = copies \cup {CopyOf(i, NewRow(tx[c].slot))}
    /\ tx' = [tx EXCEPT ![c] = NoTx]
    /\ UNCHANGED history

(***************************************************************************)
(* IncreaseOrderRenewalFails: the new count comes from the snapshot.       *)
(***************************************************************************)
\* Mutant: off by one.
RetriesLeftMutant(n) == n <= MaxNumRenewalRetries

RetriesLeft(n) == n < MaxNumRenewalRetries

FailBegin(c, i) ==
    /\ tx[c] = NoTx
    /\ Exists(i)
    /\ RetriesLeft(orders[i].retries)
    /\ tx' = [tx EXCEPT ![c] = [op |-> "fail", id |-> i,
                                retries |-> orders[i].retries]]
    /\ UNCHANGED <<orders, history, copies>>

FailCommit(c) ==
    /\ tx[c].op = "fail"
    /\ orders' = [orders EXCEPT ![tx[c].id].retries = tx[c].retries + 1]
    /\ tx' = [tx EXCEPT ![c] = NoTx]
    /\ UNCHANGED <<history, copies>>

(***************************************************************************)
(* RenewOrder(o.id, o.last): refused without an error when the snapshot    *)
(* shows that the order moved on; otherwise the row is set to the values   *)
(* computed from the snapshot, whatever its status is by then, and the     *)
(* history row is inserted in the same transaction.                        *)
(***************************************************************************)
MovedOn(o) == orders[o.id].last # o.last

RenewBegin(c, o, kind) ==
    /\ tx[c] = NoTx
    /\ o.last < MaxConsume
    /\ ~MovedOn(o)
    /\ tx' = [tx EXCEPT ![c] = [op |-> "renew", id |-> o.id,
                                last |-> orders[o.id].last,
                                deadline |-> orders[o.id].deadline,
                                kind |-> kind]]
    /\ UNCHANGED <<orders, history, copies>>

\* Mutants: EVER_PAYED is not set; LAST_CONSUME_ID is not advanced.
UnpayedMutant(row, t) ==
    [slot |-> row.slot, status |-> "consuming", last |-> t.last + 1,
     deadline |-> t.deadline + 1, payed |-> row.payed, retries |-> 0]

StuckMutant(row, t) ==
    [slot |-> row.slot, status |-> "consuming", last |-> row.last,
     deadline |-> t.deadline, payed |-> TRUE, retries |-> 0]

Renewed(row, t) ==
    [slot |-> row.slot, status |-> "consuming", last |-> t.last + 1,
     deadline |-> t.deadline + 1, payed |-> TRUE, retries |-> 0]

\* Mutant: the history row gets the number of the consume before.
RenewRowMutant(t) == [id |-> t.id, cid |-> t.last, kind |-> t.kind,
                      to |-> t.deadline + 1]

RenewRow(t) == [id |-> t.id, cid |-> t.last + 1, kind |-> t.kind,
                to |-> t.deadline + 1]

RenewCommit(c) ==
    LET t == tx[c]
        row == Renewed(orders[t.id], t)
    IN  /\ t.op = "renew"
        /\ KeyFree(t.id, t.last + 1)
        /\ orders' = [orders EXCEPT ![t.id] = row]
        /\ history' = history \cup {RenewRow(t)}
        /\ copies' = copies \cup {CopyOf(t.id, row)}
        /\ tx' = [tx EXCEPT ![c] = NoTx]

RenewCollides(c) == tx[c].op = "renew" /\ ~KeyFree(tx[c].id, tx[c].last + 1)

(***************************************************************************)
(* EndOrder(o): an error when the snapshot shows an ended order or has no  *)
(* history row for o.last; otherwise the row is ended if it is consuming   *)
(* when it gets locked, and the end row goes in at o.last + 1.  When it is *)
(* not consuming any more nothing is written and the call succeeds.        *)
(***************************************************************************)
Endable(o) == orders[o.id].status # "ended" /\ HasConsume(o.id, o.last)

EndBegin(c, o) ==
    /\ tx[c] = NoTx
    /\ Endable(o)
    /\ tx' = [tx EXCEPT ![c] = [op |-> "end", copy |-> o]]
    /\ UNCHANGED <<orders, history, copies>>

EndRow(o) == [id |-> o.id, cid |-> o.last + 1, kind |-> "end", to |-> o.deadline]

StillConsuming(o) == orders[o.id].status = "consuming"

EndCommit(c) ==
    LET o == tx[c].copy
    IN  /\ tx[c].op = "end"
        /\ StillConsuming(o)
        /\ KeyFree(o.id, o.last + 1)
        /\ orders' = [orders EXCEPT ![o.id].status = "ended"]
        /\ history' = history \cup {EndRow(o)}
        /\ tx' = [tx EXCEPT ![c] = NoTx]
        /\ UNCHANGED copies

\* The update matched no row (n = 0): the empty transaction commits.
EndNothing(c) ==
    /\ tx[c].op = "end"
    /\ ~StillConsuming(tx[c].copy)
    /\ tx' = [tx EXCEPT ![c] = NoTx]
    /\ UNCHANGED <<orders, history, copies>>

EndCollides(c) ==
    /\ tx[c].op = "end"
    /\ StillConsuming(tx[c].copy)
    /\ ~KeyFree(tx[c].copy.id, tx[c].copy.last + 1)

StoreNext ==
    \/ StoreCrash
    \/ \E c \in Clients :
          \/ Abort(c)
          \/ \E s \in Slots : CreateBegin(c, s)
          \/ \E i \in Ids : CreateCommit(c, i)
          \/ \E o \in copies : FailBegin(c, o.id)
          \/ FailCommit(c)
          \/ \E o \in copies, kind \in Kinds : RenewBegin(c, o, kind)
          \/ RenewCommit(c)
          \/ \E o \in copies : EndBegin(c, o)
          \/ EndCommit(c)
          \/ EndNothing(c)

StoreSpec == StoreInit /\ [][StoreNext]_storeVars

-----------------------------------------------------------------------------
(***************************************************************************)
(* Every variable has the shape the two tables and the calls give it, and  *)
(* RENEW_RETRIES never exceeds MaxNumRenewalRetries (a TINYINT column).    *)
(***************************************************************************)
TypeOK ==
    /\ orders \in [Ids -> OrderRow]
    /\ \A i \in Ids : orders[i].retries <= MaxNumRenewalRetries
    /\ history \subseteq HistoryRow
    /\ copies \subseteq Copy
    /\ tx \in [Clients -> Tx]

(***************************************************************************)
(* The order row tells how far the order is charged: the deadline is       *)
(* exactly the number of consumes past the start, EVER_PAYED says whether  *)
(* there was one, a pending order has none and any other has some.         *)
(***************************************************************************)
RowAgrees ==
    \A i \in Ids :
        /\ orders[i].deadline = orders[i].last
        /\ orders[i].payed <=> orders[i].last > 0
        /\ orders[i].status \in {"absent", "pending"} <=> orders[i].last = 0

(***************************************************************************)
(* The history is the ledger of the order row, whatever renewals and ends  *)
(* raced for it: one charging row for each consume 1..last and none        *)
(* beyond, each running to the deadline that consume bought; an end row    *)
(* exactly when the order ended, right after the last charging row.        *)
(***************************************************************************)
ChargingRows(i) == {h \in history : h.id = i /\ h.kind # "end"}
EndRows(i) == {h \in history : h.id = i /\ h.kind = "end"}

ChargesMatch ==
    \A i \in Ids :
        /\ \A h \in ChargingRows(i) : h.cid \in 1 .. orders[i].last /\ h.to = h.cid
        /\ \A k \in 1 .. orders[i].last : \E h \in ChargingRows(i) : h.cid = k

EndsMatch ==
    \A i \in Ids :
        /\ \A h \in EndRows(i) :
              /\ orders[i].status = "ended"
              /\ h.cid = orders[i].last + 1
              /\ h.to = orders[i].deadline
        /\ orders[i].status = "ended" => EndRows(i) # {}

KeysUnique ==
    \A g, h \in history : g.id = h.id /\ g.cid = h.cid => g = h

LedgerShape == ChargesMatch /\ EndsMatch /\ KeysUnique

(***************************************************************************)
(* An ended order stays ended and is never charged again, even by a        *)
(* renewal that paid and took its snapshot before the order ended:         *)
(* RenewOrder does not look at the status, only the primary key stops it.  *)
(***************************************************************************)
EndedIsFinal ==
    [][\A i \in Ids : orders[i].status = "ended" =>
          /\ orders'[i].status = "ended"
          /\ orders'[i].last = orders[i].last
          /\ orders'[i].deadline = orders[i].deadline]_storeVars

(***************************************************************************)
(* What open transactions and callers' copies still know: never ahead of   *)
(* the row, and the row of the consume they build on is in the ledger.     *)
(***************************************************************************)
CopiesBehind ==
    \A o \in copies :
        /\ Exists(o.id)
        /\ o.deadline = o.last
        /\ o.last <= orders[o.id].last

TxBehind ==
    \A c \in Clients :
        /\ tx[c].op = "fail" => /\ Exists(tx[c].id)
                                /\ tx[c].retries < MaxNumRenewalRetries
        /\ tx[c].op = "renew" => /\ Exists(tx[c].id)
                                 /\ tx[c].deadline = tx[c].last
                                 /\ tx[c].last <= orders[tx[c].id].last
                                 /\ tx[c].last < MaxConsume
        /\ tx[c].op = "end" => /\ tx[c].copy \in copies
                               /\ tx[c].copy.last > 0

\* The inductive invariant the theorems rest on.
StoreInv == TypeOK /\ RowAgrees /\ LedgerShape /\ CopiesBehind /\ TxBehind

(***************************************************************************)
(* The transactions, each with its stale snapshot, implement the atomic    *)
(* operations of OrderLife on the status column and the charging rows.     *)
(***************************************************************************)
Life == INSTANCE OrderLife WITH
            phase <- [i \in Ids |-> orders[i].status],
            charged <- [i \in Ids |-> {h.cid : h \in ChargingRows(i)}]

ImplementsLife == Life!LifeSpec
=============================================================================
