-------------------------- MODULE OrderStoreProofs --------------------------
(***************************************************************************)
(* OrderStore for any number of clients, orders, slots and charging kinds: *)
(* StoreInv is inductive; the ledger agrees with the order row, an ended   *)
(* order is final, and the transactions implement the atomic OrderLife.    *)
(***************************************************************************)
EXTENDS OrderStore, TLAPS

-----------------------------------------------------------------------------
(***************************************************************************)
(* The fields an open transaction of each function has: the call that      *)
(* opened it decides which arm of Tx it is in.                             *)
(***************************************************************************)
LEMMA TxFields ==
    ASSUME TypeOK, NEW c \in Clients
    PROVE  /\ tx[c].op = "create" => tx[c] \in [op : {"create"}, slot : Slots]
           /\ tx[c].op = "fail" => tx[c] \in [op : {"fail"}, id : Ids, retries : Nat]
           /\ tx[c].op = "renew" =>
                 tx[c] \in [op : {"renew"}, id : Ids, last : Nat, deadline : Nat, kind : Kinds]
           /\ tx[c].op = "end" => tx[c] \in [op : {"end"}, copy : Copy]
  BY DEF TypeOK, Tx, NoTx

(***************************************************************************)
(* A step that opens or closes transactions and leaves the tables alone    *)
(* keeps the invariant if it keeps what transactions know.                 *)
(***************************************************************************)
LEMMA OnlyTx ==
    ASSUME StoreInv, UNCHANGED <<orders, history, copies>>,
           tx' \in [Clients -> Tx], TxBehind'
    PROVE  StoreInv'
  BY DEF StoreInv, TypeOK, RowAgrees, LedgerShape, ChargesMatch, EndsMatch, KeysUnique,
         ChargingRows, EndRows, CopiesBehind, Exists

LEMMA CrashKeeps == StoreInv /\ StoreCrash => StoreInv'
<1> SUFFICES ASSUME StoreInv, StoreCrash PROVE StoreInv'
  OBVIOUS
<1>1. tx' \in [Clients -> Tx]
  BY DEF StoreCrash, Tx
<1>2. TxBehind'
  BY DEF StoreCrash, TxBehind, NoTx
<1> QED BY <1>1, <1>2, OnlyTx DEF StoreCrash

\* Closing a transaction without a write.
LEMMA Closes ==
    ASSUME StoreInv, NEW c \in Clients, tx' = [tx EXCEPT ![c] = NoTx],
           UNCHANGED <<orders, history, copies>>
    PROVE  StoreInv'
<1>1. tx' \in [Clients -> Tx]
  BY DEF StoreInv, TypeOK, Tx
<1>2. TxBehind'
  BY DEF StoreInv, TypeOK, TxBehind, NoTx, Exists
<1> QED BY <1>1, <1>2, OnlyTx

LEMMA CreateBeginKeeps ==
    ASSUME NEW c \in Clients, NEW s \in Slots, StoreInv, CreateBegin(c, s)
    PROVE  StoreInv'
<1>1. tx' \in [Clients -> Tx]
  BY DEF StoreInv, TypeOK, CreateBegin, Tx
<1>2. TxBehind'
  BY DEF StoreInv, TypeOK, TxBehind, CreateBegin, Exists
<1> QED BY <1>1, <1>2, OnlyTx DEF CreateBegin

LEMMA FailBeginKeeps ==
    ASSUME NEW c \in Clients, NEW i \in Ids, StoreInv, FailBegin(c, i)
    PROVE  StoreInv'
<1>1. tx' \in [Clients -> Tx]
  BY DEF StoreInv, TypeOK, FailBegin, Tx, OrderRow
<1>2. TxBehind'
  BY DEF StoreInv, TypeOK, TxBehind, FailBegin, Exists, RetriesLeft
<1> QED BY <1>1, <1>2, OnlyTx DEF FailBegin

LEMMA RenewBeginKeeps ==
    ASSUME NEW c \in Clients, NEW o \in copies, NEW kind \in Kinds, StoreInv,
           RenewBegin(c, o, kind)
    PROVE  StoreInv'
<1>1. o.id \in Ids /\ orders[o.id] \in OrderRow
  BY DEF StoreInv, TypeOK, Copy
<1>2. tx' \in [Clients -> Tx]
  BY <1>1 DEF StoreInv, TypeOK, RenewBegin, Tx, OrderRow
<1>3. TxBehind'
  BY <1>1 DEF StoreInv, TypeOK, TxBehind, RenewBegin, MovedOn, Exists, RowAgrees, CopiesBehind,
              OrderRow
<1> QED BY <1>2, <1>3, OnlyTx DEF RenewBegin

(***************************************************************************)
(* EndOrder found a history row at o.last, and the ledger has none at 0.   *)
(***************************************************************************)
LEMMA EndBeginKeeps ==
    ASSUME NEW c \in Clients, NEW o \in copies, StoreInv, EndBegin(c, o)
    PROVE  StoreInv'
<1>1. o.id \in Ids /\ orders[o.id] \in OrderRow /\ o \in Copy
  BY DEF StoreInv, TypeOK, Copy
<1>2. tx' \in [Clients -> Tx]
  BY <1>1 DEF StoreInv, TypeOK, EndBegin, Tx
<1>3. o.last > 0
  <2>1. PICK h \in history : h.id = o.id /\ h.cid = o.last
    BY DEF EndBegin, Endable, HasConsume
  <2>2. h \in HistoryRow
    BY DEF StoreInv, TypeOK
  <2>3. CASE h.kind = "end"
    BY <1>1, <2>1, <2>3 DEF StoreInv, LedgerShape, EndsMatch, EndRows, EndBegin, Endable
  <2>4. CASE h.kind # "end"
    <3>1. h \in ChargingRows(o.id)
      BY <2>1, <2>4 DEF ChargingRows
    <3>2. h.cid \in 1 .. orders[o.id].last
      BY <1>1, <3>1 DEF StoreInv, LedgerShape, ChargesMatch
    <3> QED BY <1>1, <2>1, <3>2 DEF OrderRow
  <2> QED BY <2>3, <2>4
<1>4. TxBehind'
  BY <1>1, <1>3 DEF StoreInv, TypeOK, TxBehind, EndBegin, Exists
<1> QED BY <1>2, <1>4, OnlyTx DEF EndBegin

-----------------------------------------------------------------------------
(***************************************************************************)
(* A new pending row has no history: no transaction or copy knows its ID.  *)
(***************************************************************************)
LEMMA CreateCommitKeeps ==
    ASSUME NEW c \in Clients, NEW i \in Ids, StoreInv, CreateCommit(c, i), SlotsAssumption
    PROVE  StoreInv'
<1> DEFINE row == NewRow(tx[c].slot)
<1>1. row = [slot |-> tx[c].slot, status |-> "pending", last |-> 0, deadline |-> 0,
             payed |-> FALSE, retries |-> 0]
  BY DEF NewRow
<1>2. tx[c].slot \in Slots
  BY TxFields DEF StoreInv, CreateCommit
<1>3. row \in OrderRow /\ CopyOf(i, row) = [id |-> i, last |-> 0, deadline |-> 0]
  BY <1>1, <1>2 DEF OrderRow, Status, CopyOf
<1>4. /\ orders' = [orders EXCEPT ![i] = row]
      /\ copies' = copies \cup {CopyOf(i, row)}
      /\ tx' = [tx EXCEPT ![c] = NoTx]
      /\ history' = history
  BY DEF CreateCommit
<1> HIDE DEF row
<1>5. orders[i].status = "absent" /\ orders[i].last = 0 /\ orders[i].deadline = 0
  BY DEF CreateCommit, Exists, StoreInv, RowAgrees
<1>6. /\ orders'[i] = row
      /\ \A j \in Ids : j # i => orders'[j] = orders[j]
      /\ DOMAIN orders' = Ids
  BY <1>4 DEF StoreInv, TypeOK
<1>7. TypeOK'
  <2>1. orders' \in [Ids -> OrderRow]
    BY <1>3, <1>4 DEF StoreInv, TypeOK
  <2>2. \A j \in Ids : orders'[j].retries <= MaxNumRenewalRetries
    BY <1>1, <1>6, RetriesAssumption DEF StoreInv, TypeOK, RetriesAssumption
  <2>3. copies' \subseteq Copy
    BY <1>3, <1>4 DEF StoreInv, TypeOK, Copy
  <2>4. tx' \in [Clients -> Tx]
    BY <1>4 DEF StoreInv, TypeOK, Tx
  <2> QED BY <1>4, <2>1, <2>2, <2>3, <2>4 DEF StoreInv, TypeOK
<1>8. RowAgrees'
  BY <1>1, <1>6 DEF StoreInv, RowAgrees
<1>9. ChargesMatch'
  BY <1>1, <1>4, <1>5, <1>6 DEF StoreInv, LedgerShape, ChargesMatch, ChargingRows
<1>10. EndsMatch'
  BY <1>1, <1>4, <1>5, <1>6 DEF StoreInv, LedgerShape, EndsMatch, EndRows
<1>11. KeysUnique'
  BY <1>4 DEF StoreInv, LedgerShape, KeysUnique
<1>12. CopiesBehind'
  BY <1>1, <1>3, <1>4, <1>5, <1>6 DEF StoreInv, TypeOK, Copy, CopiesBehind, Exists
<1>13. TxBehind'
  BY <1>1, <1>4, <1>5, <1>6, TxFields
  DEF StoreInv, TypeOK, TxBehind, Exists, NoTx, Copy
<1> QED BY <1>7, <1>8, <1>9, <1>10, <1>11, <1>12, <1>13 DEF StoreInv, LedgerShape

LEMMA FailCommitKeeps ==
    ASSUME NEW c \in Clients, StoreInv, FailCommit(c), RetriesAssumption
    PROVE  StoreInv'
<1> DEFINE i == tx[c].id
<1>1. tx[c] \in [op : {"fail"}, id : Ids, retries : Nat]
  BY TxFields DEF StoreInv, FailCommit
<1>2. tx[c].retries + 1 <= MaxNumRenewalRetries
  BY <1>1 DEF StoreInv, TxBehind, FailCommit, RetriesAssumption
<1>3. /\ i \in Ids
      /\ orders' = [orders EXCEPT ![i].retries = tx[c].retries + 1]
      /\ tx' = [tx EXCEPT ![c] = NoTx]
      /\ UNCHANGED <<history, copies>>
  BY <1>1 DEF FailCommit
<1>4. \A j \in Ids : /\ orders'[j].status = orders[j].status
                     /\ orders'[j].last = orders[j].last
                     /\ orders'[j].deadline = orders[j].deadline
                     /\ orders'[j].payed = orders[j].payed
  BY <1>3 DEF StoreInv, TypeOK, OrderRow
<1>5. TypeOK'
  BY <1>1, <1>2, <1>3 DEF StoreInv, TypeOK, OrderRow, Tx
<1>6. RowAgrees' /\ LedgerShape'
  BY <1>3, <1>4 DEF StoreInv, RowAgrees, LedgerShape, ChargesMatch, EndsMatch, KeysUnique,
                    ChargingRows, EndRows
<1>7. CopiesBehind'
  BY <1>3, <1>4 DEF StoreInv, TypeOK, Copy, CopiesBehind, Exists
<1>8. TxBehind'
  BY <1>3, <1>4, TxFields DEF StoreInv, TypeOK, TxBehind, Exists, NoTx, Copy
<1> QED BY <1>5, <1>6, <1>7, <1>8 DEF StoreInv

(***************************************************************************)
(* The primary key is what a renewal needs: the key after its snapshot is  *)
(* free only while the order was neither renewed nor ended since.          *)
(***************************************************************************)
LEMMA FreeKeyIsCurrent ==
    ASSUME StoreInv, NEW i \in Ids, NEW n \in Nat, n <= orders[i].last, KeyFree(i, n + 1)
    PROVE  n = orders[i].last /\ orders[i].status # "ended"
<1>1. orders[i] \in OrderRow
  BY DEF StoreInv, TypeOK
<1>2. ASSUME n < orders[i].last PROVE FALSE
  <2>1. n + 1 \in 1 .. orders[i].last
    BY <1>1, <1>2 DEF OrderRow
  <2>2. PICK h \in ChargingRows(i) : h.cid = n + 1
    BY <2>1 DEF StoreInv, LedgerShape, ChargesMatch
  <2> QED BY <2>2 DEF ChargingRows, KeyFree
<1>3. n = orders[i].last
  BY <1>1, <1>2 DEF OrderRow
<1>4. ASSUME orders[i].status = "ended" PROVE FALSE
  <2>1. PICK h \in EndRows(i) : h.cid = n + 1
    BY <1>3, <1>4 DEF StoreInv, LedgerShape, EndsMatch
  <2> QED BY <2>1 DEF EndRows, KeyFree
<1> QED BY <1>3, <1>4

LEMMA RenewCommitKeeps ==
    ASSUME NEW c \in Clients, StoreInv, RenewCommit(c), KindsAssumption
    PROVE  StoreInv'
<1>0. PICK t : t = tx[c]
  OBVIOUS
<1>1. t \in [op : {"renew"}, id : Ids, last : Nat, deadline : Nat, kind : Kinds]
  BY <1>0, TxFields DEF StoreInv, RenewCommit
<1>i. PICK i : i = t.id
  OBVIOUS
<1> DEFINE row == Renewed(orders[i], t)
           new == RenewRow(t)
<1>2. i \in Ids /\ orders[i] \in OrderRow
  BY <1>1, <1>i DEF StoreInv, TypeOK
<1>3. t.deadline = t.last /\ t.last <= orders[i].last
  BY <1>0, <1>i DEF RenewCommit, StoreInv, TxBehind
<1>4. KeyFree(i, t.last + 1)
  BY <1>0, <1>i DEF RenewCommit
<1>5. t.last = orders[i].last /\ orders[i].status # "ended"
  BY <1>1, <1>2, <1>3, <1>4, FreeKeyIsCurrent
<1>6. /\ row \in OrderRow
      /\ row.last = orders[i].last + 1 /\ row.deadline = row.last
      /\ row.payed = TRUE /\ row.retries = 0 /\ row.status = "consuming"
  BY <1>1, <1>2, <1>3, <1>5 DEF Renewed, OrderRow, Status
<1>7. /\ new \in HistoryRow
      /\ new.id = i /\ new.cid = row.last /\ new.to = row.last /\ new.kind # "end"
  BY <1>1, <1>2, <1>3, <1>5, <1>6, <1>i DEF RenewRow, HistoryRow, OrderRow, KindsAssumption
<1>8. CopyOf(i, row) \in Copy /\ CopyOf(i, row) = [id |-> i, last |-> row.last, deadline |-> row.last]
  BY <1>2, <1>6 DEF CopyOf, Copy, OrderRow
<1>9. /\ orders' = [orders EXCEPT ![i] = row]
      /\ history' = history \cup {new}
      /\ copies' = copies \cup {CopyOf(i, row)}
      /\ tx' = [tx EXCEPT ![c] = NoTx]
  BY <1>0, <1>i DEF RenewCommit
<1>10. \A h \in history : ~(h.id = i /\ h.cid = row.last)
  BY <1>4, <1>5, <1>6 DEF KeyFree
<1> HIDE DEF row, new
<1>11. /\ orders'[i] = row
       /\ \A j \in Ids : j # i => orders'[j] = orders[j]
       /\ DOMAIN orders' = Ids
  BY <1>2, <1>9 DEF StoreInv, TypeOK
<1>12. \A j \in Ids : orders'[j].last >= orders[j].last
  BY <1>2, <1>6, <1>11 DEF StoreInv, TypeOK, OrderRow
<1>13. TypeOK'
  <2>1. orders' \in [Ids -> OrderRow]
    BY <1>2, <1>6, <1>9 DEF StoreInv, TypeOK
  <2>2. \A j \in Ids : orders'[j].retries <= MaxNumRenewalRetries
    BY <1>6, <1>11, RetriesAssumption DEF StoreInv, TypeOK, RetriesAssumption
  <2>3. history' \subseteq HistoryRow /\ copies' \subseteq Copy
    BY <1>7, <1>8, <1>9 DEF StoreInv, TypeOK
  <2>4. tx' \in [Clients -> Tx]
    BY <1>9 DEF StoreInv, TypeOK, Tx
  <2> QED BY <2>1, <2>2, <2>3, <2>4 DEF TypeOK
<1>14. RowAgrees'
  BY <1>2, <1>6, <1>11 DEF StoreInv, RowAgrees, OrderRow
<1>15. ChargesMatch'
  <2>1. ASSUME NEW j \in Ids, j # i
        PROVE  ChargingRows(j)' = ChargingRows(j)
    BY <1>7, <1>9, <2>1 DEF ChargingRows
  <2>2. ChargingRows(i)' = ChargingRows(i) \cup {new}
    BY <1>7, <1>9 DEF ChargingRows
  <2>3. \A h \in ChargingRows(i)' : h.cid \in 1 .. row.last /\ h.to = h.cid
    BY <1>2, <1>6, <1>7, <2>2 DEF StoreInv, LedgerShape, ChargesMatch, OrderRow
  <2>4. \A k \in 1 .. row.last : \E h \in ChargingRows(i)' : h.cid = k
    BY <1>2, <1>6, <1>7, <2>2 DEF StoreInv, LedgerShape, ChargesMatch, OrderRow
  <2> QED BY <1>11, <2>1, <2>3, <2>4 DEF StoreInv, LedgerShape, ChargesMatch
<1>16. EndsMatch'
  <2>1. \A j \in Ids : EndRows(j)' = EndRows(j)
    BY <1>7, <1>9 DEF EndRows
  <2>2. EndRows(i) = {}
    BY <1>2, <1>5 DEF StoreInv, LedgerShape, EndsMatch
  <2> QED BY <1>6, <1>11, <2>1, <2>2 DEF StoreInv, LedgerShape, EndsMatch
<1>17. KeysUnique'
  BY <1>7, <1>9, <1>10 DEF StoreInv, LedgerShape, KeysUnique
<1>18. CopiesBehind'
  <2>1. ASSUME NEW o \in copies PROVE Exists(o.id)' /\ o.deadline = o.last /\ o.last <= orders'[o.id].last
    <3>1. o \in Copy /\ Exists(o.id) /\ o.deadline = o.last /\ o.last <= orders[o.id].last
      BY DEF StoreInv, TypeOK, CopiesBehind
    <3> QED BY <1>2, <1>6, <1>11, <1>12, <3>1 DEF Exists, Copy, StoreInv, TypeOK, OrderRow
  <2> QED BY <1>2, <1>6, <1>8, <1>9, <1>11, <2>1 DEF CopiesBehind, Exists, OrderRow
<1>19. TxBehind'
  <2> SUFFICES ASSUME NEW d \in Clients
               PROVE  /\ tx'[d].op = "fail" => /\ Exists(tx[d].id)'
                                               /\ tx'[d].retries < MaxNumRenewalRetries
                      /\ tx'[d].op = "renew" => /\ Exists(tx[d].id)'
                                                /\ tx'[d].deadline = tx'[d].last
                                                /\ tx'[d].last <= orders'[tx'[d].id].last
                                                /\ tx'[d].last < MaxConsume
                      /\ tx'[d].op = "end" => /\ tx'[d].copy \in copies'
                                              /\ tx'[d].copy.last > 0
    BY <1>9 DEF TxBehind, Exists, StoreInv, TypeOK, NoTx
  <2>1. CASE d = c
    BY <1>9, <2>1 DEF StoreInv, TypeOK, NoTx
  <2>2. CASE d # c
    <3>1. tx'[d] = tx[d]
      BY <1>9, <2>2 DEF StoreInv, TypeOK
    <3>2. tx[d].op \in {"fail", "renew"} => tx[d].id \in Ids
      BY TxFields DEF StoreInv
    <3>3. tx[d].op = "renew" => tx[d].last \in Nat
      BY TxFields DEF StoreInv
    <3> QED BY <1>6, <1>9, <1>11, <1>12, <3>1, <3>2, <3>3
            DEF StoreInv, TypeOK, TxBehind, Exists, OrderRow
  <2> QED BY <2>1, <2>2
<1> QED BY <1>13, <1>14, <1>15, <1>16, <1>17, <1>18, <1>19 DEF StoreInv, LedgerShape

LEMMA EndCommitKeeps ==
    ASSUME NEW c \in Clients, StoreInv, EndCommit(c)
    PROVE  StoreInv'
<1>0. PICK o : o = tx[c].copy
  OBVIOUS
<1>1. o \in copies /\ o \in Copy /\ o.last > 0
  BY <1>0, TxFields DEF StoreInv, TypeOK, TxBehind, EndCommit
<1>2. PICK i \in Ids : i = o.id
  BY <1>1 DEF Copy
<1>3. /\ orders[i] \in OrderRow
      /\ o.deadline = o.last /\ o.last <= orders[i].last
      /\ orders[i].status = "consuming" /\ KeyFree(i, o.last + 1)
  BY <1>0, <1>1, <1>2 DEF StoreInv, TypeOK, CopiesBehind, EndCommit, StillConsuming
<1>4. o.last = orders[i].last
  BY <1>1, <1>3, FreeKeyIsCurrent DEF Copy
<1> DEFINE new == EndRow(o)
<1>5. new = [id |-> i, cid |-> orders[i].last + 1, kind |-> "end", to |-> orders[i].deadline]
  BY <1>2, <1>3, <1>4 DEF EndRow, StoreInv, RowAgrees
<1>6. new \in HistoryRow
  BY <1>3, <1>5 DEF HistoryRow, OrderRow
<1>7. /\ orders' = [orders EXCEPT ![i].status = "ended"]
      /\ history' = history \cup {new}
      /\ tx' = [tx EXCEPT ![c] = NoTx]
      /\ copies' = copies
  BY <1>0, <1>2 DEF EndCommit
<1> HIDE DEF new
<1>8. /\ orders'[i].status = "ended"
      /\ \A j \in Ids : /\ j # i => orders'[j].status = orders[j].status
                        /\ orders'[j].last = orders[j].last
                        /\ orders'[j].deadline = orders[j].deadline
                        /\ orders'[j].payed = orders[j].payed
  BY <1>7 DEF StoreInv, TypeOK, OrderRow
<1>9. TypeOK'
  <2>1. orders' \in [Ids -> OrderRow]
    BY <1>3, <1>7 DEF StoreInv, TypeOK, OrderRow, Status
  <2>2. \A j \in Ids : orders'[j].retries <= MaxNumRenewalRetries
    BY <1>7 DEF StoreInv, TypeOK, OrderRow
  <2>3. tx' \in [Clients -> Tx]
    BY <1>7 DEF StoreInv, TypeOK, Tx
  <2> QED BY <1>6, <1>7, <2>1, <2>2, <2>3 DEF StoreInv, TypeOK
<1>10. RowAgrees'
  BY <1>3, <1>8 DEF StoreInv, RowAgrees
<1>11. ChargesMatch'
  <2>1. \A j \in Ids : ChargingRows(j)' = ChargingRows(j)
    BY <1>5, <1>7 DEF ChargingRows
  <2> QED BY <1>8, <2>1 DEF StoreInv, LedgerShape, ChargesMatch
<1>12. EndsMatch'
  <2>1. \A j \in Ids : j # i => EndRows(j)' = EndRows(j)
    BY <1>5, <1>7 DEF EndRows
  <2>2. EndRows(i)' = EndRows(i) \cup {new}
    BY <1>5, <1>7 DEF EndRows
  <2>3. EndRows(i) = {}
    BY <1>3 DEF StoreInv, LedgerShape, EndsMatch
  <2> QED BY <1>5, <1>8, <2>1, <2>2, <2>3 DEF StoreInv, LedgerShape, EndsMatch
<1>13. KeysUnique'
  BY <1>3, <1>4, <1>5, <1>7 DEF StoreInv, LedgerShape, KeysUnique, KeyFree
<1>14. CopiesBehind'
  BY <1>3, <1>7, <1>8 DEF StoreInv, TypeOK, Copy, CopiesBehind, Exists
<1>15. TxBehind'
  <2>1. \A d \in Clients : d # c => tx'[d] = tx[d]
    BY <1>7 DEF StoreInv, TypeOK
  <2>2. tx'[c] = NoTx
    BY <1>7 DEF StoreInv, TypeOK
  <2>3. \A d \in Clients : tx[d].op \in {"fail", "renew"} => tx[d].id \in Ids
    BY TxFields DEF StoreInv
  <2>4. \A j \in Ids : Exists(j) => Exists(j)'
    BY <1>8 DEF Exists
  <2> QED BY <1>7, <1>8, <2>1, <2>2, <2>3, <2>4 DEF StoreInv, TxBehind, NoTx
<1> QED BY <1>9, <1>10, <1>11, <1>12, <1>13, <1>14, <1>15 DEF StoreInv, LedgerShape

-----------------------------------------------------------------------------
LEMMA InitEstablishes == StoreInit => StoreInv
<1> SUFFICES ASSUME StoreInit PROVE StoreInv
  OBVIOUS
<1>1. NoRow \in OrderRow
  BY DEF NoRow, OrderRow, Status
<1>2. TypeOK
  BY <1>1, RetriesAssumption DEF StoreInit, TypeOK, NoRow, Tx, RetriesAssumption
<1>3. RowAgrees
  BY DEF StoreInit, RowAgrees, NoRow
<1>4. LedgerShape
  BY DEF StoreInit, LedgerShape, ChargesMatch, EndsMatch, KeysUnique, ChargingRows, EndRows, NoRow
<1>5. CopiesBehind /\ TxBehind
  BY DEF StoreInit, CopiesBehind, TxBehind, NoTx
<1> QED BY <1>2, <1>3, <1>4, <1>5 DEF StoreInv

LEMMA NextKeeps == StoreInv /\ [StoreNext]_storeVars => StoreInv'
<1> SUFFICES ASSUME StoreInv, [StoreNext]_storeVars PROVE StoreInv'
  OBVIOUS
<1> USE SlotsAssumption, KindsAssumption, RetriesAssumption
<1>1. CASE StoreCrash
  BY <1>1, CrashKeeps
<1>2. ASSUME NEW c \in Clients, Abort(c) PROVE StoreInv'
  BY <1>2, Closes DEF Abort
<1>3. ASSUME NEW c \in Clients, NEW s \in Slots, CreateBegin(c, s) PROVE StoreInv'
  BY <1>3, CreateBeginKeeps
<1>4. ASSUME NEW c \in Clients, NEW i \in Ids, CreateCommit(c, i) PROVE StoreInv'
  BY <1>4, CreateCommitKeeps
<1>5. ASSUME NEW c \in Clients, NEW o \in copies, FailBegin(c, o.id) PROVE StoreInv'
  <2>1. o.id \in Ids
    BY DEF StoreInv, TypeOK, Copy
  <2> QED BY <1>5, <2>1, FailBeginKeeps
<1>6. ASSUME NEW c \in Clients, FailCommit(c) PROVE StoreInv'
  BY <1>6, FailCommitKeeps
<1>7. ASSUME NEW c \in Clients, NEW o \in copies, NEW kind \in Kinds, RenewBegin(c, o, kind)
      PROVE  StoreInv'
  BY <1>7, RenewBeginKeeps
<1>8. ASSUME NEW c \in Clients, RenewCommit(c) PROVE StoreInv'
  BY <1>8, RenewCommitKeeps
<1>9. ASSUME NEW c \in Clients, NEW o \in copies, EndBegin(c, o) PROVE StoreInv'
  BY <1>9, EndBeginKeeps
<1>10. ASSUME NEW c \in Clients, EndCommit(c) PROVE StoreInv'
  BY <1>10, EndCommitKeeps
<1>11. ASSUME NEW c \in Clients, EndNothing(c) PROVE StoreInv'
  BY <1>11, Closes DEF EndNothing
<1>12. CASE UNCHANGED storeVars
  BY <1>12 DEF storeVars, StoreInv, TypeOK, RowAgrees, LedgerShape, ChargesMatch, EndsMatch,
               KeysUnique, ChargingRows, EndRows, CopiesBehind, TxBehind, Exists
<1> QED BY <1>1, <1>2, <1>3, <1>4, <1>5, <1>6, <1>7, <1>8, <1>9, <1>10, <1>11, <1>12 DEF StoreNext

(***************************************************************************)
(* The inductive invariant holds in every state the callers of package     *)
(* usage can bring the two tables to.                                      *)
(***************************************************************************)
THEOREM StoreInvariant == StoreSpec => []StoreInv
  BY InitEstablishes, NextKeeps, PTL DEF StoreSpec

(***************************************************************************)
(* The tables keep their types, and RENEW_RETRIES its limit.               *)
(***************************************************************************)
THEOREM StoreTypeOK == StoreSpec => []TypeOK
<1>1. StoreInv => TypeOK
  BY DEF StoreInv
<1> QED BY <1>1, StoreInvariant, PTL

(***************************************************************************)
(* The columns that RenewOrder and EndOrder update separately agree in     *)
(* every committed row: the deadline is as many months on as there were    *)
(* consumes, and EVER_PAYED and the status fit to that number.             *)
(***************************************************************************)
THEOREM RowsAgree == StoreSpec => []RowAgrees
<1>1. StoreInv => RowAgrees
  BY DEF StoreInv
<1> QED BY <1>1, StoreInvariant, PTL

(***************************************************************************)
(* However transactions interleave and fail, the order row and the history *)
(* tell the same story: no gap, no consume twice, no charge after an end.  *)
(***************************************************************************)
THEOREM LedgerAgrees == StoreSpec => []LedgerShape
<1>1. StoreInv => LedgerShape
  BY DEF StoreInv
<1> QED BY <1>1, StoreInvariant, PTL

-----------------------------------------------------------------------------
(***************************************************************************)
(* What one step does to the order rows: nothing OrderLife sees, or one    *)
(* row is placed, charged or ended.                                        *)
(***************************************************************************)
SameRow(i) ==
    /\ orders'[i].status = orders[i].status
    /\ orders'[i].last = orders[i].last
    /\ orders'[i].deadline = orders[i].deadline

RowPlaced(i) ==
    /\ orders[i].status = "absent" /\ orders'[i].status = "pending"
    /\ orders[i].last = 0 /\ orders'[i].last = 0

RowCharged(i) ==
    /\ orders[i].status \in {"pending", "consuming"}
    /\ orders'[i].status = "consuming"
    /\ orders[i].last \in 0 .. (MaxConsume - 1)
    /\ orders'[i].last = orders[i].last + 1

RowEnded(i) ==
    /\ orders[i].status = "consuming" /\ orders'[i].status = "ended"
    /\ orders'[i].last = orders[i].last

RowMoves(i) == RowPlaced(i) \/ RowCharged(i) \/ RowEnded(i)

LEMMA StepMoves ==
    ASSUME StoreInv, [StoreNext]_storeVars
    PROVE  \/ \A i \in Ids : SameRow(i)
           \/ \E i \in Ids : RowMoves(i) /\ \A j \in Ids : j # i => SameRow(j)
<1> DEFINE Goal == \/ \A i \in Ids : SameRow(i)
                   \/ \E i \in Ids : RowMoves(i) /\ \A j \in Ids : j # i => SameRow(j)
<1>1. CASE orders' = orders
  BY <1>1 DEF SameRow
<1>2. ASSUME NEW c \in Clients, NEW i \in Ids, CreateCommit(c, i) PROVE Goal
  <2>1. orders' = [orders EXCEPT ![i] = NewRow(tx[c].slot)] /\ orders[i].status = "absent"
    BY <1>2 DEF CreateCommit, Exists
  <2>2. orders'[i] = NewRow(tx[c].slot) /\ \A j \in Ids : j # i => orders'[j] = orders[j]
    BY <2>1 DEF StoreInv, TypeOK
  <2>3. orders[i].last = 0
    BY <2>1 DEF StoreInv, RowAgrees
  <2>4. RowPlaced(i)
    BY <2>1, <2>2, <2>3 DEF RowPlaced, NewRow
  <2> QED BY <2>2, <2>4 DEF SameRow, RowMoves
<1>3. ASSUME NEW c \in Clients, FailCommit(c) PROVE \A i \in Ids : SameRow(i)
  BY <1>3, TxFields DEF FailCommit, StoreInv, TypeOK, OrderRow, SameRow
<1>4. ASSUME NEW c \in Clients, RenewCommit(c) PROVE Goal
  <2>1. tx[c] \in [op : {"renew"}, id : Ids, last : Nat, deadline : Nat, kind : Kinds]
    BY <1>4, TxFields DEF StoreInv, RenewCommit
  <2>2. PICK i \in Ids : i = tx[c].id
    BY <2>1
  <2>3. tx[c].last <= orders[i].last /\ tx[c].last < MaxConsume
    BY <1>4, <2>2 DEF RenewCommit, StoreInv, TxBehind
  <2>4. KeyFree(i, tx[c].last + 1)
    BY <1>4, <2>2 DEF RenewCommit
  <2>5. tx[c].last = orders[i].last /\ orders[i].status # "ended"
    BY <2>1, <2>3, <2>4, FreeKeyIsCurrent
  <2>6. /\ orders'[i] = Renewed(orders[i], tx[c])
        /\ \A j \in Ids : j # i => orders'[j] = orders[j]
    BY <1>4, <2>2 DEF RenewCommit, StoreInv, TypeOK
  <2>7. orders[i].status # "absent"
    BY <1>4, <2>2 DEF RenewCommit, StoreInv, TxBehind, Exists
  <2>8. orders[i].status \in {"pending", "consuming"}
    BY <2>5, <2>7 DEF StoreInv, TypeOK, OrderRow, Status
  <2>9. RowCharged(i)
    BY <2>1, <2>3, <2>5, <2>6, <2>8, ConsumeAssumption DEF RowCharged, Renewed, ConsumeAssumption
  <2> QED BY <2>6, <2>9 DEF SameRow, RowMoves
<1>5. ASSUME NEW c \in Clients, EndCommit(c) PROVE Goal
  <2>1. tx[c].copy.id \in Ids
    BY <1>5, TxFields DEF StoreInv, EndCommit, Copy
  <2>2. PICK i \in Ids : i = tx[c].copy.id
    BY <2>1
  <2>3. orders[i].status = "consuming" /\ orders' = [orders EXCEPT ![i].status = "ended"]
    BY <1>5, <2>2 DEF EndCommit, StillConsuming
  <2>4. RowEnded(i) /\ \A j \in Ids : j # i => SameRow(j)
    BY <2>3 DEF StoreInv, TypeOK, OrderRow, RowEnded, SameRow
  <2> QED BY <2>4 DEF RowMoves
<1> QED BY <1>1, <1>2, <1>3, <1>4, <1>5
        DEF StoreNext, storeVars, StoreCrash, Abort, CreateBegin, FailBegin, RenewBegin, EndBegin,
            EndNothing

(***************************************************************************)
(* An ended order is never charged or revived again, for any number of     *)
(* callers holding copies and snapshots from before it ended.              *)
(***************************************************************************)
THEOREM EndedStaysEnded == StoreSpec => EndedIsFinal
<1>1. StoreInv /\ [StoreNext]_storeVars =>
        [\A i \in Ids : orders[i].status = "ended" =>
            /\ orders'[i].status = "ended"
            /\ orders'[i].last = orders[i].last
            /\ orders'[i].deadline = orders[i].deadline]_storeVars
  BY StepMoves DEF SameRow, RowMoves, RowPlaced, RowCharged, RowEnded
<1> QED BY <1>1, StoreInvariant, PTL DEF StoreSpec, EndedIsFinal

-----------------------------------------------------------------------------
\* The charging rows of an order are numbered by its consumes.
Numbers(i) == {h.cid : h \in ChargingRows(i)}

LEMMA ChargedSoFar == StoreInv => \A i \in Ids : Numbers(i) = 1 .. orders[i].last
  BY DEF StoreInv, LedgerShape, ChargesMatch, Numbers

LEMMA LifeStarts == StoreInit => Life!LifeInit
  BY DEF StoreInit, Life!LifeInit, ChargingRows, NoRow

LEMMA LifeMoves ==
    StoreInv /\ StoreInv' /\ [StoreNext]_storeVars => [Life!LifeNext]_(Life!lifeVars)
<1> SUFFICES ASSUME StoreInv, StoreInv', [StoreNext]_storeVars
             PROVE  Life!LifeNext \/ UNCHANGED Life!lifeVars
  OBVIOUS
<1> DEFINE phase == [i \in Ids |-> orders[i].status]
           charged == [i \in Ids |-> Numbers(i)]
<1>1. charged = [i \in Ids |-> 1 .. orders[i].last]
  BY ChargedSoFar
<1>2. charged' = [i \in Ids |-> 1 .. orders'[i].last]
  <2>1. \A i \in Ids : Numbers(i)' = 1 .. orders'[i].last
    BY DEF StoreInv, LedgerShape, ChargesMatch, Numbers
  <2> QED BY <2>1
<1>3. CASE \A i \in Ids : SameRow(i)
  <2>1. phase' = phase /\ charged' = charged
    BY <1>1, <1>2, <1>3 DEF SameRow
  <2> QED BY <2>1 DEF Life!lifeVars, Numbers
<1>4. ASSUME NEW i \in Ids, RowMoves(i), \A j \in Ids : j # i => SameRow(j)
      PROVE  Life!LifeNext
  <2>1. phase' = [phase EXCEPT ![i] = orders'[i].status]
    BY <1>4 DEF SameRow
  <2>2. charged' = [charged EXCEPT ![i] = 1 .. orders'[i].last]
    <3>1. \A j \in Ids : charged'[j] = 1 .. orders'[j].last
      BY <1>2
    <3>2. \A j \in Ids : j # i => charged'[j] = charged[j]
      BY <1>1, <1>2, <1>4 DEF SameRow
    <3> HIDE DEF charged
    <3>3. /\ charged = [j \in Ids |-> charged[j]]
          /\ charged' = [j \in Ids |-> charged'[j]]
      BY <1>1, <1>2
    <3> QED BY <3>1, <3>2, <3>3
  <2>3. CASE RowPlaced(i)
    <3>1. charged' = charged
      BY <1>1, <1>2, <1>4, <2>3 DEF SameRow, RowPlaced
    <3>2. Life!Place(i)
      BY <2>1, <2>3, <3>1 DEF Life!Place, RowPlaced, Numbers
    <3> QED BY <3>2 DEF Life!LifeNext
  <2>4. CASE RowCharged(i)
    <3>1. charged[i] = 1 .. orders[i].last
      BY <1>1
    <3>2. charged' = [charged EXCEPT ![i] = 1 .. (orders[i].last + 1)]
      BY <2>2, <2>4 DEF RowCharged
    <3>3. Life!Charge(i)
      BY <2>1, <2>4, <3>1, <3>2 DEF Life!Charge, RowCharged, Numbers
    <3> QED BY <3>3 DEF Life!LifeNext
  <2>5. CASE RowEnded(i)
    <3>1. charged' = charged
      BY <1>1, <1>2, <1>4, <2>5 DEF SameRow, RowEnded
    <3>2. Life!Finish(i)
      BY <2>1, <2>5, <3>1 DEF Life!Finish, RowEnded, Numbers
    <3> QED BY <3>2 DEF Life!LifeNext
  <2> QED BY <1>4, <2>3, <2>4, <2>5 DEF RowMoves
<1> QED BY <1>3, <1>4, StepMoves

(***************************************************************************)
(* The store implements the atomic life of an order: every transaction,    *)
(* however stale its snapshot, is one step of OrderLife or none.           *)
(***************************************************************************)
THEOREM Refinement == StoreSpec => ImplementsLife
  BY LifeStarts, LifeMoves, StoreInvariant, PTL DEF StoreSpec, ImplementsLife, Life!LifeSpec
=============================================================================
