---------------------------- MODULE RenewalProofs ----------------------------
(***************************************************************************)
(* The maintainer for any number of orders, any limit of a batch, margins, *)
(* month and failures: an order gets one warning a day, is ended only      *)
(* after it stayed unpaid for EndOrderMargin, and is never paid further    *)
(* ahead than a month past the margin.                                     *)
(***************************************************************************)
EXTENDS Renewal, FiniteSetTheorems, SequenceTheorems, TLAPS

-----------------------------------------------------------------------------
(***************************************************************************)
(* The order in the batch were due when the batch was read.  Nothing moves *)
(* their deadlines away from now but a renewal, which takes them out.      *)
(***************************************************************************)
Waits(i) == \E k \in 1 .. Len(batch) : batch[k] = i

BatchDue == \A i \in Ids : Waits(i) => left[i] < RenewMargin + Zone

EndingLate == pc = "end" => Late(Head(batch))

(***************************************************************************)
(* Stored cuts the minutes off, so a warning looks older than it is, but   *)
(* never older than the day: its age is at most the time of the day.       *)
(***************************************************************************)
WarningFresh ==
    \A i \in Ids : i \in blind \/ mails[i] = 0 \/ (mails[i] = 1 /\ warned[i] <= clock)

RenewalInv == TypeOK /\ BatchDue /\ EndingLate /\ WarningFresh
-----------------------------------------------------------------------------
(***************************************************************************)
(* Facts about the numbers, the batch and Floor.                           *)
(***************************************************************************)
LEMMA Times ==
    /\ Limit \in Nat \ {0} /\ RenewMargin \in Nat \ {0} /\ EndOrderMargin \in Nat \ {0}
    /\ Month \in Nat \ {0} /\ Day \in Nat \ {0} /\ Hour \in Nat \ {0} /\ Zone \in Nat
    /\ Cardinality(Ids) \in Nat
  BY TimesAssumption, IdsAssumption, FS_CardinalityType

LEMMA ModuloSmall ==
    ASSUME NEW a \in Nat, NEW b \in Nat \ {0}
    PROVE  a % b \in 0 .. a
  OBVIOUS

LEMMA NextHour ==
    ASSUME NEW c \in 0 .. (Day - 1)
    PROVE  /\ (c + 1) % Day \in 0 .. (Day - 1)
           /\ (c + 1) % Day = 0 \/ (c + 1) % Day = c + 1
  BY Times

LEMMA FloorBounds ==
    ASSUME consuming \subseteq Ids, NEW i \in Ids
    PROVE  /\ Floor(i) \in Int
           /\ Floor(i) >= -EndOrderMargin - Cardinality(Ids)
           /\ Floor(i) <= -EndOrderMargin
<1> DEFINE later == {j \in consuming : left[j] > left[i]}
<1>1. later \in SUBSET Ids
  OBVIOUS
<1>2. Cardinality(later) \in Nat /\ Cardinality(later) <= Cardinality(Ids)
  BY <1>1, IdsAssumption, FS_Subset, FS_CardinalityType
<1>3. Floor(i) = -EndOrderMargin - Cardinality(later)
  BY DEF Floor
<1> HIDE DEF later
<1> QED BY <1>2, <1>3, Times

\* Drop takes the first order out of the batch, and with it every mention of it.
LEMMA Dropped ==
    ASSUME RenewalInv, batch # <<>>, Drop
    PROVE  /\ batch' \in Seq(Ids) /\ Len(batch') <= Limit /\ IsInjective(batch')
           /\ pc' = "next" /\ Head(batch) \in Ids /\ Waits(Head(batch))
           /\ \A i \in Ids : Waits(i)' => Waits(i) /\ i # Head(batch)
<1>1. /\ batch \in Seq(Ids) /\ Len(batch) \in Nat /\ Len(batch) <= Limit /\ IsInjective(batch)
      /\ batch' = Tail(batch) /\ pc' = "next"
  BY DEF RenewalInv, TypeOK, Drop
<1>2. /\ Head(batch) \in Ids /\ batch' \in Seq(Ids) /\ Len(batch') = Len(batch) - 1
      /\ \A k \in 1 .. Len(batch') : batch'[k] = batch[k + 1] /\ k + 1 \in 1 .. Len(batch)
      /\ Len(batch') \in Nat /\ Head(batch) = batch[1] /\ 1 \in 1 .. Len(batch)
  BY <1>1, HeadTailProperties, EmptySeq
<1>3. DOMAIN batch = 1 .. Len(batch) /\ DOMAIN batch' = 1 .. Len(batch')
  BY <1>1, <1>2
<1>4. \A j, k \in 1 .. Len(batch) : batch[j] = batch[k] => j = k
  BY <1>1, <1>3 DEF IsInjective
<1>5. IsInjective(batch')
  <2> SUFFICES ASSUME NEW j \in 1 .. Len(batch'), NEW k \in 1 .. Len(batch'),
                      batch'[j] = batch'[k]
               PROVE  j = k
    BY <1>3 DEF IsInjective
  <2>1. j + 1 = k + 1
    BY <1>2, <1>4
  <2> QED BY <2>1
<1>6. \A i \in Ids : Waits(i)' => Waits(i) /\ i # Head(batch)
  <2> SUFFICES ASSUME NEW k \in 1 .. Len(batch')
               PROVE  /\ \E j \in 1 .. Len(batch) : batch[j] = batch'[k]
                      /\ batch'[k] # Head(batch)
    BY DEF Waits
  <2>1. k + 1 \in 1 .. Len(batch) /\ batch'[k] = batch[k + 1] /\ k + 1 # 1
    BY <1>2
  <2> QED BY <1>2, <1>4, <2>1
<1> QED BY <1>1, <1>2, <1>5, <1>6, Times DEF Waits
-----------------------------------------------------------------------------
(***************************************************************************)
(* Time and the requests.                                                  *)
(***************************************************************************)
\* What holds of the rows, apart from the batch.
RowsOK ==
    /\ consuming \subseteq Ids
    /\ left \in [Ids -> Int]
    /\ \A i \in Ids : /\ left[i] >= -EndOrderMargin - Cardinality(Ids)
                      /\ left[i] < RenewMargin + Zone + Month
    /\ warned \in [Ids -> 0 .. Day]
    /\ clock \in 0 .. (Day - 1)
    /\ mails \in [Ids -> 0 .. 2] /\ blind \subseteq Ids

BatchOK ==
    /\ batch \in Seq(Ids) /\ Len(batch) <= Limit /\ IsInjective(batch)
    /\ pc \in {"sleep", "next", "renew", "poor", "end"}
    /\ pc = "sleep" => batch = <<>>
    /\ pc \in {"renew", "poor", "end"} => batch # <<>>

LEMMA TypeParts ==
    /\ TypeOK <=> RowsOK /\ BatchOK
    /\ TypeOK' <=> RowsOK' /\ BatchOK'
<1>1. TypeOK <=> RowsOK /\ BatchOK
  BY DEF TypeOK, RowsOK, BatchOK
<1>2. TypeOK' <=> RowsOK' /\ BatchOK'
  BY DEF TypeOK, RowsOK, BatchOK
<1> QED BY <1>1, <1>2

LEMMA HeadWaits == ASSUME BatchOK, batch # <<>> PROVE Head(batch) \in Ids /\ Waits(Head(batch))
<1>1. batch \in Seq(Ids) /\ Len(batch) \in Nat /\ Len(batch) > 0 /\ Head(batch) = batch[1]
  BY EmptySeq DEF BatchOK
<1> QED BY <1>1 DEF Waits

LEMMA TickKeeps == ASSUME RenewalInv, Tick PROVE RenewalInv'
<1>1. RowsOK /\ BatchOK /\ UNCHANGED <<consuming, batch, pc>>
  BY TypeParts DEF RenewalInv, Tick
<1>2. /\ clock' \in 0 .. (Day - 1)
      /\ clock' = 0 \/ clock' = clock + 1
  BY <1>1, NextHour DEF RowsOK, Tick
<1>3. ASSUME NEW i \in Ids
      PROVE  /\ left'[i] \in Int /\ left'[i] <= left[i]
             /\ left'[i] >= -EndOrderMargin - Cardinality(Ids)
             /\ left'[i] < RenewMargin + Zone + Month
  <2>1. /\ left[i] \in Int /\ left[i] >= -EndOrderMargin - Cardinality(Ids)
        /\ left[i] < RenewMargin + Zone + Month
        /\ left'[i] = IF left[i] > Floor(i) THEN left[i] - 1 ELSE left[i]
    BY <1>1 DEF RowsOK, Tick
  <2>2. Floor(i) \in Int /\ Floor(i) >= -EndOrderMargin - Cardinality(Ids)
    BY <1>1, FloorBounds DEF RowsOK
  <2> QED BY <2>1, <2>2, Times
<1>4. left' \in [Ids -> Int]
  <2>1. left' = [i \in Ids |-> left'[i]]
    BY DEF Tick
  <2> QED BY <1>3, <2>1
<1>5. /\ warned' \in [Ids -> 0 .. Day]
      /\ \A i \in Ids : warned'[i] <= warned[i] + 1
  BY <1>1, Times DEF RowsOK, Tick, Smaller
<1>6. mails' \in [Ids -> 0 .. 2] /\ blind' \subseteq Ids
  BY <1>1 DEF RowsOK, Tick
<1>7. RowsOK' /\ BatchOK'
  BY <1>1, <1>2, <1>3, <1>4, <1>5, <1>6 DEF RowsOK, BatchOK
<1>8. BatchDue'
  <2>1. \A i \in Ids : left[i] \in Int
    BY <1>1 DEF RowsOK
  <2> QED BY <1>1, <1>3, <2>1, Times DEF RenewalInv, BatchDue, Waits
<1>9. EndingLate'
  <2>1. ASSUME pc = "end" PROVE Late(Head(batch))'
    <3>1. Head(batch) \in Ids /\ left[Head(batch)] <= -EndOrderMargin
      BY <1>1, <2>1, HeadWaits DEF RenewalInv, EndingLate, Late, BatchOK
    <3> QED BY <1>1, <1>3, <3>1, Times DEF RowsOK, Late
  <2> QED BY <1>1, <2>1 DEF EndingLate
<1>10. WarningFresh'
  <2> SUFFICES ASSUME NEW i \in Ids
               PROVE  i \in blind' \/ mails'[i] = 0 \/ (mails'[i] = 1 /\ warned'[i] <= clock')
    BY DEF WarningFresh
  <2>1. CASE clock' = 0
    BY <2>1 DEF Tick
  <2>2. CASE clock' # 0
    <3>1. mails' = mails /\ blind' = blind /\ clock' = clock + 1
      BY <1>2, <2>2 DEF Tick
    <3>2. warned[i] \in Nat /\ warned'[i] \in Nat /\ clock \in Nat
      BY <1>1, <1>5, Times DEF RowsOK
    <3>3. warned[i] <= clock => warned'[i] <= clock'
      BY <1>5, <3>1, <3>2
    <3> QED BY <3>1, <3>3 DEF RenewalInv, WarningFresh
  <2> QED BY <2>1, <2>2
<1> QED BY <1>7, <1>8, <1>9, <1>10, TypeParts DEF RenewalInv

LEMMA PlaceKeeps == ASSUME RenewalInv, NEW i \in Ids, Place(i) PROVE RenewalInv'
<1>1. /\ RowsOK /\ BatchOK /\ UNCHANGED <<clock, batch, pc>>
      /\ consuming' = consuming \cup {i} /\ left' = [left EXCEPT ![i] = Month]
      /\ warned' = [warned EXCEPT ![i] = Day] /\ mails' = [mails EXCEPT ![i] = 0]
      /\ blind' = blind \ {i}
  BY TypeParts DEF RenewalInv, Place
<1>2. ~Waits(i)
  <2>1. i \notin {batch[k] : k \in DOMAIN batch} /\ DOMAIN batch = 1 .. Len(batch)
    BY <1>1 DEF Place, Range, BatchOK
  <2> QED BY <2>1 DEF Waits
<1>3. /\ left'[i] = Month /\ mails'[i] = 0
      /\ \A j \in Ids : j # i => /\ left'[j] = left[j] /\ mails'[j] = mails[j]
                                 /\ warned'[j] = warned[j]
      /\ left' \in [Ids -> Int] /\ warned' \in [Ids -> 0 .. Day] /\ mails' \in [Ids -> 0 .. 2]
  BY <1>1, Times DEF RowsOK
<1>4. RowsOK'
  <2>1. /\ left'[i] >= -EndOrderMargin - Cardinality(Ids)
        /\ left'[i] < RenewMargin + Zone + Month
    BY <1>3, Times
  <2>2. \A j \in Ids : /\ left'[j] >= -EndOrderMargin - Cardinality(Ids)
                       /\ left'[j] < RenewMargin + Zone + Month
    BY <1>1, <1>3, <2>1 DEF RowsOK
  <2> QED BY <1>1, <1>3, <2>2 DEF RowsOK
<1>5. BatchOK'
  BY <1>1 DEF BatchOK
<1>6. BatchDue'
  BY <1>1, <1>2, <1>3 DEF RenewalInv, BatchDue, Waits
<1>7. EndingLate'
  <2>1. ASSUME pc = "end" PROVE Late(Head(batch))'
    <3>1. Head(batch) \in Ids /\ Head(batch) # i /\ Late(Head(batch))
      BY <1>1, <1>2, <2>1, HeadWaits DEF RenewalInv, EndingLate, BatchOK
    <3> QED BY <1>1, <1>3, <3>1 DEF Late
  <2> QED BY <1>1, <2>1 DEF EndingLate
<1>8. WarningFresh'
  BY <1>1, <1>3 DEF RenewalInv, WarningFresh
<1> QED BY <1>4, <1>5, <1>6, <1>7, <1>8, TypeParts DEF RenewalInv

\* Steps that at most take orders out of consuming.
LEMMA FewerConsuming ==
    ASSUME RenewalInv, consuming' \subseteq consuming, BatchOK',
           \A i \in Ids : Waits(i)' => Waits(i), EndingLate',
           UNCHANGED <<left, warned, clock, mails, blind>>
    PROVE  RenewalInv'
<1>1. RowsOK'
  BY TypeParts DEF RenewalInv, RowsOK
<1>2. BatchDue' /\ WarningFresh'
  BY DEF RenewalInv, BatchDue, WarningFresh
<1> QED BY <1>1, <1>2, TypeParts DEF RenewalInv

LEMMA CancelKeeps == ASSUME RenewalInv, NEW i \in Ids, Cancel(i) PROVE RenewalInv'
<1>1. /\ consuming' \subseteq consuming
      /\ UNCHANGED <<left, warned, clock, mails, blind, batch, pc>>
  BY DEF Cancel
<1>2. BatchOK' /\ EndingLate' /\ \A j \in Ids : Waits(j)' => Waits(j)
  BY <1>1, TypeParts DEF RenewalInv, BatchOK, EndingLate, Late, Waits
<1> QED BY <1>1, <1>2, FewerConsuming
-----------------------------------------------------------------------------
(***************************************************************************)
(* The maintainer.                                                         *)
(***************************************************************************)
LEMMA QueryKeeps == ASSUME RenewalInv, Query PROVE RenewalInv'
<1>1. /\ RowsOK /\ pc' = "next" /\ batch' \in Batches
      /\ UNCHANGED <<consuming, left, warned, clock, mails, blind>>
  BY TypeParts DEF RenewalInv, Query
<1> DEFINE n == Smaller(Limit, Cardinality(DueIds))
<1>2. /\ batch' \in [1 .. n -> DueIds] /\ IsInjective(batch')
      /\ DueIds \subseteq Ids
  BY <1>1 DEF Batches, DueIds
<1>3. n \in Nat /\ n <= Limit
  <2>1. Cardinality(DueIds) \in Nat
    BY <1>2, IdsAssumption, FS_Subset, FS_CardinalityType
  <2> QED BY <2>1, Times DEF Smaller
<1> HIDE DEF n
<1>4. batch' \in Seq(Ids) /\ Len(batch') = n
  BY <1>2, <1>3
<1>5. \A i \in Ids : Waits(i)' => i \in DueIds
  BY <1>2, <1>4 DEF Waits
<1>6. BatchOK'
  BY <1>1, <1>2, <1>3, <1>4 DEF BatchOK
<1>7. RowsOK'
  BY <1>1 DEF RowsOK
<1>8. BatchDue'
  BY <1>1, <1>5 DEF BatchDue, DueIds, Due
<1>9. EndingLate' /\ WarningFresh'
  BY <1>1 DEF RenewalInv, EndingLate, WarningFresh
<1> QED BY <1>6, <1>7, <1>8, <1>9, TypeParts DEF RenewalInv

\* Nothing but what the maintainer is doing with the order changes.
LEMMA TurnKeeps ==
    ASSUME RenewalInv, Sleep \/ QueryFails \/ Try \/ Destroy
    PROVE  RenewalInv'
<1>1. BatchOK /\ UNCHANGED <<consuming, left, warned, clock, mails, blind, batch>>
  BY TypeParts DEF RenewalInv, Sleep, QueryFails, Try, Destroy
<1>2. BatchOK'
  BY <1>1 DEF BatchOK, Sleep, QueryFails, Try, Destroy
<1>3. EndingLate'
  BY <1>1 DEF EndingLate, Sleep, QueryFails, Try, Destroy, Late
<1>4. \A i \in Ids : Waits(i)' => Waits(i)
  BY <1>1 DEF Waits
<1> QED BY <1>1, <1>2, <1>3, <1>4, FewerConsuming

LEMMA DropsKeep ==
    ASSUME RenewalInv, batch # <<>>, Drop, consuming' \subseteq consuming,
           UNCHANGED <<left, warned, clock, mails, blind>>
    PROVE  RenewalInv'
<1>1. BatchOK'
  BY Dropped DEF BatchOK
<1>2. EndingLate' /\ \A i \in Ids : Waits(i)' => Waits(i)
  BY Dropped DEF EndingLate
<1> QED BY <1>1, <1>2, FewerConsuming

LEMMA LeavesOrderKeeps ==
    ASSUME RenewalInv,
           TryFails \/ RenewFails \/ DestroyFails \/ EndFails \/ EndOrder
             \/ \E i \in Ids : WarnedToday(i)
    PROVE  RenewalInv'
<1>1. batch # <<>> /\ Drop
  BY TypeParts
  DEF RenewalInv, BatchOK, TryFails, RenewFails, DestroyFails, EndFails, EndOrder, WarnedToday
<1>2. consuming' \subseteq consuming /\ UNCHANGED <<left, warned, clock, mails, blind>>
  BY DEF TryFails, RenewFails, DestroyFails, EndFails, EndOrder, WarnedToday
<1> QED BY <1>1, <1>2, DropsKeep

LEMMA RenewKeeps == ASSUME RenewalInv, RenewOrder PROVE RenewalInv'
<1> DEFINE i == Head(batch)
<1>1. /\ RowsOK /\ batch # <<>> /\ Drop /\ UNCHANGED <<consuming, warned, clock, mails, blind>>
      /\ left' = left \/ \E t \in Extended(i) : left' = [left EXCEPT ![i] = t]
  BY TypeParts DEF RenewalInv, BatchOK, RenewOrder
<1>2. CASE left' = left
  BY <1>1, <1>2, DropsKeep
<1>3. CASE \E t \in Extended(i) : left' = [left EXCEPT ![i] = t]
  <2>1. PICK t \in Extended(i) : left' = [left EXCEPT ![i] = t]
    BY <1>3
  <2>2. i \in Ids /\ Waits(i) /\ \A j \in Ids : Waits(j)' => Waits(j) /\ j # i
    BY <1>1, Dropped
  <2>3. left[i] \in Int /\ left[i] < RenewMargin + Zone
    BY <1>1, <2>2 DEF RenewalInv, BatchDue, RowsOK
  <2> HIDE DEF i
  <2>4. /\ t \in Int /\ t >= -EndOrderMargin - Cardinality(Ids)
        /\ t < RenewMargin + Zone + Month
    <3>1. CASE Late(i)
      BY <2>1, <3>1, Times DEF Extended
    <3>2. CASE ~Late(i)
      BY <2>1, <2>3, <3>2, Times DEF Extended, Late
    <3> QED BY <3>1, <3>2
  <2>5. /\ left' \in [Ids -> Int] /\ left'[i] = t
        /\ \A j \in Ids : j # i => left'[j] = left[j]
    BY <1>1, <2>1, <2>2, <2>4 DEF RowsOK
  <2>6. RowsOK'
    BY <1>1, <2>4, <2>5 DEF RowsOK
  <2>7. BatchOK' /\ EndingLate'
    BY <1>1, Dropped DEF BatchOK, EndingLate
  <2>8. BatchDue' /\ WarningFresh'
    BY <1>1, <2>2, <2>5 DEF RenewalInv, BatchDue, WarningFresh
  <2> QED BY <2>6, <2>7, <2>8, TypeParts DEF RenewalInv
<1> QED BY <1>1, <1>2, <1>3

\* A warning on a day that had one already comes with a failure that makes it blind.
LEMMA MailKeeps ==
    ASSUME RenewalInv, NEW i \in Ids, batch # <<>>, i = Head(batch), Warn(i) \/ WarnFails(i)
    PROVE  RenewalInv'
<1>1. /\ RowsOK /\ Drop /\ UNCHANGED <<consuming, left, clock>>
      /\ mails' = [mails EXCEPT ![i] = Smaller(@ + 1, 2)]
      /\ warned' = warned \/ Stored(i)
      /\ blind' = blind \/ blind' = blind \cup {i}
  BY TypeParts DEF RenewalInv, Warn, WarnFails, Mail
<1>2. clock % Hour \in 0 .. clock /\ clock \in Nat /\ clock < Day
  <2>1. Hour \in Nat \ {0} /\ Day \in Nat \ {0}
    BY Times
  <2>2. clock \in 0 .. Day - 1
    BY <1>1 DEF RowsOK
  <2>3. clock \in Nat /\ clock < Day
    BY <2>1, <2>2
  <2>4. clock % Hour \in 0 .. clock
    BY <2>1, <2>3, ModuloSmall
  <2> QED BY <2>3, <2>4
<1>3. /\ warned' \in [Ids -> 0 .. Day]
      /\ \A j \in Ids : j # i => warned'[j] = warned[j] /\ mails'[j] = mails[j]
      /\ mails' \in [Ids -> 0 .. 2] /\ mails'[i] = Smaller(mails[i] + 1, 2)
  <2>1. clock % Hour \in 0 .. Day
    BY <1>2, Times
  <2>2. Smaller(mails[i] + 1, 2) \in 0 .. 2
    <3>1. mails[i] \in 0 .. 2
      BY <1>1 DEF RowsOK
    <3> QED BY <3>1 DEF Smaller
  <2>3. /\ mails' \in [Ids -> 0 .. 2] /\ mails'[i] = Smaller(mails[i] + 1, 2)
        /\ \A j \in Ids : j # i => mails'[j] = mails[j]
    BY <1>1, <2>2 DEF RowsOK
  <2>4. warned' \in [Ids -> 0 .. Day] /\ \A j \in Ids : j # i => warned'[j] = warned[j]
    BY <1>1, <2>1 DEF RowsOK, Stored
  <2> QED BY <2>3, <2>4
<1>4. RowsOK'
  BY <1>1, <1>3 DEF RowsOK
<1>5. BatchOK' /\ EndingLate'
  BY <1>1, Dropped DEF BatchOK, EndingLate
<1>6. BatchDue'
  BY <1>1, Dropped DEF RenewalInv, BatchDue
<1>7. WarningFresh'
  <2>1. ASSUME NEW j \in Ids, j # i
        PROVE  j \in blind' \/ mails'[j] = 0 \/ (mails'[j] = 1 /\ warned'[j] <= clock')
    BY <1>1, <1>3, <2>1 DEF RenewalInv, WarningFresh
  <2>2. i \in blind' \/ (mails'[i] = 1 /\ warned'[i] <= clock')
    <3>1. CASE WarnFails(i)
      BY <3>1 DEF WarnFails
    <3>2. CASE Warn(i)
      <4>1. warned[i] >= Day /\ Stored(i) /\ blind' = blind /\ warned[i] \in 0 .. Day
        BY <1>1, <3>2 DEF Warn, RowsOK
      <4>2. warned'[i] = clock % Hour
        BY <1>1, <4>1 DEF Stored, RowsOK
      <4>3. i \in blind \/ mails[i] = 0
        BY <1>2, <4>1, Times DEF RenewalInv, WarningFresh
      <4>4. mails[i] = 0 => mails'[i] = 1
        BY <1>3 DEF Smaller
      <4> QED BY <1>1, <1>2, <4>1, <4>2, <4>3, <4>4
    <3> QED BY <3>1, <3>2
  <2> QED BY <2>1, <2>2 DEF WarningFresh
<1> QED BY <1>4, <1>5, <1>6, <1>7, TypeParts DEF RenewalInv

-----------------------------------------------------------------------------
LEMMA InitRenewal == Init => RenewalInv
<1> SUFFICES ASSUME Init PROVE RenewalInv
  OBVIOUS
<1>1. RowsOK
  BY Times DEF Init, RowsOK
<1>2. BatchOK
  BY Times DEF Init, BatchOK, IsInjective
<1>3. BatchDue /\ EndingLate /\ WarningFresh
  BY DEF Init, BatchDue, Waits, EndingLate, WarningFresh
<1> QED BY <1>1, <1>2, <1>3, TypeParts DEF RenewalInv

LEMMA NextRenewal == RenewalInv /\ [Next]_vars => RenewalInv'
<1> SUFFICES ASSUME RenewalInv, [Next]_vars PROVE RenewalInv'
  OBVIOUS
<1>1. CASE Tick
  BY <1>1, TickKeeps
<1>2. ASSUME NEW i \in Ids, Place(i) \/ Cancel(i) PROVE RenewalInv'
  BY <1>2, PlaceKeeps, CancelKeeps
<1>3. CASE Maintain
  <2>1. ASSUME NEW i \in Ids, batch # <<>>, i = Head(batch), Warn(i) \/ WarnFails(i)
        PROVE  RenewalInv'
    BY <2>1, MailKeeps
  <2> QED BY <1>3, <2>1, QueryKeeps, TurnKeeps, LeavesOrderKeeps, RenewKeeps DEF Maintain, Fail
<1>4. CASE UNCHANGED vars
  <2>1. BatchOK' /\ EndingLate' /\ \A i \in Ids : Waits(i)' => Waits(i)
    BY <1>4, TypeParts DEF vars, RenewalInv, BatchOK, EndingLate, Late, Waits
  <2> QED BY <1>4, <2>1, FewerConsuming DEF vars
<1> QED BY <1>1, <1>2, <1>3, <1>4 DEF Next

(***************************************************************************)
(* The inductive invariant of the maintainer and its clock.                *)
(***************************************************************************)
THEOREM RenewalInvariant == Spec => []RenewalInv
  BY InitRenewal, NextRenewal, PTL DEF Spec

(***************************************************************************)
(* Times stay in their ranges: no order is ever paid further ahead than a  *)
(* month past the margin, though batches are read long before they are     *)
(* worked off; and a batch holds no order twice.                           *)
(***************************************************************************)
THEOREM RenewalTypeOK == Spec => []TypeOK
<1>1. RenewalInv => TypeOK
  BY DEF RenewalInv
<1> QED BY <1>1, RenewalInvariant, PTL

(***************************************************************************)
(* onInsufficientBalance: an order gets one warning on a day, unless its   *)
(* warning time could not be read or stored, though what is stored has     *)
(* lost the minutes.                                                       *)
(***************************************************************************)
THEOREM WarnsOnceADay == Spec => []OneWarningADay
<1>1. RenewalInv => OneWarningADay
  BY DEF RenewalInv, WarningFresh, OneWarningADay
<1> QED BY <1>1, RenewalInvariant, PTL

(***************************************************************************)
(* The maintainer ends only an order that is EndOrderMargin late when it   *)
(* ends it, whatever time passed since it looked at the deadline.          *)
(***************************************************************************)
THEOREM EndsOnlyLate == Spec => EndsLate
<1>1. RenewalInv /\ [Next]_vars =>
        [\A i \in consuming \ consuming' : EndOrder => left[i] <= -EndOrderMargin]_vars
  BY DEF RenewalInv, EndingLate, Late, EndOrder
<1> QED BY <1>1, RenewalInvariant, PTL DEF Spec, EndsLate
=============================================================================
