------------------------------- MODULE Renewal -------------------------------
(***************************************************************************)
(* TryToRenewConsumingOrders of api/maintain.go with its clock: the batch  *)
(* of orders that will expire soon, the warnings when money is missing and *)
(* the end of an order that stayed unpaid.                                 *)
(*                                                                         *)
(* Time is kept relative to now, in ticks: left[i] is the order's deadline *)
(* minus now, warned[i] is now minus the warning time in DF_ITEM_STAT.     *)
(* Ticks pass between any two steps.  A warning a day ago is as good as an *)
(* older one, and so is a deadline EndOrderMargin ago, but for the order   *)
(* of the deadlines: Floor keeps it.                                       *)
(*                                                                         *)
(* Only the maintainer moves the deadline of a consuming order (a request  *)
(* renews nothing but the order it creates), so the copies in the batch    *)
(* have the deadlines of the rows.  Requests may end an order at any time; *)
(* OrderStore shows that a renewal of an ended order is then rolled back.  *)
(***************************************************************************)
EXTENDS Integers, Sequences, FiniteSets, Functions

CONSTANTS
    Ids,
    Limit,            \* orders of one batch: 32 in the code
    RenewMargin,      \* 7 days
    EndOrderMargin,   \* 7 days
    Month,            \* what extendTime adds
    Zone,             \* local time minus UTC
    Day, Hour,        \* ticks of a day and of an hour
    Faults            \* the kinds of failure the environment produces

ASSUME TimesAssumption ==
    /\ {Limit, RenewMargin, EndOrderMargin, Month, Day, Hour} \subseteq Nat \ {0}
    /\ Zone \in Nat
    /\ Day % Hour = 0

ASSUME IdsAssumption == IsFiniteSet(Ids)

ASSUME RenewalFaultsAssumption == Faults \subseteq {"db", "plan", "payment", "resource"}

VARIABLES
    consuming,   \* the orders in consuming status
    left, warned,
    clock,       \* time of the day
    mails,       \* ghost: warnings sent for an order on this day
    blind,       \* ghost: orders whose warning time could not be read or stored on it
    batch,       \* the orders the maintainer still has to visit
    pc           \* what it is doing with the first of them

vars == <<consuming, left, warned, clock, mails, blind, batch, pc>>

Smaller(a, b) == IF a < b THEN a ELSE b

Init ==
    /\ consuming = {}
    /\ left = [i \in Ids |-> -EndOrderMargin]
    /\ warned = [i \in Ids |-> Day]
    /\ clock = 0
    /\ mails = [i \in Ids |-> 0]
    /\ blind = {}
    /\ batch = <<>>
    /\ pc = "sleep"

-----------------------------------------------------------------------------
(***************************************************************************)
(* The environment: time, and requests that create or end an order.  An id *)
(* stands for one order after another.                                     *)
(***************************************************************************)
Floor(i) == -EndOrderMargin - Cardinality({j \in consuming : left[j] > left[i]})

Tick ==
    /\ clock' = (clock + 1) % Day
    /\ left' = [i \in Ids |-> IF left[i] > Floor(i) THEN left[i] - 1 ELSE left[i]]
    /\ warned' = [i \in Ids |-> Smaller(warned[i] + 1, Day)]
    /\ mails' = IF clock' = 0 THEN [i \in Ids |-> 0] ELSE mails
    /\ blind' = IF clock' = 0 THEN {} ELSE blind
    /\ UNCHANGED <<consuming, batch, pc>>

Place(i) ==
    /\ i \notin consuming /\ i \notin Range(batch)
    /\ consuming' = consuming \cup {i}
    /\ left' = [left EXCEPT ![i] = Month]
    /\ warned' = [warned EXCEPT ![i] = Day]
    /\ mails' = [mails EXCEPT ![i] = 0]
    /\ blind' = blind \ {i}
    /\ UNCHANGED <<clock, batch, pc>>

Cancel(i) ==
    /\ i \in consuming
    /\ consuming' = consuming \ {i}
    /\ UNCHANGED <<left, warned, clock, mails, blind, batch, pc>>

-----------------------------------------------------------------------------
(***************************************************************************)
(* QueryConsumingOrdersToRenew: the consuming orders with the earliest     *)
(* deadlines.  DEADLINE_TIME is stored in UTC and compared with now plus   *)
(* the margin in local time, so the margin is Zone longer.                 *)
(***************************************************************************)
\* Mutant: the condition on DEADLINE_TIME is left out.
DueMutant(i) == i \in consuming

Due(i) == i \in consuming /\ left[i] < RenewMargin + Zone

DueIds == {i \in Ids : Due(i)}

\* Mutant: the latest deadlines first.
EarliestMutant(b, j) ==
    \A i \in DueIds \ {b[k] : k \in 1 .. j} : left[b[j]] >= left[i]

Earliest(b, j) ==
    \A i \in DueIds \ {b[k] : k \in 1 .. j} : left[b[j]] <= left[i]

Batches ==
    {b \in [1 .. Smaller(Limit, Cardinality(DueIds)) -> DueIds] :
        IsInjective(b) /\ \A j \in 1 .. Len(b) : Earliest(b, j)}

Query ==
    /\ pc = "sleep"
    /\ batch' \in Batches
    /\ pc' = "next"
    /\ UNCHANGED <<consuming, left, warned, clock, mails, blind>>

\* The round is over, without an order when the query failed.
Sleep ==
    /\ pc = "next" /\ batch = <<>>
    /\ pc' = "sleep"
    /\ UNCHANGED <<consuming, left, warned, clock, mails, blind, batch>>

QueryFails ==
    /\ pc = "sleep" /\ "db" \in Faults
    /\ pc' = "next"
    /\ UNCHANGED <<consuming, left, warned, clock, mails, blind, batch>>

Drop == batch' = Tail(batch) /\ pc' = "next"

(***************************************************************************)
(* getPlanByID and createOrder up to the payment.  When the plan or the    *)
(* payment fails the order is left for the next round.                     *)
(***************************************************************************)
Try ==
    /\ pc = "next" /\ batch # <<>>
    /\ pc' \in {"renew", "poor"}
    /\ UNCHANGED <<consuming, left, warned, clock, mails, blind, batch>>

TryFails ==
    /\ pc = "next" /\ batch # <<>> /\ Faults \cap {"plan", "payment"} # {}
    /\ Drop
    /\ UNCHANGED <<consuming, left, warned, clock, mails, blind>>

\* Mutant: the sign of EndOrderMargin.
LateMutant(i) == left[i] <= EndOrderMargin

Late(i) == left[i] <= -EndOrderMargin

(***************************************************************************)
(* The deadline moves by a month.  Of an order that is late, left no       *)
(* longer says how late: one step stands for the months it takes.          *)
(***************************************************************************)
Extended(i) ==
    IF Late(i) THEN (1 - EndOrderMargin) .. (Month - EndOrderMargin)
               ELSE {left[i] + Month}

RenewOrder ==
    LET i == Head(batch)
    IN  /\ pc = "renew"
        /\ IF i \in consuming
           THEN \E t \in Extended(i) : left' = [left EXCEPT ![i] = t]
           ELSE UNCHANGED left
        /\ Drop
        /\ UNCHANGED <<consuming, warned, clock, mails, blind>>

RenewFails ==
    /\ pc = "renew" /\ "db" \in Faults
    /\ Drop
    /\ UNCHANGED <<consuming, left, warned, clock, mails, blind>>

(***************************************************************************)
(* onInsufficientBalance.  The warning time is stored in hours since an    *)
(* hour long ago, the remainder is cut off.  An unreadable warning time    *)
(* counts as none, and a failed store is ignored.                          *)
(***************************************************************************)
\* Mutant: the warning time is not stored.
StoredMutant(i) == UNCHANGED warned

Stored(i) == warned' = [warned EXCEPT ![i] = clock % Hour]

WarnedToday(i) ==
    /\ pc = "poor" /\ ~Late(i) /\ warned[i] < Day
    /\ Drop
    /\ UNCHANGED <<consuming, left, warned, clock, mails, blind>>

Mail(i) ==
    /\ pc = "poor" /\ ~Late(i)
    /\ mails' = [mails EXCEPT ![i] = Smaller(@ + 1, 2)]
    /\ Drop
    /\ UNCHANGED <<consuming, left, clock>>

Warn(i) == warned[i] >= Day /\ Stored(i) /\ UNCHANGED blind /\ Mail(i)

WarnFails(i) ==
    /\ "db" \in Faults
    /\ Stored(i) \/ UNCHANGED warned
    /\ blind' = blind \cup {i}
    /\ Mail(i)

\* endOrder destroys the resource first.
Destroy ==
    /\ pc = "poor" /\ Late(Head(batch))
    /\ pc' = "end"
    /\ UNCHANGED <<consuming, left, warned, clock, mails, blind, batch>>

DestroyFails ==
    /\ pc = "poor" /\ Late(Head(batch)) /\ "resource" \in Faults
    /\ Drop
    /\ UNCHANGED <<consuming, left, warned, clock, mails, blind>>

EndOrder ==
    /\ pc = "end"
    /\ consuming' = consuming \ {Head(batch)}
    /\ Drop
    /\ UNCHANGED <<left, warned, clock, mails, blind>>

EndFails ==
    /\ pc = "end" /\ "db" \in Faults
    /\ Drop
    /\ UNCHANGED <<consuming, left, warned, clock, mails, blind>>

Fail == QueryFails \/ TryFails \/ RenewFails \/ DestroyFails \/ EndFails

Maintain ==
    \/ Query \/ Sleep \/ Try \/ RenewOrder \/ Destroy \/ EndOrder
    \/ \E i \in Ids :
          batch # <<>> /\ i = Head(batch) /\ (WarnedToday(i) \/ Warn(i) \/ WarnFails(i))
    \/ Fail

Next ==
    \/ Tick
    \/ \E i \in Ids : Place(i) \/ Cancel(i)
    \/ Maintain

(***************************************************************************)
(* The maintainer is one goroutine: its timer fires, and each of its calls *)
(* returns (the HTTP client gives up after 10 seconds, destroyBSI after    *)
(* some minutes).  Time passes.  Requests need not come.                   *)
(***************************************************************************)
Fairness == WF_vars(Maintain) /\ WF_vars(Tick)

Spec == Init /\ [][Next]_vars /\ Fairness

-----------------------------------------------------------------------------
(***************************************************************************)
(* Times stay in their ranges: no order is ever paid further ahead than a  *)
(* month past the margin.  The batch holds no order twice, and the         *)
(* maintainer is in the middle of an order only when there is one.         *)
(***************************************************************************)
TypeOK ==
    /\ consuming \subseteq Ids
    /\ left \in [Ids -> Int]
    /\ \A i \in Ids : /\ left[i] >= -EndOrderMargin - Cardinality(Ids)
                      /\ left[i] < RenewMargin + Zone + Month
    /\ warned \in [Ids -> 0 .. Day]
    /\ clock \in 0 .. (Day - 1)
    /\ mails \in [Ids -> 0 .. 2] /\ blind \subseteq Ids
    /\ batch \in Seq(Ids) /\ Len(batch) <= Limit /\ IsInjective(batch)
    /\ pc \in {"sleep", "next", "renew", "poor", "end"}
    /\ pc = "sleep" => batch = <<>>
    /\ pc \in {"renew", "poor", "end"} => batch # <<>>

(***************************************************************************)
(* "send most one email per day" (onInsufficientBalance): although the     *)
(* warning time loses its minutes, and the maintainer comes round every    *)
(* few minutes, an order gets one warning on a day, unless the warning     *)
(* time could not be read or stored that day.                              *)
(***************************************************************************)
OneWarningADay == \A i \in Ids : mails[i] <= 1 \/ i \in blind

(***************************************************************************)
(* The maintainer ends only orders that were unpaid for EndOrderMargin,    *)
(* however long ago it read them.                                          *)
(***************************************************************************)
EndsLate ==
    [][\A i \in consuming \ consuming' : EndOrder => left[i] <= -EndOrderMargin]_vars

(***************************************************************************)
(* "find all consuming orders need to renew": every order that will expire *)
(* soon is tried as long as it is due, whatever happens to the orders      *)
(* before it.                                                              *)
(***************************************************************************)
Trying(i) == batch # <<>> /\ Head(batch) = i

DueIsTried == \A i \in Ids : Due(i) ~> (~Due(i) \/ Trying(i))

(***************************************************************************)
(* The same when the failures come to an end.  A batch smaller than the    *)
(* number of due orders then starves nobody: who can pay moves behind the  *)
(* others, and who cannot is ended after EndOrderMargin.                   *)
(***************************************************************************)
FaultsStop == <>[][~Fail]_vars

DueIsTriedAtLast == FaultsStop => DueIsTried

(***************************************************************************)
(* "orders which will expire in RenewMargin" (TryToRenewConsumingOrders):  *)
(* the maintainer charges an order in its last RenewMargin.                *)
(***************************************************************************)
RenewsInMargin ==
    \A i \in Ids : pc = "renew" /\ Head(batch) = i => left[i] < RenewMargin
=============================================================================
