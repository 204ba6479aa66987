-------------------------------- MODULE Cycle --------------------------------
(***************************************************************************)
(* The billing cycles of one order on the calendar: extendTime and its     *)
(* days in a month (usage/usage.go), renewals made up to RenewMargin days  *)
(* before the deadline or after it, and the credit that a switch to        *)
(* another plan gives for the days that are left (createOrder of           *)
(* api/maintain.go).                                                       *)
(*                                                                         *)
(* Time is counted in half days since the order was created, all in one    *)
(* time zone, and money in cents; the code's floats are taken as exact.  A *)
(* time has its date, y, m and d, and its place on that clock, at.         *)
(***************************************************************************)
EXTENDS Integers, Sequences

CONSTANTS
    Starts,           \* the dates on which the order may be created
    Price,            \* of a cycle
    RenewMargin,      \* 7 days
    EndOrderMargin,   \* 7 days
    MaxConsumes       \* bound: cycles that are followed

ASSUME CycleAssumption == {Price, RenewMargin, EndOrderMargin, MaxConsumes} \subseteq Nat \ {0}

Leap(y) == y % 4 = 0 /\ (y % 100 # 0 \/ y % 400 = 0)

daysInMonth(y, m) ==
    IF m = 2 THEN IF Leap(y) THEN 29 ELSE 28
    ELSE IF m \in {4, 6, 9, 11} THEN 30 ELSE 31

ASSUME StartsAssumption ==
    \A s \in Starts : /\ s = [y |-> s.y, m |-> s.m, d |-> s.d, at |-> 0]
                      /\ s.y \in Nat /\ s.m \in 1 .. 12 /\ s.d \in 1 .. daysInMonth(s.y, s.m)

VARIABLES
    dues,    \* the start, and the deadline after each consume
    now,
    early    \* the start was stored rounded up, and this moment is before it

cycleVars == <<dues, now, early>>

Start == dues[1]
Consumes == Len(dues) - 1
Deadline == dues[Len(dues)]

-----------------------------------------------------------------------------
\* Mutant: the day may not exist.
ClipMutant(d, y, m) == d

Clip(d, y, m) == IF d > daysInMonth(y, m) THEN daysInMonth(y, m) ELSE d

NextMonth(t) == IF t.m = 12 THEN [y |-> t.y + 1, m |-> 1] ELSE [y |-> t.y, m |-> t.m + 1]

\* The day d of the month after t, at its place on the clock.
InNextMonth(t, d) ==
    LET n == NextMonth(t) IN
    [y |-> n.y, m |-> n.m, d |-> d, at |-> t.at + 2 * (daysInMonth(t.y, t.m) + d - t.d)]

ClipNext(d, t) == Clip(d, NextMonth(t).y, NextMonth(t).m)

\* Mutant: the day is the one of the last deadline.
extendTimeMutant(t, startTime) == InNextMonth(t, ClipNext(t.d, t))

extendTime(t, startTime) == InNextMonth(t, ClipNext(startTime.d, t))

At(n) == dues[n].at

-----------------------------------------------------------------------------
CycleInit ==
    /\ dues \in {<<s, extendTime(s, s)>> : s \in Starts}
    /\ now = 0
    /\ early \in BOOLEAN

\* Mutant: an order is renewed however far its deadline is.
ExpiringMutant == TRUE

Expiring == At(Len(dues)) - now < 2 * RenewMargin

Renew ==
    /\ Consumes < MaxConsumes
    /\ Expiring
    /\ dues' = Append(dues, extendTime(Deadline, Start))
    /\ UNCHANGED <<now, early>>

\* An order that stays unpaid for EndOrderMargin is due to be ended: followed no further.
Pass ==
    /\ now < At(Len(dues)) + 2 * EndOrderMargin
    /\ now' = now + 1
    /\ early' = FALSE
    /\ UNCHANGED dues

-----------------------------------------------------------------------------
\* calRemainingMoney of the n-th consume.
Remaining(n) ==
    LET remainingDays == (At(n + 1) - now) \div 2
        allDays == (At(n + 1) - At(n)) \div 2 IN
    (remainingDays * Price) \div allDays

\* Mutant: a consume made before its cycle begins is taken for the running one.
BeforeLastMutant == FALSE

BeforeLast == now < At(Consumes) \/ early

(***************************************************************************)
(* Before the last consume's cycle the code takes lastlastConsume, the     *)
(* consume before the last, and dereferences it unchecked.  The first one  *)
(* has none before it: no row is not an error of the query, the pointer is *)
(* nil and the goroutine of the request panics, which ends the process.    *)
(* A dry run gets there, as it skips the 15 seconds between two orders;    *)
(* another switch does when those are counted from an older row of the     *)
(* same order id (the query is not ordered).                               *)
(***************************************************************************)
Panics == now <= At(Consumes + 1) /\ BeforeLast /\ Consumes = 1

\* What a switch gives for the old order (remaingMoney in the code); none if Panics.
Credit ==
    IF now > At(Consumes + 1) THEN 0
    ELSE IF BeforeLast THEN Remaining(Consumes - 1) + Price
    ELSE Remaining(Consumes)

-----------------------------------------------------------------------------
CycleTypeOK ==
    /\ \A n \in DOMAIN dues :
          /\ dues[n].m \in 1 .. 12
          /\ dues[n].d \in 1 .. daysInMonth(dues[n].y, dues[n].m)
    /\ Consumes \in 1 .. MaxConsumes
    /\ now \in Nat
    /\ early \in BOOLEAN

(***************************************************************************)
(* The n-th deadline is n months after the start, on its day, or on the    *)
(* last day of a shorter month: a short month shortens no later cycle.     *)
(***************************************************************************)
DeadlinesFollowStart ==
    \A n \in 1 .. Consumes :
        LET due == dues[n + 1] IN
        /\ 12 * due.y + due.m = 12 * Start.y + Start.m + n
        /\ due.d = Start.d \/ (due.d < Start.d /\ due.d = daysInMonth(due.y, due.m))

(***************************************************************************)
(* A switch panics over a missing lastlastConsume in the moment before a   *)
(* start that was rounded up, and never else: whenever another order is    *)
(* switched before its last consume's cycle there is a consume before, and *)
(* its cycle is the running one.                                           *)
(***************************************************************************)
LastLastRuns ==
    /\ Panics <=> early
    /\ BeforeLast /\ ~Panics => Consumes > 1 /\ At(Consumes - 1) <= now

(***************************************************************************)
(* Wherever the code comes to a credit at all: it never grows while time   *)
(* passes; a renewal made in time raises it by exactly what was paid, and  *)
(* a late one by no more.  It is never more than the price of the cycles   *)
(* that are not over.                                                      *)
(***************************************************************************)
CreditIsFair ==
    [][/\ Consumes' = Consumes /\ ~Panics => Credit' <= Credit
       /\ Consumes' = Consumes + 1 /\ ~Panics /\ now <= At(Consumes + 1)
              => Credit' = Credit + Price
       /\ ~Panics' => Credit' <= 2 * Price /\ (now' >= At(Consumes)' => Credit' <= Price)
      ]_cycleVars
=============================================================================
