----------------------------- MODULE ReportProofs -----------------------------
(***************************************************************************)
(* The calendar of the billing cycles, the credit of a switch and the walk *)
(* through the report's pages, for every start, price, page size and       *)
(* number of cycles.                                                       *)
(***************************************************************************)
EXTENDS Report, SequenceTheorems, TLAPS

Date == [y : Nat, m : 1 .. 12, d : 1 .. 31, at : Nat]

\* Each cycle has 28 to 31 days.
MonthLong == \A n \in 1 .. Consumes : At(n + 1) - At(n) \in 56 .. 62

CalendarInv ==
    /\ dues \in Seq(Date) /\ Start.at = 0
    /\ CycleTypeOK
    /\ DeadlinesFollowStart
    /\ MonthLong
    /\ early => now = 0

\* The cycle before the last consume's has begun, and the start is past.
LastBegan == Consumes > 1 => At(Consumes - 1) <= now /\ ~early

\* The first row that the next page shows is there.
PageThere == (page - 1) * Size(size) < (IF walk = "counted" THEN total ELSE Consumes)

\* What was shown when the last `gone` rows of the list, at most, were passed.
ShownTo(gone) == \A x \in 1 .. first : x > Consumes - gone => x \in seen

WalkInv ==
    /\ walk = "no" => page = 1
    /\ walk \in {"ask", "counted"} => PageThere /\ ShownTo((page - 1) * Size(size))
    /\ walk = "counted" => total <= Consumes /\ Consumes - total <= torn
    /\ first <= Consumes /\ torn < Consumes
    /\ WalkShowsAll

ReportInv == TypeOK /\ CalendarInv /\ WalkInv
-----------------------------------------------------------------------------
\* The calendar.

\* Every month has 28 to 31 days, whatever years are leap.
LEMMA MonthDays == \A y, m : daysInMonth(y, m) \in 28 .. 31
BY DEF daysInMonth

LEMMA ConstantsPositive ==
    /\ Price \in Nat \ {0} /\ RenewMargin \in Nat \ {0}
    /\ EndOrderMargin \in Nat \ {0} /\ MaxConsumes \in Nat \ {0}
BY CycleAssumption

\* The month that extendTime goes to follows t's.
LEMMA NextMonthFollows ==
    ASSUME NEW t \in Date
    PROVE  /\ NextMonth(t).y \in Nat /\ NextMonth(t).m \in 1 .. 12
           /\ 12 * NextMonth(t).y + NextMonth(t).m = 12 * t.y + t.m + 1
BY DEF NextMonth, Date

\* The day d that a deadline may have, if the order started on the day s.
OnDay(d, s, y, m) == d = s \/ (d < s /\ d = daysInMonth(y, m))

\* extendTime gives a date of the next month, on the day of the start or on
\* the last of the month, and that is 28 to 31 days later.
LEMMA ExtendedByAMonth ==
    ASSUME NEW t \in Date, NEW s \in Date,
           t.d <= daysInMonth(t.y, t.m), OnDay(t.d, s.d, t.y, t.m)
    PROVE  LET u == extendTime(t, s) IN
           /\ u \in Date
           /\ u.d \in 1 .. daysInMonth(u.y, u.m)
           /\ 12 * u.y + u.m = 12 * t.y + t.m + 1
           /\ OnDay(u.d, s.d, u.y, u.m)
           /\ u.at - t.at \in 56 .. 62
<1> DEFINE n == NextMonth(t)
           days == daysInMonth(t.y, t.m)
           nextDays == daysInMonth(n.y, n.m)
           day == ClipNext(s.d, t)
           u == extendTime(t, s)
<1>1. days \in 28 .. 31 /\ nextDays \in 28 .. 31
  BY MonthDays
<1>2. /\ t.d \in 1 .. 31 /\ s.d \in 1 .. 31 /\ t.at \in Nat
      /\ t.d <= days /\ (t.d = s.d \/ (t.d < s.d /\ t.d = days))
  BY DEF Date, OnDay
<1>3. n.y \in Nat /\ n.m \in 1 .. 12 /\ 12 * n.y + n.m = 12 * t.y + t.m + 1
  BY NextMonthFollows
<1>4. day = IF s.d > nextDays THEN nextDays ELSE s.d
  BY DEF ClipNext, Clip
<1>5. u = [y |-> n.y, m |-> n.m, d |-> day, at |-> t.at + 2 * (days + day - t.d)]
  BY DEF extendTime, InNextMonth
<1>6. u.y = n.y /\ u.m = n.m /\ u.d = day /\ u.at = t.at + 2 * (days + day - t.d)
  BY <1>5
<1> HIDE DEF n, days, nextDays, day, u
<1>7. day \in 1 .. 31 /\ day <= nextDays /\ (day = s.d \/ (day < s.d /\ day = nextDays))
  BY <1>1, <1>2, <1>4
<1>8. 2 * (days + day - t.d) \in 56 .. 62
  BY <1>1, <1>2, <1>4
<1>9. u.at \in Nat /\ u.at - t.at \in 56 .. 62
  BY <1>2, <1>6, <1>8
<1>10. u \in Date
  <2>1. t.at + 2 * (days + day - t.d) \in Nat
    BY <1>6, <1>9
  <2>2. QED
    BY <1>3, <1>5, <1>7, <2>1 DEF Date
<1>11. nextDays = daysInMonth(u.y, u.m)
  BY <1>6 DEF nextDays
<1>12. u.d \in 1 .. daysInMonth(u.y, u.m) /\ OnDay(u.d, s.d, u.y, u.m)
  BY <1>1, <1>6, <1>7, <1>11 DEF OnDay
<1>13. QED
  BY <1>3, <1>6, <1>9, <1>10, <1>12 DEF u

LEMMA StartsAreDates ==
    ASSUME NEW s \in Starts
    PROVE  s \in Date /\ s.d \in 1 .. daysInMonth(s.y, s.m) /\ s.at = 0
<1>1. /\ s = [y |-> s.y, m |-> s.m, d |-> s.d, at |-> 0]
      /\ s.y \in Nat /\ s.m \in 1 .. 12 /\ s.d \in 1 .. daysInMonth(s.y, s.m)
  BY StartsAssumption
<1>2. daysInMonth(s.y, s.m) \in 28 .. 31
  BY MonthDays
<1>3. s.d \in 1 .. 31
  BY <1>1, <1>2
<1>4. [y |-> s.y, m |-> s.m, d |-> s.d, at |-> 0] \in Date
  BY <1>1, <1>3 DEF Date
<1>5. s.at = 0
  BY <1>1
<1>6. QED
  BY <1>1, <1>4, <1>5
-----------------------------------------------------------------------------
\* The deadlines.

\* What the invariant says of each time in dues.
DueIs(n, due, start) ==
    /\ due \in Date
    /\ due.d \in 1 .. daysInMonth(due.y, due.m)
    /\ 12 * due.y + due.m = 12 * start.y + start.m + n
    /\ OnDay(due.d, start.d, due.y, due.m)

LEMMA CalendarByTimes ==
    CalendarInv <=>
      /\ dues \in Seq(Date) /\ Start.at = 0
      /\ Consumes \in 1 .. MaxConsumes
      /\ \A n \in 1 .. Len(dues) : DueIs(n - 1, dues[n], Start)
      /\ \A n \in 1 .. Consumes : dues[n + 1].at - dues[n].at \in 56 .. 62
      /\ now \in Nat /\ early \in BOOLEAN /\ (early => now = 0)
<1>1. SUFFICES ASSUME dues \in Seq(Date), Consumes \in 1 .. MaxConsumes
               PROVE  (/\ \A n \in DOMAIN dues :
                            /\ dues[n].m \in 1 .. 12
                            /\ dues[n].d \in 1 .. daysInMonth(dues[n].y, dues[n].m)
                       /\ DeadlinesFollowStart)
                      <=> \A n \in 1 .. Len(dues) : DueIs(n - 1, dues[n], Start)
  BY DEF CalendarInv, CycleTypeOK, MonthLong, At
<1>2. Len(dues) \in Nat /\ Consumes = Len(dues) - 1 /\ DOMAIN dues = 1 .. Len(dues)
  BY <1>1, LenProperties DEF Consumes
<1>3. \A n \in 1 .. Len(dues) : dues[n] \in Date /\ dues[n].m \in 1 .. 12
  <2>1. \A n \in 1 .. Len(dues) : dues[n] \in Date
    BY <1>1, ElementOfSeq
  <2>2. QED
    BY <2>1 DEF Date
<1> DEFINE Valid(n) == dues[n].d \in 1 .. daysInMonth(dues[n].y, dues[n].m)
           Follows(n) == /\ 12 * dues[n].y + dues[n].m = 12 * Start.y + Start.m + (n - 1)
                         /\ OnDay(dues[n].d, Start.d, dues[n].y, dues[n].m)
<1>4. DeadlinesFollowStart <=> \A n \in 2 .. Len(dues) : Follows(n)
  <2>1. ASSUME DeadlinesFollowStart, NEW n \in 2 .. Len(dues)
        PROVE  Follows(n)
    <3>1. n - 1 \in 1 .. Consumes /\ (n - 1) + 1 = n
      BY <1>2
    <3>2. QED
      BY <2>1, <3>1 DEF DeadlinesFollowStart, OnDay
  <2>2. ASSUME \A n \in 2 .. Len(dues) : Follows(n), NEW n \in 1 .. Consumes
        PROVE  LET due == dues[n + 1] IN
               /\ 12 * due.y + due.m = 12 * Start.y + Start.m + n
               /\ due.d = Start.d \/ (due.d < Start.d /\ due.d = daysInMonth(due.y, due.m))
    <3>1. n + 1 \in 2 .. Len(dues) /\ (n + 1) - 1 = n
      BY <1>2
    <3>2. Follows(n + 1)
      BY <2>2, <3>1
    <3>3. QED
      BY <3>1, <3>2 DEF OnDay
  <2>3. QED
    BY <2>1, <2>2 DEF DeadlinesFollowStart
<1>5. Follows(1)
  <2>1. Start \in Date /\ Start = dues[1]
    BY <1>1, <1>2, <1>3 DEF Start
  <2>2. Start.y \in Nat /\ Start.m \in 1 .. 12
    BY <2>1 DEF Date
  <2>3. QED
    BY <2>1, <2>2 DEF OnDay
<1>6. \A n \in 1 .. Len(dues) : DueIs(n - 1, dues[n], Start) <=> Valid(n) /\ Follows(n)
  BY <1>3 DEF DueIs
<1>7. (\A n \in 2 .. Len(dues) : Follows(n)) <=> (\A n \in 1 .. Len(dues) : Follows(n))
  <2>1. \A n \in 1 .. Len(dues) : n = 1 \/ n \in 2 .. Len(dues)
    BY <1>2
  <2>2. \A n \in 2 .. Len(dues) : n \in 1 .. Len(dues)
    BY <1>2
  <2> HIDE DEF Follows
  <2>3. QED
    BY <1>5, <2>1, <2>2
<1> HIDE DEF Valid, Follows
<1>8. (\A n \in DOMAIN dues : /\ dues[n].m \in 1 .. 12
                              /\ dues[n].d \in 1 .. daysInMonth(dues[n].y, dues[n].m))
      <=> \A n \in 1 .. Len(dues) : Valid(n)
  BY <1>2, <1>3 DEF Valid
<1>9. QED
  BY <1>4, <1>6, <1>7, <1>8

\* The calendar of an order that was created just now.
LEMMA CalendarInit == CycleInit => CalendarInv
<1>1. SUFFICES ASSUME CycleInit PROVE CalendarInv
  OBVIOUS
<1>2. PICK s \in Starts : dues = <<s, extendTime(s, s)>>
  BY <1>1 DEF CycleInit
<1>3. s \in Date /\ s.d \in 1 .. daysInMonth(s.y, s.m) /\ s.at = 0
  BY StartsAreDates
<1> DEFINE u == extendTime(s, s)
<1>4. s.d \in 1 .. 31 /\ daysInMonth(s.y, s.m) \in 28 .. 31 /\ s.y \in Nat /\ s.m \in 1 .. 12
  BY <1>3, MonthDays DEF Date
<1>5. s.d <= daysInMonth(s.y, s.m) /\ OnDay(s.d, s.d, s.y, s.m)
  BY <1>3, <1>4 DEF OnDay
<1>6. /\ u \in Date
      /\ u.d \in 1 .. daysInMonth(u.y, u.m)
      /\ 12 * u.y + u.m = 12 * s.y + s.m + 1
      /\ OnDay(u.d, s.d, u.y, u.m)
      /\ u.at - s.at \in 56 .. 62
  BY <1>3, <1>5, ExtendedByAMonth
<1> HIDE DEF u
<1>7. dues = <<s, u>> /\ dues \in Seq(Date) /\ Len(dues) = 2 /\ dues[1] = s /\ dues[2] = u
  BY <1>2, <1>3, <1>6 DEF u
<1>8. Start = s /\ Consumes = 1
  BY <1>7 DEF Start, Consumes
<1>9. DueIs(0, s, s) /\ DueIs(1, u, s)
  BY <1>3, <1>4, <1>5, <1>6 DEF DueIs
<1>10. ASSUME NEW n \in 1 .. Len(dues)
       PROVE  DueIs(n - 1, dues[n], Start)
  <2>1. n = 1 \/ n = 2
    BY <1>7
  <2>2. (n = 1 => n - 1 = 0) /\ (n = 2 => n - 1 = 1)
    OBVIOUS
  <2>3. QED
    BY <1>7, <1>8, <1>9, <2>1, <2>2
<1>11. \A n \in 1 .. Consumes : n = 1 /\ n + 1 = 2
  BY <1>8
<1>12. now = 0 /\ early \in BOOLEAN
  BY <1>1 DEF CycleInit
<1>13. Consumes \in 1 .. MaxConsumes
  BY <1>8, ConstantsPositive
<1>14. QED
  BY <1>3, <1>6, <1>7, <1>8, <1>10, <1>11, <1>12, <1>13, CalendarByTimes
LEMMA CalendarByTimesNext ==
    CalendarInv' <=>
      (/\ dues \in Seq(Date) /\ Start.at = 0
       /\ Consumes \in 1 .. MaxConsumes
       /\ \A n \in 1 .. Len(dues) : DueIs(n - 1, dues[n], Start)
       /\ \A n \in 1 .. Consumes : dues[n + 1].at - dues[n].at \in 56 .. 62
       /\ now \in Nat /\ early \in BOOLEAN /\ (early => now = 0))'
BY CalendarByTimes, PTL
CycleNext == Renew \/ Pass \/ UNCHANGED cycleVars

\* A renewal adds the next deadline and leaves the others.
LEMMA RenewAdds ==
    ASSUME CalendarInv, Renew
    PROVE  LET u == extendTime(dues[Consumes + 1], Start) IN
           /\ dues' \in Seq(Date)
           /\ Consumes' = Consumes + 1
           /\ \A n \in 1 .. Consumes + 1 : dues'[n] = dues[n]
           /\ dues'[Consumes + 2] = u
           /\ u.at - dues[Consumes + 1].at \in 56 .. 62
           /\ DueIs(Consumes + 1, u, Start)
<1> DEFINE t == dues[Consumes + 1]
           u == extendTime(t, Start)
<1>1. /\ dues \in Seq(Date) /\ Consumes \in 1 .. MaxConsumes
      /\ \A n \in 1 .. Len(dues) : DueIs(n - 1, dues[n], Start)
  BY CalendarByTimes
<1>2. MaxConsumes \in Nat
  BY ConstantsPositive
<1>3. Len(dues) = Consumes + 1 /\ Consumes \in Nat \ {0}
  BY <1>1, <1>2, LenProperties DEF Consumes
<1>4. DueIs(Consumes, t, Start)
  <2>1. Consumes + 1 \in 1 .. Len(dues) /\ (Consumes + 1) - 1 = Consumes
    BY <1>3
  <2>2. QED
    BY <1>1, <2>1
<1>5. Start \in Date
  BY <1>1, <1>3, ElementOfSeq DEF Start
<1>6. t \in Date /\ t.d \in 1 .. daysInMonth(t.y, t.m) /\ OnDay(t.d, Start.d, t.y, t.m)
  BY <1>4 DEF DueIs
<1>7. t.d <= daysInMonth(t.y, t.m)
  <2>1. daysInMonth(t.y, t.m) \in 28 .. 31
    BY MonthDays
  <2>2. QED
    BY <1>6, <2>1
<1>8. /\ u \in Date
      /\ u.d \in 1 .. daysInMonth(u.y, u.m)
      /\ 12 * u.y + u.m = 12 * t.y + t.m + 1
      /\ OnDay(u.d, Start.d, u.y, u.m)
      /\ u.at - t.at \in 56 .. 62
  BY <1>5, <1>6, <1>7, ExtendedByAMonth
<1>9. 12 * u.y + u.m = 12 * Start.y + Start.m + (Consumes + 1)
  <2>1. 12 * t.y + t.m = 12 * Start.y + Start.m + Consumes
    BY <1>4 DEF DueIs
  <2>2. Start.y \in Nat /\ Start.m \in 1 .. 12
    BY <1>5 DEF Date
  <2> DEFINE x == 12 * u.y + u.m
             y == 12 * t.y + t.m
             z == 12 * Start.y + Start.m
  <2>3. x = y + 1 /\ y = z + Consumes /\ z \in Int
    BY <1>8, <2>1, <2>2
  <2> HIDE DEF x, y, z
  <2>4. x = z + (Consumes + 1)
    BY <1>3, <2>3
  <2>5. QED
    BY <2>4 DEF x, z
<1>10. DueIs(Consumes + 1, u, Start)
  BY <1>8, <1>9 DEF DueIs
<1>11. dues' = Append(dues, u)
  BY <1>3 DEF Renew, Deadline
<1> HIDE DEF u
<1>12. /\ dues' \in Seq(Date)
       /\ Len(dues') = Len(dues) + 1
       /\ \A n \in 1 .. Len(dues) : dues'[n] = dues[n]
       /\ dues'[Len(dues) + 1] = u
  BY <1>1, <1>8, <1>11, AppendProperties
<1>13. Consumes' = Consumes + 1 /\ Len(dues) + 1 = Consumes + 2
  BY <1>3, <1>12 DEF Consumes
<1>14. QED
  BY <1>3, <1>8, <1>10, <1>12, <1>13 DEF t, u

LEMMA CalendarStep == CalendarInv /\ CycleNext => CalendarInv'
<1>1. CASE UNCHANGED cycleVars
  BY <1>1 DEF cycleVars, CalendarInv, CycleTypeOK, DeadlinesFollowStart, MonthLong,
              Start, Consumes, At
<1>2. ASSUME CalendarInv, Pass
      PROVE  CalendarInv'
  <2>1. UNCHANGED dues /\ now' = now + 1 /\ early' = FALSE
    BY <1>2 DEF Pass
  <2>2. now' \in Nat
    BY <1>2, <2>1 DEF CalendarInv, CycleTypeOK
  <2>3. QED
    BY <1>2, <2>1, <2>2 DEF CalendarInv, CycleTypeOK, DeadlinesFollowStart, MonthLong,
                            Start, Consumes, At
<1>3. ASSUME CalendarInv, Renew
      PROVE  CalendarInv'
  <2> DEFINE u == extendTime(dues[Consumes + 1], Start)
  <2>1. /\ dues \in Seq(Date) /\ Start.at = 0
        /\ Consumes \in 1 .. MaxConsumes
        /\ \A n \in 1 .. Len(dues) : DueIs(n - 1, dues[n], Start)
        /\ \A n \in 1 .. Consumes : dues[n + 1].at - dues[n].at \in 56 .. 62
        /\ now \in Nat /\ early \in BOOLEAN /\ (early => now = 0)
    BY <1>3, CalendarByTimes
  <2>2. /\ dues' \in Seq(Date)
        /\ Consumes' = Consumes + 1
        /\ \A n \in 1 .. Consumes + 1 : dues'[n] = dues[n]
        /\ dues'[Consumes + 2] = u
        /\ u.at - dues[Consumes + 1].at \in 56 .. 62
        /\ DueIs(Consumes + 1, u, Start)
    BY <1>3, RenewAdds
  <2> HIDE DEF u
  <2>3. MaxConsumes \in Nat
    BY ConstantsPositive
  <2>4. Len(dues) = Consumes + 1 /\ Consumes \in Nat \ {0}
    BY <2>1, <2>3, LenProperties DEF Consumes
  <2>5. Consumes < MaxConsumes /\ UNCHANGED <<now, early>>
    BY <1>3 DEF Renew
  <2>6. Consumes' \in 1 .. MaxConsumes
    BY <2>2, <2>3, <2>4, <2>5
  <2>7. Start' = Start
    BY <2>2, <2>4 DEF Start
  <2>8. Len(dues') = Consumes + 2
    <3>1. Len(dues') \in Nat /\ Consumes' = Len(dues') - 1
      BY <2>2, LenProperties DEF Consumes
    <3>2. QED
      BY <2>2, <2>4, <3>1
  <2>9. ASSUME NEW n \in 1 .. Len(dues')
        PROVE  DueIs(n - 1, dues'[n], Start')
    <3>1. CASE n \in 1 .. Consumes + 1
      BY <2>1, <2>2, <2>4, <2>7, <3>1
    <3>2. CASE n = Consumes + 2
      <4>1. n - 1 = Consumes + 1
        BY <2>4, <3>2
      <4>2. QED
        BY <2>2, <2>7, <3>2, <4>1
    <3>3. QED
      BY <2>4, <2>8, <3>1, <3>2
  <2>10. ASSUME NEW n \in 1 .. Consumes'
         PROVE  dues'[n + 1].at - dues'[n].at \in 56 .. 62
    <3>1. CASE n \in 1 .. Consumes
      <4>1. n \in 1 .. Consumes + 1 /\ n + 1 \in 1 .. Consumes + 1
        BY <2>4, <3>1
      <4>2. QED
        BY <2>1, <2>2, <3>1, <4>1
    <3>2. CASE n = Consumes + 1
      <4>1. n + 1 = Consumes + 2 /\ n \in 1 .. Consumes + 1
        BY <2>4, <3>2
      <4>2. QED
        BY <2>2, <3>2, <4>1
    <3>3. QED
      BY <2>2, <2>4, <3>1, <3>2
  <2>11. (Start.at = 0)'
    BY <2>1, <2>7
  <2>12. (now \in Nat /\ early \in BOOLEAN /\ (early => now = 0))'
    BY <2>1, <2>5
  <2>13. QED
    BY <2>2, <2>6, <2>9, <2>10, <2>11, <2>12, CalendarByTimesNext
<1>4. QED
  BY <1>1, <1>2, <1>3 DEF CycleNext
-----------------------------------------------------------------------------
\* The cycle that runs.

LEMMA Times ==
    ASSUME CalendarInv
    PROVE  /\ Consumes \in Nat \ {0} /\ Consumes <= MaxConsumes /\ Len(dues) = Consumes + 1
           /\ \A n \in 1 .. Consumes + 1 : At(n) \in Nat
           /\ \A n \in 1 .. Consumes : At(n) + 56 <= At(n + 1)
           /\ At(1) = 0 /\ now \in Nat /\ early \in BOOLEAN /\ (early => now = 0)
<1>1. /\ dues \in Seq(Date) /\ Start.at = 0
      /\ Consumes \in 1 .. MaxConsumes
      /\ now \in Nat /\ early \in BOOLEAN /\ (early => now = 0)
  BY CalendarByTimes
<1>2. Consumes \in Nat \ {0} /\ Consumes <= MaxConsumes /\ Len(dues) = Consumes + 1
  <2>1. Consumes \in Nat \ {0} /\ Consumes <= MaxConsumes
    BY <1>1, ConstantsPositive
  <2>2. Len(dues) \in Nat /\ Consumes = Len(dues) - 1
    BY <1>1, LenProperties DEF Consumes
  <2>3. QED
    BY <2>1, <2>2
<1>3. \A n \in 1 .. Consumes + 1 : At(n) \in Nat
  <2>1. \A n \in 1 .. Consumes + 1 : dues[n] \in Date
    BY <1>1, <1>2, ElementOfSeq
  <2>2. QED
    BY <2>1 DEF Date, At
<1>4. ASSUME NEW n \in 1 .. Consumes
      PROVE  At(n) + 56 <= At(n + 1)
  <2>1. At(n + 1) - At(n) \in 56 .. 62
    BY DEF CalendarInv, MonthLong
  <2>2. n \in 1 .. Consumes + 1 /\ n + 1 \in 1 .. Consumes + 1
    BY <1>2
  <2>3. At(n) \in Nat /\ At(n + 1) \in Nat
    BY <1>3, <2>2
  <2>4. QED
    BY <2>1, <2>3
<1>5. At(1) = 0
  BY <1>1 DEF At, Start
<1>6. QED
  BY <1>1, <1>2, <1>3, <1>4, <1>5

\* An order is renewed when less than 28 days are left: its last cycle runs.
LEMMA RenewedInLastCycle ==
    ASSUME RenewMargin <= 28, CalendarInv, Renew
    PROVE  At(Consumes) <= now /\ now > 0
<1>1. /\ Consumes \in Nat \ {0} /\ Len(dues) = Consumes + 1 /\ now \in Nat
      /\ \A n \in 1 .. Consumes + 1 : At(n) \in Nat
      /\ \A n \in 1 .. Consumes : At(n) + 56 <= At(n + 1)
  BY Times
<1>2. At(Consumes) \in Nat /\ At(Consumes + 1) \in Nat /\ At(Consumes) + 56 <= At(Consumes + 1)
  BY <1>1
<1>3. At(Consumes + 1) - now < 2 * RenewMargin
  BY <1>1 DEF Renew, Expiring
<1>4. RenewMargin \in Nat
  BY ConstantsPositive
<1>5. QED
  BY <1>1, <1>2, <1>3, <1>4

\* A renewal keeps the times that were on the calendar.
LEMMA RenewKeepsTimes ==
    ASSUME CalendarInv, Renew
    PROVE  /\ Consumes' = Consumes + 1 /\ now' = now
           /\ \A n \in 1 .. Consumes + 1 : At(n)' = At(n)
<1>1. Consumes' = Consumes + 1 /\ \A n \in 1 .. Consumes + 1 : dues'[n] = dues[n]
  BY RenewAdds
<1>2. QED
  BY <1>1 DEF At, Renew

LEMMA LastBeganStep ==
    ASSUME RenewMargin <= 28, CalendarInv, LastBegan, CycleNext
    PROVE  LastBegan'
<1>1. CASE UNCHANGED cycleVars
  BY <1>1 DEF LastBegan, cycleVars, Consumes, At
<1>2. CASE Pass
  <2>1. UNCHANGED dues /\ now' = now + 1
    BY <1>2 DEF Pass
  <2>2. Consumes \in Nat \ {0} /\ now \in Nat /\ \A n \in 1 .. Consumes + 1 : At(n) \in Nat
    BY Times
  <2>3. Consumes' = Consumes /\ \A n \in 1 .. Consumes + 1 : At(n)' = At(n)
    BY <2>1 DEF Consumes, At
  <2>4. ASSUME Consumes > 1
        PROVE  At(Consumes - 1) <= now + 1 /\ ~early'
    <3>1. At(Consumes - 1) <= now
      BY <2>4 DEF LastBegan
    <3>2. Consumes - 1 \in 1 .. Consumes + 1
      BY <2>2, <2>4
    <3>3. At(Consumes - 1) \in Nat
      BY <2>2, <3>2
    <3>4. ~early'
      BY <1>2 DEF Pass
    <3>5. QED
      BY <2>2, <3>1, <3>3, <3>4
  <2>5. Consumes > 1 => At(Consumes - 1)' = At(Consumes - 1)
    BY <2>1, <2>3 DEF At
  <2>6. QED
    BY <2>1, <2>3, <2>4, <2>5 DEF LastBegan
<1>3. CASE Renew
  <2>1. At(Consumes) <= now /\ ~early'
    <3>1. early' = early
      BY <1>3 DEF Renew
    <3>2. QED
      BY <1>3, <3>1, RenewedInLastCycle, Times
  <2>2. /\ Consumes' = Consumes + 1 /\ now' = now
        /\ \A n \in 1 .. Consumes + 1 : dues'[n] = dues[n]
    BY <1>3, RenewKeepsTimes, RenewAdds
  <2>3. Consumes \in Nat \ {0}
    BY Times
  <2>4. Consumes' - 1 = Consumes /\ Consumes \in 1 .. Consumes + 1
    BY <2>2, <2>3
  <2>5. dues'[Consumes' - 1].at = At(Consumes)
    BY <2>2, <2>4 DEF At
  <2>6. QED
    BY <2>1, <2>2, <2>5 DEF LastBegan, At
<1>4. QED
  BY <1>1, <1>2, <1>3 DEF CycleNext

LEMMA LastBeganInit == CycleInit => LastBegan
<1>1. SUFFICES ASSUME CycleInit PROVE LastBegan
  OBVIOUS
<1>2. PICK s \in Starts : dues = <<s, extendTime(s, s)>>
  BY <1>1 DEF CycleInit
<1>3. Len(dues) = 2
  BY <1>2
<1>4. QED
  BY <1>3 DEF LastBegan, Consumes

\* Only the first consume has none before it, and it starts with the order.
LEMMA PanicsEarly == CalendarInv => (Panics => early /\ Consumes = 1)
<1>1. SUFFICES ASSUME CalendarInv, Panics, ~early PROVE FALSE
  BY DEF Panics
<1>2. Consumes = 1 /\ now < At(Consumes)
  BY <1>1 DEF Panics, BeforeLast
<1>3. At(1) = 0 /\ now \in Nat
  BY <1>1, Times
<1>4. QED
  BY <1>2, <1>3

LEMMA PanicsEarlyNext == (CalendarInv => (Panics => early /\ Consumes = 1))'
BY PanicsEarly, PTL

LEMMA LastLastByInv ==
    ASSUME CalendarInv, LastBegan
    PROVE  LastLastRuns
<1>1. /\ Consumes \in Nat \ {0} /\ At(1) = 0 /\ now \in Nat /\ (early => now = 0)
      /\ \A n \in 1 .. Consumes + 1 : At(n) \in Nat
  BY Times
<1>2. ASSUME early
      PROVE  Panics
  <2>1. Consumes = 1
    BY <1>1, <1>2 DEF LastBegan
  <2>2. now <= At(Consumes + 1)
    BY <1>1, <1>2, <2>1
  <2>3. QED
    BY <1>2, <2>1, <2>2 DEF Panics, BeforeLast
<1>3. ASSUME BeforeLast, ~Panics
      PROVE  Consumes > 1 /\ At(Consumes - 1) <= now
  <2>1. now < At(Consumes)
    BY <1>2, <1>3 DEF BeforeLast
  <2>2. Consumes > 1
    BY <1>1, <2>1
  <2>3. QED
    BY <2>2 DEF LastBegan
<1>4. QED
  BY <1>2, <1>3, PanicsEarly DEF LastLastRuns
-----------------------------------------------------------------------------
\* The credit of a switch.

LEMMA DivGrows ==
    ASSUME NEW a \in Int, NEW b \in Int, NEW q \in Nat \ {0}, a <= b
    PROVE  a \div q <= b \div q
OBVIOUS

LEMMA DivExact ==
    ASSUME NEW p \in Int, NEW q \in Nat \ {0}
    PROVE  (q * p) \div q = p /\ 0 \div q = 0
OBVIOUS

LEMMA TimesGrows ==
    ASSUME NEW a \in Int, NEW b \in Int, NEW q \in Nat, a <= b
    PROVE  a * q <= b * q
OBVIOUS

\* What is left at t of a cycle that was paid.
Worth(from, to, t) == (((to - t) \div 2) * Price) \div ((to - from) \div 2)

LEMMA WorthFalls ==
    ASSUME NEW from \in Int, NEW to \in Int, from + 56 <= to,
           NEW t \in Int, NEW u \in Int, t <= u
    PROVE  Worth(from, to, u) <= Worth(from, to, t)
<1>1. Price \in Nat
  BY ConstantsPositive
<1>2. PICK q \in Nat \ {0} : q = (to - from) \div 2
  <2>1. (to - from) \div 2 \in Nat \ {0}
    OBVIOUS
  <2>2. QED
    BY <2>1
<1>3. PICK r \in Int, v \in Int : r = (to - u) \div 2 /\ v = (to - t) \div 2 /\ r <= v
  <2>1. /\ (to - u) \div 2 \in Int /\ (to - t) \div 2 \in Int
        /\ (to - u) \div 2 <= (to - t) \div 2
    OBVIOUS
  <2>2. QED
    BY <2>1
<1>4. r * Price <= v * Price /\ r * Price \in Int /\ v * Price \in Int
  BY <1>1, <1>3, TimesGrows
<1>5. (r * Price) \div q <= (v * Price) \div q
  BY <1>4, DivGrows
<1>6. QED
  BY <1>2, <1>3, <1>5 DEF Worth

\* A cycle is worth its price when it begins and nothing when it ends.
LEMMA WorthAtEnds ==
    ASSUME NEW from \in Int, NEW to \in Int, from + 56 <= to
    PROVE  Worth(from, to, from) = Price /\ Worth(from, to, to) = 0
<1>1. Price \in Nat
  BY ConstantsPositive
<1>2. PICK q \in Nat \ {0} : q = (to - from) \div 2
  <2>1. (to - from) \div 2 \in Nat \ {0}
    OBVIOUS
  <2>2. QED
    BY <2>1
<1>3. (q * Price) \div q = Price /\ 0 \div q = 0
  BY <1>1, DivExact
<1>4. (to - to) \div 2 = 0 /\ 0 * Price = 0
  BY <1>1
<1>5. QED
  BY <1>2, <1>3, <1>4 DEF Worth

LEMMA WorthInside ==
    ASSUME NEW from \in Int, NEW to \in Int, from + 56 <= to, NEW t \in Int, t <= to
    PROVE  /\ Worth(from, to, t) \in Int /\ Worth(from, to, t) >= 0
           /\ from <= t => Worth(from, to, t) <= Price
<1>1. Price \in Nat
  BY ConstantsPositive
<1>2. Worth(from, to, from) = Price /\ Worth(from, to, to) = 0
  BY WorthAtEnds
<1>3. Worth(from, to, to) <= Worth(from, to, t)
  BY WorthFalls
<1>4. from <= t => Worth(from, to, t) <= Worth(from, to, from)
  BY WorthFalls
<1>5. Worth(from, to, t) \in Int
  <2>1. (to - from) \div 2 \in Nat \ {0}
    OBVIOUS
  <2>2. ((to - t) \div 2) * Price \in Int
    BY <1>1
  <2>3. \A a \in Int, q \in Nat \ {0} : a \div q \in Int
    OBVIOUS
  <2>4. QED
    BY <2>1, <2>2, <2>3 DEF Worth
<1>6. QED
  BY <1>2, <1>3, <1>4, <1>5

\* What remains of a cycle, by the places on the clock.
LEMMA CreditIs ==
    CalendarInv =>
      /\ now < At(Consumes) => Consumes > 1
      /\ ~Panics =>
         Credit = IF now > At(Consumes + 1) THEN 0
                  ELSE IF now < At(Consumes)
                  THEN Worth(At(Consumes - 1), At(Consumes), now) + Price
                  ELSE Worth(At(Consumes), At(Consumes + 1), now)
<1>1. SUFFICES ASSUME CalendarInv
               PROVE  /\ now < At(Consumes) => Consumes > 1
                      /\ ~Panics /\ ~now > At(Consumes + 1)
                            => (BeforeLast <=> now < At(Consumes))
                      /\ now < At(Consumes) => Remaining(Consumes - 1)
                                           = Worth(At(Consumes - 1), At(Consumes), now)
                      /\ Remaining(Consumes) = Worth(At(Consumes), At(Consumes + 1), now)
  BY DEF Credit
<1>2. /\ Consumes \in Nat \ {0} /\ At(1) = 0 /\ now \in Nat
      /\ early \in BOOLEAN /\ (early => now = 0)
      /\ \A n \in 1 .. Consumes + 1 : At(n) \in Nat
      /\ \A n \in 1 .. Consumes : At(n) + 56 <= At(n + 1)
  BY <1>1, Times
<1>3. now < At(Consumes) => Consumes > 1
  BY <1>2
<1>4. Consumes > 1 => now < At(Consumes) \/ ~early
  <2>1. SUFFICES ASSUME Consumes > 1, early
                 PROVE  now < At(Consumes)
    BY <1>2
  <2>2. Consumes - 1 \in 1 .. Consumes /\ (Consumes - 1) + 1 = Consumes
    BY <1>2, <2>1
  <2>3. At(Consumes - 1) + 56 <= At(Consumes) /\ At(Consumes - 1) \in Nat /\ At(Consumes) \in Nat
    <3>1. At(Consumes - 1) + 56 <= At((Consumes - 1) + 1)
      BY <1>2, <2>2
    <3>2. Consumes - 1 \in 1 .. Consumes + 1 /\ Consumes \in 1 .. Consumes + 1
      BY <1>2, <2>2
    <3>3. QED
      BY <1>2, <2>2, <3>1, <3>2
  <2>4. now = 0
    BY <1>2, <2>1
  <2>5. QED
    BY <2>3, <2>4
<1>5. ASSUME ~Panics, ~now > At(Consumes + 1)
      PROVE  BeforeLast <=> now < At(Consumes)
  <2>1. At(Consumes + 1) \in Nat
    BY <1>2
  <2>2. now <= At(Consumes + 1)
    BY <1>2, <1>5, <2>1
  <2>3. BeforeLast => Consumes > 1
    BY <1>2, <1>5, <2>2 DEF Panics
  <2>4. QED
    BY <1>4, <2>3 DEF BeforeLast
<1>6. now < At(Consumes) => Remaining(Consumes - 1) = Worth(At(Consumes - 1), At(Consumes), now)
  <2>1. (Consumes - 1) + 1 = Consumes
    BY <1>2
  <2>2. QED
    BY <2>1 DEF Remaining, Worth
<1>7. Remaining(Consumes) = Worth(At(Consumes), At(Consumes + 1), now)
  BY DEF Remaining, Worth
<1>8. QED
  BY <1>3, <1>5, <1>6, <1>7

LEMMA CreditIsNext ==
    (CalendarInv =>
      /\ now < At(Consumes) => Consumes > 1
      /\ ~Panics =>
         Credit = IF now > At(Consumes + 1) THEN 0
                  ELSE IF now < At(Consumes)
                  THEN Worth(At(Consumes - 1), At(Consumes), now) + Price
                  ELSE Worth(At(Consumes), At(Consumes + 1), now))'
BY CreditIs, PTL
\* The places of the last two cycles, where the credit is taken from.
LEMMA LastCycles ==
    ASSUME CalendarInv
    PROVE  /\ At(Consumes) \in Nat /\ At(Consumes + 1) \in Nat /\ now \in Nat
           /\ At(Consumes) + 56 <= At(Consumes + 1)
           /\ Consumes > 1 => At(Consumes - 1) \in Nat /\ At(Consumes - 1) + 56 <= At(Consumes)
<1>1. /\ Consumes \in Nat \ {0} /\ now \in Nat
      /\ \A n \in 1 .. Consumes + 1 : At(n) \in Nat
      /\ \A n \in 1 .. Consumes : At(n) + 56 <= At(n + 1)
  BY Times
<1>2. Consumes \in 1 .. Consumes + 1 /\ Consumes \in 1 .. Consumes /\ Consumes + 1 \in 1 .. Consumes + 1
  BY <1>1
<1>3. ASSUME Consumes > 1
      PROVE  At(Consumes - 1) \in Nat /\ At(Consumes - 1) + 56 <= At(Consumes)
  <2>1. /\ Consumes - 1 \in 1 .. Consumes + 1 /\ Consumes - 1 \in 1 .. Consumes
        /\ (Consumes - 1) + 1 = Consumes
    BY <1>1, <1>3
  <2>2. At(Consumes - 1) + 56 <= At((Consumes - 1) + 1)
    BY <1>1, <2>1
  <2>3. QED
    BY <1>1, <2>1, <2>2
<1>4. QED
  BY <1>1, <1>2, <1>3

\* The credit is the worth of at most two cycles, of one when the last runs.
CreditBounded ==
    ~Panics => /\ Credit \in Int /\ Credit >= 0
               /\ Credit <= 2 * Price /\ (now >= At(Consumes) => Credit <= Price)

LEMMA CreditIsBounded == CalendarInv /\ LastBegan => CreditBounded
<1>1. SUFFICES ASSUME CalendarInv, LastBegan, ~Panics PROVE CreditBounded
  BY DEF CreditBounded
<1>2. Price \in Nat
  BY ConstantsPositive
<1>3. PICK p \in Nat, a \in Nat, t \in Nat :
        p = At(Consumes) /\ a = At(Consumes + 1) /\ t = now /\ p + 56 <= a
  BY <1>1, LastCycles
<1>4. CASE t > a
  <2>1. Credit = 0
    BY <1>1, <1>3, <1>4, CreditIs
  <2>2. QED
    BY <1>2, <2>1 DEF CreditBounded
<1>5. CASE t <= a /\ p <= t
  <2>1. Credit = Worth(p, a, t)
    BY <1>1, <1>3, <1>5, CreditIs
  <2>2. Worth(p, a, t) \in Int /\ Worth(p, a, t) >= 0 /\ Worth(p, a, t) <= Price
    BY <1>3, <1>5, WorthInside
  <2>3. QED
    BY <1>2, <2>1, <2>2 DEF CreditBounded
<1>6. CASE t < p
  <2>1. Consumes > 1
    BY <1>1, <1>3, <1>6, CreditIs
  <2>2. PICK o \in Nat : o = At(Consumes - 1) /\ o + 56 <= p
    BY <1>1, <1>3, <2>1, LastCycles
  <2>3. o <= t
    BY <1>1, <1>3, <2>1, <2>2 DEF LastBegan
  <2>4. ~ now > At(Consumes + 1) /\ now < At(Consumes)
    BY <1>3, <1>6
  <2>5. Credit = Worth(o, p, t) + Price
    BY <1>1, <1>3, <2>2, <2>4, CreditIs
  <2>6. Worth(o, p, t) \in Int /\ Worth(o, p, t) >= 0 /\ Worth(o, p, t) <= Price
    BY <1>3, <1>6, <2>2, <2>3, WorthInside
  <2>7. ~ now >= At(Consumes)
    BY <1>3, <1>6
  <2>8. QED
    BY <1>2, <2>5, <2>6, <2>7 DEF CreditBounded
<1>7. QED
  BY <1>3, <1>4, <1>5, <1>6

LEMMA CreditIsBoundedNext == (CalendarInv /\ LastBegan => CreditBounded)'
BY CreditIsBounded, PTL

LEMMA CreditFalls ==
    ASSUME CalendarInv, LastBegan, Pass, CalendarInv', ~Panics
    PROVE  Credit' <= Credit
<1>0. ~Panics'
  BY PanicsEarlyNext DEF Pass
<1>1. Price \in Nat
  BY ConstantsPositive
<1>2. PICK p \in Nat, a \in Nat, t \in Nat :
        p = At(Consumes) /\ a = At(Consumes + 1) /\ t = now /\ p + 56 <= a
  BY LastCycles
<1>3. UNCHANGED dues /\ now' = t + 1
  BY <1>2 DEF Pass
<1>4. Consumes' = Consumes /\ At(Consumes)' = p /\ At(Consumes + 1)' = a
  BY <1>2, <1>3 DEF Consumes, At
<1>5. Credit \in Int /\ Credit >= 0
  BY CreditIsBounded DEF CreditBounded
<1>6. CASE t + 1 > a
  <2>1. Credit' = 0
    BY <1>3, <1>4, <1>6, <1>0, CreditIsNext
  <2>2. QED
    BY <1>5, <2>1
<1>7. CASE t + 1 <= a /\ p <= t
  <2>1. ~ now > At(Consumes + 1) /\ ~ now < At(Consumes)
    BY <1>2, <1>7
  <2>2. Credit = Worth(p, a, t)
    BY <1>2, <2>1, CreditIs
  <2>3. ~ now' > At(Consumes + 1)' /\ ~ now' < At(Consumes)'
    BY <1>2, <1>3, <1>4, <1>7
  <2>4. Credit' = Worth(p, a, t + 1)
    BY <1>3, <1>4, <2>3, <1>0, CreditIsNext
  <2>5. Worth(p, a, t + 1) <= Worth(p, a, t)
    BY <1>2, WorthFalls
  <2>6. QED
    BY <2>2, <2>4, <2>5
<1>8. CASE t < p
  <2>1. Consumes > 1
    BY <1>2, <1>8, CreditIs
  <2>2. PICK o \in Nat : o = At(Consumes - 1) /\ o + 56 <= p
    BY <1>2, <2>1, LastCycles
  <2>3. At(Consumes - 1)' = o
    BY <1>3, <2>2 DEF Consumes, At
  <2>4. ~ now > At(Consumes + 1) /\ now < At(Consumes)
    BY <1>2, <1>8
  <2>5. Credit = Worth(o, p, t) + Price
    BY <1>2, <2>2, <2>4, CreditIs
  <2>6. CASE t + 1 < p
    <3>1. ~ now' > At(Consumes + 1)' /\ now' < At(Consumes)'
      BY <1>2, <1>3, <1>4, <2>6
    <3>2. Credit' = Worth(o, p, t + 1) + Price
      BY <1>3, <1>4, <2>3, <3>1, <1>0, CreditIsNext
    <3>3. Worth(o, p, t + 1) <= Worth(o, p, t)
      BY <1>2, <2>2, WorthFalls
    <3>4. Worth(o, p, t + 1) \in Int
      BY <1>2, <2>2, <2>6, WorthInside
    <3>5. Worth(o, p, t) \in Int
      BY <1>2, <1>8, <2>2, WorthInside
    <3>6. QED
      BY <1>1, <2>5, <3>2, <3>3, <3>4, <3>5
  <2>7. CASE t + 1 = p
    <3>1. ~ now' > At(Consumes + 1)' /\ ~ now' < At(Consumes)'
      BY <1>2, <1>3, <1>4, <2>7
    <3>2. Credit' = Worth(p, a, p)
      BY <1>3, <1>4, <2>7, <3>1, <1>0, CreditIsNext
    <3>3. Worth(p, a, p) = Price
      BY <1>2, WorthAtEnds
    <3>4. Worth(o, p, t) \in Int /\ Worth(o, p, t) >= 0
      BY <1>2, <1>8, <2>2, WorthInside
    <3>5. QED
      BY <1>1, <2>5, <3>2, <3>3, <3>4
  <2>8. QED
    BY <1>2, <1>8, <2>6, <2>7
<1>9. QED
  BY <1>2, <1>6, <1>7, <1>8

LEMMA CreditRises ==
    ASSUME RenewMargin <= 28, CalendarInv, Renew, CalendarInv', now <= At(Consumes + 1), ~Panics
    PROVE  Credit' = Credit + Price
<1>0. ~Panics'
  <2>1. Consumes' = Consumes + 1 /\ Consumes \in Nat \ {0}
    BY Times, RenewAdds
  <2>2. Consumes' # 1
    BY <2>1
  <2>3. QED
    BY <2>2, PanicsEarlyNext
<1>1. Price \in Nat
  BY ConstantsPositive
<1>2. PICK p \in Nat, a \in Nat, t \in Nat :
        p = At(Consumes) /\ a = At(Consumes + 1) /\ t = now /\ p + 56 <= a
  BY LastCycles
<1>3. p <= t /\ t <= a
  BY <1>2, RenewedInLastCycle
<1>4. Credit = Worth(p, a, t)
  <2>1. ~ now > At(Consumes + 1) /\ ~ now < At(Consumes)
    BY <1>2, <1>3
  <2>2. QED
    BY <1>2, <2>1, CreditIs
<1>5. PICK b \in Nat : dues'[Consumes + 2].at = b /\ a + 56 <= b
  <2> DEFINE u == extendTime(dues[Consumes + 1], Start)
  <2>1. dues'[Consumes + 2] = u /\ u.at - dues[Consumes + 1].at \in 56 .. 62
        /\ DueIs(Consumes + 1, u, Start)
    BY RenewAdds
  <2> HIDE DEF u
  <2>2. u.at \in Nat
    BY <2>1 DEF DueIs, Date
  <2>3. u.at - a \in 56 .. 62
    BY <1>2, <2>1 DEF At
  <2>4. a + 56 <= u.at
    BY <1>2, <2>2, <2>3
  <2>5. QED
    BY <2>1, <2>2, <2>4
<1>6. /\ Consumes' = Consumes + 1 /\ now' = t
      /\ At(Consumes)' = a /\ At(Consumes + 1)' = b /\ At(Consumes - 1)' = p
  <2>1. /\ Consumes' = Consumes + 1 /\ now' = now
        /\ \A n \in 1 .. Consumes + 1 : dues'[n] = dues[n]
    BY RenewAdds, RenewKeepsTimes
  <2>2. Consumes \in Nat \ {0}
    BY Times
  <2>3. /\ Consumes' - 1 = Consumes /\ Consumes' + 1 = Consumes + 2
        /\ Consumes \in 1 .. Consumes + 1 /\ Consumes + 1 \in 1 .. Consumes + 1
    BY <2>1, <2>2
  <2>4. QED
    BY <1>2, <1>5, <2>1, <2>3 DEF At
<1>7. CASE t < a
  <2>1. ~ now' > At(Consumes + 1)' /\ now' < At(Consumes)'
    BY <1>2, <1>5, <1>6, <1>7
  <2>2. Credit' = Worth(p, a, t) + Price
    BY <1>6, <2>1, <1>0, CreditIsNext
  <2>3. QED
    BY <1>4, <2>2
<1>8. CASE t = a
  <2>1. ~ now' > At(Consumes + 1)' /\ ~ now' < At(Consumes)'
    BY <1>2, <1>5, <1>6, <1>8
  <2>2. Credit' = Worth(a, b, a)
    BY <1>6, <1>8, <2>1, <1>0, CreditIsNext
  <2>3. Worth(a, b, a) = Price /\ Worth(p, a, a) = 0
    BY <1>2, <1>5, WorthAtEnds
  <2>4. QED
    BY <1>1, <1>4, <1>8, <2>2, <2>3
<1>9. QED
  BY <1>2, <1>3, <1>7, <1>8
-----------------------------------------------------------------------------
\* The pages.

LEMMA PagingConstants ==
    /\ Half \in Nat \ {0} /\ MinSize \in Nat \ {0} /\ MaxSize \in Nat \ {0}
    /\ MinSize <= MaxSize /\ MaxConsumes < Half
    /\ \A s \in Sizes : Size(s) \in Nat \ {0}
<1>1. /\ Half \in Nat \ {0} /\ MinSize \in Nat \ {0} /\ MaxSize \in Nat \ {0}
      /\ MinSize <= MaxSize
  BY PagingAssumption
<1>2. Sizes \subseteq Int64 /\ MaxConsumes < Half
  BY WalkAssumption
<1>3. \A s \in Sizes : Size(s) \in Nat \ {0}
  BY <1>1, <1>2 DEF Size, Int64
<1>4. QED
  BY <1>1, <1>2, <1>3

\* A product that is in range does not wrap around.
LEMMA WrapInRange == \A x \in 0 .. Half - 1 : Wrap(x) = x
<1>1. \A x \in Nat, h \in Nat \ {0} : x < h => (x + h) % (2 * h) = x + h
  <2>1. SUFFICES ASSUME NEW x \in Nat, NEW h \in Nat \ {0}, x < h
                 PROVE  (x + h) % (2 * h) = x + h
    OBVIOUS
  <2>2. PICK a \in Nat, b \in Nat \ {0} : a = x + h /\ b = 2 * h /\ a < b
    <3>1. x + h \in Nat /\ 2 * h \in Nat \ {0} /\ x + h < 2 * h
      BY <2>1
    <3>2. QED
      BY <3>1
  <2>3. a % b = a
    BY <2>2
  <2>4. QED
    BY <2>2, <2>3
<1>2. ASSUME NEW x \in 0 .. Half - 1
      PROVE  Wrap(x) = x
  <2>1. Half \in Nat \ {0} /\ x \in Nat /\ x < Half
    BY PagingConstants
  <2>2. (x + Half) % (2 * Half) = x + Half
    BY <1>1, <2>1
  <2>3. QED
    BY <2>1, <2>2 DEF Wrap
<1>3. QED
  BY <1>2

\* A page whose first row was counted begins where the page before it ended.
LEMMA PageOf ==
    ASSUME NEW count \in Nat, count <= MaxConsumes,
           NEW pg \in Nat \ {0}, NEW s \in Sizes, (pg - 1) * Size(s) < count
    PROVE  LET off == (pg - 1) * Size(s)
               p == Page(count, pg, s) IN
           /\ p.offset = off
           /\ p.limit = IF off + Size(s) > count THEN count - off ELSE Size(s)
<1>1. PICK S \in Nat \ {0} : S = Size(s)
  BY PagingConstants
<1>2. PICK k \in Nat : k = pg - 1
  <2>1. pg - 1 \in Nat
    OBVIOUS
  <2>2. QED
    BY <2>1
<1>3. PICK off \in Nat : off = k * S
  <2>1. k * S \in Nat
    BY <1>1, <1>2
  <2>2. QED
    BY <2>1
<1>4. off = (pg - 1) * Size(s) /\ off < count
  BY <1>1, <1>2, <1>3
<1>5. Offset(pg, s) = off
  <2>1. off \in 0 .. Half - 1
    BY <1>4, PagingConstants, ConstantsPositive
  <2>2. ~ pg < 1
    OBVIOUS
  <2>3. Wrap(off) = off
    BY <2>1, WrapInRange
  <2>4. QED
    BY <1>4, <2>2, <2>3 DEF Offset
<1>6. ValidOffset(count, off, S) = off
  BY <1>4 DEF ValidOffset, Floor
<1>7. ValidLimit(count, off, S) = IF off + S > count THEN count - off ELSE S
  BY DEF ValidLimit
<1>8. Page(count, pg, s) = [offset |-> off, limit |-> ValidLimit(count, off, S)]
  BY <1>1, <1>5, <1>6 DEF Page
<1>9. QED
  BY <1>1, <1>4, <1>7, <1>8

-----------------------------------------------------------------------------
\* The walk.

WalkType ==
    /\ walk \in {"no", "ask", "counted", "over"}
    /\ page \in 1 .. MaxConsumes
    /\ size \in Sizes
    /\ {total, first, torn} \subseteq 0 .. MaxConsumes
    /\ seen \subseteq 1 .. MaxConsumes

LEMMA TypeIs == TypeOK <=> CycleTypeOK /\ WalkType
BY DEF TypeOK, WalkType
LEMMA WalkTypes ==
    ASSUME WalkType
    PROVE  /\ page \in Nat \ {0} /\ total \in Nat /\ first \in Nat /\ torn \in Nat
           /\ total <= MaxConsumes /\ first <= MaxConsumes /\ torn <= MaxConsumes
           /\ Size(size) \in Nat \ {0} /\ MaxConsumes \in Nat \ {0}
BY ConstantsPositive, PagingConstants DEF WalkType

LEMMA BeginWalk ==
    ASSUME CalendarInv, WalkType, WalkInv, Begin
    PROVE  WalkType' /\ WalkInv'
<1>1. /\ walk = "no" /\ walk' = "ask" /\ first' = Consumes
      /\ UNCHANGED <<cycleVars, page, size, total, seen, torn>>
  BY DEF Begin
<1>2. Consumes \in Nat \ {0} /\ Consumes <= MaxConsumes /\ Consumes' = Consumes
  BY <1>1, Times DEF cycleVars, Consumes
<1>3. MaxConsumes \in Nat /\ Size(size) \in Nat \ {0}
  BY WalkTypes
<1>4. WalkType'
  BY <1>1, <1>2, <1>3 DEF WalkType
<1>5. page = 1 /\ (page - 1) * Size(size) = 0
  BY <1>1, <1>3 DEF WalkInv
<1>6. (page' - 1) * Size(size') = 0
  BY <1>1, <1>5
<1>7. PageThere'
  BY <1>1, <1>2, <1>6 DEF PageThere
<1>8. ShownTo((page - 1) * Size(size))'
  BY <1>1, <1>2, <1>6 DEF ShownTo
<1>9. QED
  BY <1>1, <1>2, <1>4, <1>7, <1>8 DEF WalkInv, WalkShowsAll

LEMMA CountWalk ==
    ASSUME CalendarInv, WalkType, WalkInv, Count
    PROVE  WalkType' /\ WalkInv'
<1>1. /\ walk = "ask" /\ walk' = "counted" /\ total' = Consumes
      /\ UNCHANGED <<cycleVars, page, size, first, seen, torn>>
  BY DEF Count
<1>2. Consumes \in Nat \ {0} /\ Consumes <= MaxConsumes /\ Consumes' = Consumes
  BY <1>1, Times DEF cycleVars, Consumes
<1>3. MaxConsumes \in Nat /\ torn \in Nat
  BY WalkTypes
<1>4. WalkType'
  BY <1>1, <1>2, <1>3 DEF WalkType
<1>5. PageThere /\ ShownTo((page - 1) * Size(size))
  BY <1>1 DEF WalkInv
<1>6. PageThere'
  BY <1>1, <1>2, <1>5 DEF PageThere
<1>7. ShownTo((page - 1) * Size(size))'
  BY <1>1, <1>2, <1>5 DEF ShownTo
<1>8. total' <= Consumes' /\ Consumes' - total' <= torn'
  BY <1>1, <1>2, <1>3
<1>9. QED
  BY <1>1, <1>2, <1>4, <1>6, <1>7, <1>8 DEF WalkInv, WalkShowsAll

\* A renewal pushes the rows on, those that were shown among them.
LEMMA RenewWalk ==
    ASSUME CalendarInv, WalkType, WalkInv, RenewMeanwhile, CalendarInv'
    PROVE  WalkType' /\ WalkInv'
<1>1. /\ Renew
      /\ torn' = IF walk = "counted" THEN torn + 1 ELSE torn
      /\ UNCHANGED <<walk, page, size, total, first, seen>>
  BY DEF RenewMeanwhile
<1>2. Consumes' = Consumes + 1
  BY <1>1, RenewAdds
<1>3. Consumes \in Nat \ {0} /\ Consumes < MaxConsumes
  BY <1>1, Times DEF Renew
<1>4. MaxConsumes \in Nat /\ torn \in Nat /\ total \in Nat /\ first \in Nat
  BY WalkTypes
<1>5. torn < Consumes /\ first <= Consumes
  BY DEF WalkInv
<1>6. torn' \in 0 .. MaxConsumes /\ torn' < Consumes' /\ first' <= Consumes'
  BY <1>1, <1>2, <1>3, <1>4, <1>5
<1>7. WalkType'
  BY <1>1, <1>6 DEF WalkType
<1>8. ASSUME walk \in {"ask", "counted"}
      PROVE  PageThere' /\ ShownTo((page - 1) * Size(size))'
  <2>1. PICK gone \in Nat : gone = (page - 1) * Size(size)
    <3>1. page \in Nat \ {0} /\ Size(size) \in Nat
      BY WalkTypes
    <3>2. PICK k \in Nat, S \in Nat : k = page - 1 /\ S = Size(size)
      <4>1. page - 1 \in Nat
        BY <3>1
      <4>2. QED
        BY <3>1, <4>1
    <3>3. k * S \in Nat
      OBVIOUS
    <3>4. QED
      BY <3>2, <3>3
  <2>2. gone < (IF walk = "counted" THEN total ELSE Consumes) /\ ShownTo(gone)
    BY <1>8, <2>1 DEF WalkInv, PageThere
  <2>3. (page' - 1) * Size(size') = gone
    BY <1>1, <2>1
  <2>4. gone < (IF walk' = "counted" THEN total' ELSE Consumes')
    BY <1>1, <1>2, <1>3, <1>4, <2>2
  <2>5. \A x \in 1 .. first : x > (Consumes + 1) - gone => x \in seen
    <3>1. \A x \in 1 .. first : x > (Consumes + 1) - gone => x > Consumes - gone
      BY <1>3, <1>4
    <3>2. QED
      BY <2>2, <3>1 DEF ShownTo
  <2>6. ShownTo((page - 1) * Size(size))'
    <3>1. Consumes' - gone = (Consumes + 1) - gone
      BY <1>2, Zenon
    <3>2. \A x \in 1 .. first' : x > Consumes' - gone => x \in seen'
      BY <1>1, <2>5, <3>1, Zenon
    <3>3. QED
      BY <2>3, <3>2 DEF ShownTo
  <2>7. QED
    BY <2>3, <2>4, <2>6 DEF PageThere
<1>9. walk = "counted" => total' <= Consumes' /\ Consumes' - total' <= torn'
  BY <1>1, <1>2, <1>3, <1>4 DEF WalkInv
<1>10. WalkShowsAll'
  <2>1. walk = "over" => torn' = torn /\ torn + 1 .. first \subseteq seen
    BY <1>1 DEF WalkInv, WalkShowsAll
  <2>2. QED
    BY <1>1, <2>1 DEF WalkShowsAll
<1>11. (walk = "no" => page = 1)'
  BY <1>1 DEF WalkInv
<1>12. QED
  BY <1>1, <1>6, <1>7, <1>8, <1>9, <1>10, <1>11 DEF WalkInv

\* A page shows the rows up to the next page, or to the end.
LEMMA RowsWalk ==
    ASSUME CalendarInv, WalkType, WalkInv, Rows
    PROVE  WalkType' /\ WalkInv'
<1>1. /\ walk = "counted"
      /\ seen' = seen \union Shown(Page(total, page, size))
      /\ page * Size(size) < total => walk' = "ask" /\ page' = page + 1
      /\ ~ page * Size(size) < total => walk' = "over" /\ page' = page
      /\ UNCHANGED <<cycleVars, size, total, first, torn>>
  BY DEF Rows
<1>2. PICK C \in Nat \ {0} : C = Consumes /\ C <= MaxConsumes
  BY Times
<1>3. Consumes' = C
  BY <1>1, <1>2 DEF cycleVars, Consumes
<1>4. PICK S \in Nat \ {0}, pg \in Nat \ {0}, n \in Nat, f \in Nat, r \in Nat, top \in Nat \ {0} :
        /\ S = Size(size) /\ pg = page /\ n = total /\ f = first /\ r = torn /\ top = MaxConsumes
        /\ n <= top
  BY WalkTypes
<1>5. PICK off \in Nat, next \in Nat : off = (pg - 1) * S /\ next = pg * S /\ next = off + S /\ pg <= next
  <2>1. (pg - 1) * S \in Nat /\ pg * S \in Nat /\ pg * S = (pg - 1) * S + S /\ pg <= pg * S
    <3>1. PICK k \in Nat : k = pg - 1 /\ pg = k + 1
      <4>1. pg - 1 \in Nat /\ pg = (pg - 1) + 1
        OBVIOUS
      <4>2. QED
        BY <4>1
    <3>2. k * S \in Nat /\ (k + 1) * S = k * S + S /\ k <= k * S
      <4>1. k * S \in Nat /\ (k + 1) * S = k * S + S
        OBVIOUS
      <4>2. k * 1 <= k * S
        <5>1. 1 * k <= S * k
          BY TimesGrows
        <5>2. QED
          BY <5>1
      <4>3. QED
        BY <4>1, <4>2
    <3>3. QED
      BY <3>1, <3>2
  <2>2. QED
    BY <2>1
<1>6. /\ off < n /\ n <= C /\ C - n <= r /\ f <= C /\ r < C
      /\ \A x \in 1 .. f : x > C - off => x \in seen
  <2>1. PageThere /\ ShownTo(off) /\ total <= Consumes /\ Consumes - total <= torn
        /\ first <= Consumes /\ torn < Consumes
    BY <1>1, <1>4, <1>5 DEF WalkInv
  <2>2. off < total
    BY <1>1, <1>4, <1>5, <2>1 DEF PageThere
  <2>3. QED
    BY <1>2, <1>4, <2>1, <2>2 DEF ShownTo
<1>7. PICK lim \in Nat \ {0} : /\ lim = IF off + S > n THEN n - off ELSE S
                               /\ Shown(Page(total, page, size)) = {C - at : at \in off .. off + lim - 1}
  <2>1. size \in Sizes
    BY DEF WalkType
  <2>2. (pg - 1) * Size(size) < n
    BY <1>4, <1>5, <1>6
  <2>3. /\ Page(n, pg, size).offset = (pg - 1) * Size(size)
        /\ Page(n, pg, size).limit = IF (pg - 1) * Size(size) + Size(size) > n
                                     THEN n - (pg - 1) * Size(size) ELSE Size(size)
    BY <1>4, <2>1, <2>2, PageOf
  <2>4. Page(n, pg, size).offset = off /\ Page(n, pg, size).limit = IF off + S > n THEN n - off ELSE S
    BY <1>4, <1>5, <2>3
  <2>5. (IF off + S > n THEN n - off ELSE S) \in Nat \ {0}
    BY <1>6
  <2>6. \A p : Shown(p) = {C - at : at \in p.offset .. p.offset + p.limit - 1}
    BY <1>2 DEF Shown
  <2>7. Shown(Page(n, pg, size))
          = {C - at : at \in off .. off + (IF off + S > n THEN n - off ELSE S) - 1}
    BY <2>4, <2>6
  <2>8. Shown(Page(total, page, size))
          = {C - at : at \in off .. off + (IF off + S > n THEN n - off ELSE S) - 1}
    BY <1>4, <2>7
  <2>9. QED
    BY <2>5, <2>8
<1>8. off + lim <= n
  BY <1>7
<1>9. seen' \subseteq 1 .. top
  <2>1. \A at \in off .. off + lim - 1 : C - at \in 1 .. top
    BY <1>2, <1>4, <1>6, <1>8
  <2>2. seen \subseteq 1 .. top
    BY <1>4 DEF WalkType
  <2>3. QED
    BY <1>1, <1>7, <2>1, <2>2
<1>10. ASSUME NEW x \in 1 .. f, x > C - (off + lim)
       PROVE  x \in seen'
  <2>1. CASE x > C - off
    BY <1>1, <1>6, <2>1
  <2>2. CASE x <= C - off
    <3>1. C - x \in off .. off + lim - 1 /\ C - (C - x) = x
      BY <1>6, <1>10, <2>2
    <3>2. x \in {C - at : at \in off .. off + lim - 1}
      BY <3>1
    <3>3. QED
      BY <1>1, <1>7, <3>2
  <2>3. QED
    BY <2>1, <2>2
<1>11. first' = f /\ torn' = r /\ total' = n /\ size' = size /\ torn' < Consumes' /\ first' <= Consumes'
  BY <1>1, <1>3, <1>4, <1>6
<1>12. CASE next < n
  <2>1. walk' = "ask" /\ page' = pg + 1
    BY <1>1, <1>4, <1>5, <1>12
  <2>2. pg + 1 \in 1 .. top
    BY <1>4, <1>5, <1>12
  <2>3. WalkType'
    BY <1>4, <1>9, <1>11, <2>1, <2>2 DEF WalkType
  <2>4. (page' - 1) * Size(size') = next
    <3>1. (pg + 1) - 1 = pg
      OBVIOUS
    <3>2. QED
      BY <1>4, <1>5, <1>11, <2>1, <3>1
  <2>5. PageThere'
    BY <1>3, <1>6, <1>12, <2>1, <2>4 DEF PageThere
  <2>6. lim = S /\ off + lim = next
    BY <1>5, <1>7, <1>12
  <2>7. ShownTo((page - 1) * Size(size))'
    BY <1>3, <1>10, <1>11, <2>4, <2>6 DEF ShownTo
  <2>8. QED
    BY <1>11, <2>1, <2>3, <2>5, <2>7 DEF WalkInv, WalkShowsAll
<1>13. CASE ~ next < n
  <2>1. walk' = "over" /\ page' = page
    BY <1>1, <1>4, <1>5, <1>13
  <2>2. WalkType'
    <3>1. page' \in 1 .. MaxConsumes /\ size' \in Sizes /\ {total', first', torn'} \subseteq 0 .. MaxConsumes
      BY <1>1, <2>1 DEF WalkType
    <3>2. QED
      BY <1>4, <1>9, <2>1, <3>1 DEF WalkType
  <2>3. off + lim = n
    BY <1>5, <1>6, <1>7, <1>13
  <2>4. r + 1 .. f \subseteq seen'
    <3>1. ASSUME NEW x \in r + 1 .. f
          PROVE  x \in seen'
      <4>1. x \in 1 .. f /\ x > C - n
        BY <1>6
      <4>2. QED
        BY <1>10, <2>3, <4>1
    <3>2. QED
      BY <3>1
  <2>5. WalkShowsAll'
    BY <1>11, <2>4 DEF WalkShowsAll
  <2>6. QED
    BY <1>11, <2>1, <2>2, <2>5 DEF WalkInv
<1>14. QED
  BY <1>12, <1>13
-----------------------------------------------------------------------------
\* Each step of the report is a step of the calendar or leaves it.
LEMMA NextIsCycleNext == [Next]_vars => CycleNext
BY DEF Next, vars, CycleNext, RenewMeanwhile, Tick, Begin, Count, Rows

LEMMA ReportInit == Init => ReportInv
<1>1. SUFFICES ASSUME Init PROVE ReportInv
  OBVIOUS
<1>2. CalendarInv
  BY <1>1, CalendarInit DEF Init
<1>3. /\ walk = "no" /\ page = 1 /\ size \in Sizes
      /\ total = 0 /\ first = 0 /\ seen = {} /\ torn = 0
  BY <1>1 DEF Init
<1>4. MaxConsumes \in Nat \ {0} /\ Consumes \in Nat \ {0}
  BY <1>2, ConstantsPositive, Times
<1>5. WalkType /\ WalkInv
  BY <1>3, <1>4 DEF WalkType, WalkInv, WalkShowsAll
<1>6. QED
  BY <1>2, <1>5, TypeIs DEF ReportInv, CalendarInv

LEMMA ReportStep == ReportInv /\ [Next]_vars => ReportInv'
<1>1. SUFFICES ASSUME ReportInv, [Next]_vars PROVE ReportInv'
  OBVIOUS
<1>2. CalendarInv /\ WalkType /\ WalkInv
  BY <1>1, TypeIs DEF ReportInv
<1>3. CalendarInv'
  BY <1>1, <1>2, NextIsCycleNext, CalendarStep
<1>4. WalkType' /\ WalkInv'
  <2>1. CASE RenewMeanwhile
    BY <1>2, <1>3, <2>1, RenewWalk
  <2>2. CASE Tick \/ UNCHANGED vars
    <3>1. UNCHANGED walkVars /\ Consumes' = Consumes
      BY <2>2 DEF Tick, Pass, vars, cycleVars, Consumes
    <3>2. QED
      BY <1>2, <3>1 DEF walkVars, WalkType, WalkInv, PageThere, ShownTo, WalkShowsAll
  <2>3. CASE Begin
    BY <1>2, <2>3, BeginWalk
  <2>4. CASE Count
    BY <1>2, <2>4, CountWalk
  <2>5. CASE Rows
    BY <1>2, <2>5, RowsWalk
  <2>6. QED
    BY <1>1, <2>1, <2>2, <2>3, <2>4, <2>5 DEF Next
<1>5. TypeOK'
  <2>1. (TypeOK <=> CycleTypeOK /\ WalkType)'
    BY TypeIs, PTL
  <2>2. CycleTypeOK'
    BY <1>3 DEF CalendarInv
  <2>3. QED
    BY <1>4, <2>1, <2>2
<1>6. QED
  BY <1>3, <1>4, <1>5 DEF ReportInv

(***************************************************************************)
(* The invariant of the report: every deadline is a date of the month that *)
(* extendTime (usage/usage.go) gives it, a cycle has 28 to 31 days, and    *)
(* the pages that getConsumingList gave show the rows up to the next page, *)
(* but for those that renewals pushed on between a count and its rows.     *)
(***************************************************************************)
THEOREM ReportInvariant == Spec => []ReportInv
<1>1. Init => ReportInv
  BY ReportInit
<1>2. ReportInv /\ [Next]_vars => ReportInv'
  BY ReportStep
<1>3. QED
  BY <1>1, <1>2, PTL DEF Spec

(***************************************************************************)
(* The types of the calendar and of the walk: every deadline that          *)
(* extendTime gives exists, and the walk asks for no page past the last.   *)
(***************************************************************************)
THEOREM ReportTypeOK == Spec => []TypeOK
<1>1. ReportInv => TypeOK
  BY DEF ReportInv
<1>2. QED
  BY <1>1, ReportInvariant, PTL

(***************************************************************************)
(* However many cycles an order is renewed for, the n-th deadline is n     *)
(* months after the start, on its day or on the last day of a shorter      *)
(* month (extendTime of usage/usage.go).                                   *)
(***************************************************************************)
THEOREM DeadlinesKeepDay == Spec => []DeadlinesFollowStart
<1>1. ReportInv => DeadlinesFollowStart
  BY DEF ReportInv, CalendarInv
<1>2. QED
  BY <1>1, ReportInvariant, PTL

(***************************************************************************)
(* A walk through the pages of getConsumingList that is over has shown     *)
(* every consume that was there when it began, but for as many of the      *)
(* oldest as were added between a count and its rows, for every size of    *)
(* the pages and every bound of the integers that the counts stay below.   *)
(***************************************************************************)
THEOREM PagesShowAll == Spec => []WalkShowsAll
<1>1. ReportInv => WalkShowsAll
  BY DEF ReportInv, WalkInv
<1>2. QED
  BY <1>1, ReportInvariant, PTL

(***************************************************************************)
(* At every moment the list of an order's consumes is not empty, so every  *)
(* page a client may ask getConsumingList for is inside it.                *)
(***************************************************************************)
THEOREM PagesStayInside == Spec => []PagesInside
<1>1. ReportInv => PagesInside
  <2>1. SUFFICES ASSUME ReportInv PROVE PagesInside
    OBVIOUS
  <2>2. Consumes \in Nat \ {0}
    BY <2>1, Times DEF ReportInv
  <2>3. QED
    BY <2>2, PagesAreInside DEF PagesInside
<1>2. QED
  BY <1>1, ReportInvariant, PTL

(***************************************************************************)
(* The cycle before the last consume's has begun, if there is one, and the *)
(* start is past: the margin in which the maintainer renews is shorter     *)
(* than any month.                                                         *)
(***************************************************************************)
THEOREM LastCycleBegan ==
    ASSUME RenewMargin <= 28
    PROVE  Spec => []LastBegan
<1>1. Init => LastBegan
  BY LastBeganInit DEF Init
<1>2. ReportInv /\ LastBegan /\ [Next]_vars => LastBegan'
  BY NextIsCycleNext, LastBeganStep DEF ReportInv
<1>3. QED
  BY <1>1, <1>2, ReportInvariant, PTL DEF Spec

(***************************************************************************)
(* createOrder (api/maintain.go) panics over a missing lastlastConsume in  *)
(* the moment before a start that was rounded up and at no other: wherever *)
(* else it takes lastlastConsume, that is there and its cycle runs.        *)
(***************************************************************************)
THEOREM PanicsBeforeStart ==
    ASSUME RenewMargin <= 28
    PROVE  Spec => []LastLastRuns
<1>1. ReportInv /\ LastBegan => LastLastRuns
  BY LastLastByInv DEF ReportInv
<1>2. QED
  BY <1>1, ReportInvariant, LastCycleBegan, PTL

(***************************************************************************)
(* The credit of a switch (calRemainingMoney of api/maintain.go), wherever *)
(* the code comes to one without a panic, falls while time passes, rises   *)
(* by the price when the order is renewed in time and is never more than   *)
(* the price of the cycles that are not over, for every price, start and   *)
(* margin of at most 28 days.                                              *)
(***************************************************************************)
THEOREM SwitchCredit ==
    ASSUME RenewMargin <= 28
    PROVE  Spec => CreditIsFair
<1> DEFINE Fair ==
      /\ Consumes' = Consumes /\ ~Panics => Credit' <= Credit
      /\ Consumes' = Consumes + 1 /\ ~Panics /\ now <= At(Consumes + 1)
             => Credit' = Credit + Price
      /\ ~Panics' => Credit' <= 2 * Price /\ (now' >= At(Consumes)' => Credit' <= Price)
<1>1. ASSUME ReportInv, LastBegan, [Next]_vars, ReportInv', LastBegan'
      PROVE  [Fair]_cycleVars
  <2>1. CalendarInv /\ CalendarInv'
    BY <1>1 DEF ReportInv
  <2>2. ~Panics' => Credit' <= 2 * Price /\ (now' >= At(Consumes)' => Credit' <= Price)
    <3>1. CreditBounded'
      BY <1>1, <2>1, CreditIsBoundedNext
    <3>2. QED
      BY <3>1 DEF CreditBounded
  <2>3. Consumes \in Nat
    BY <2>1, Times
  <2>4. CASE UNCHANGED cycleVars
    BY <2>4
  <2>5. CASE Pass
    <3>1. Consumes' = Consumes
      BY <2>5 DEF Pass, Consumes
    <3>2. ~ Consumes' = Consumes + 1
      BY <2>3, <3>1
    <3>3. ~Panics => Credit' <= Credit
      BY <1>1, <2>1, <2>5, CreditFalls
    <3>4. QED
      BY <2>2, <3>2, <3>3
  <2>6. CASE Renew
    <3>1. Consumes' = Consumes + 1
      BY <2>1, <2>6, RenewAdds
    <3>2. ~ Consumes' = Consumes
      BY <2>3, <3>1
    <3>3. ~Panics /\ now <= At(Consumes + 1) => Credit' = Credit + Price
      BY <2>1, <2>6, CreditRises
    <3>4. QED
      BY <2>2, <3>2, <3>3
  <2>7. CycleNext
    BY <1>1, NextIsCycleNext
  <2>8. QED
    BY <2>4, <2>5, <2>6, <2>7 DEF CycleNext
<1>2. QED
  BY <1>1, ReportInvariant, LastCycleBegan, PTL DEF Spec, CreditIsFair
=============================================================================
