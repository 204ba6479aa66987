-------------------------------- MODULE Report --------------------------------
(***************************************************************************)
(* A client walks through the pages of QueryAccountConsumingReports for    *)
(* one order while the order is renewed (Cycle).  getConsumingList counts  *)
(* the rows, fits offset and limit to the count (Paging) and queries the   *)
(* rows, the latest first, in another statement.                           *)
(***************************************************************************)
EXTENDS Cycle, Paging

CONSTANT Sizes    \* sizes the client asks for

ASSUME WalkAssumption == Sizes \subseteq Int64 /\ MaxConsumes < Half

VARIABLES
    walk,     \* "no" | "ask" | "counted" | "over"
    page, size,
    total,    \* the count of the last answer
    first,    \* ghost: consumes when the walk began
    seen,     \* ghost: consumes shown so far
    torn      \* ghost: renewals that came between a count and its rows

walkVars == <<walk, page, size, total, first, seen, torn>>
vars == <<cycleVars, walkVars>>

Init ==
    /\ CycleInit
    /\ walk = "no" /\ page = 1 /\ size \in Sizes
    /\ total = 0 /\ first = 0 /\ seen = {} /\ torn = 0

Begin ==
    /\ walk = "no"
    /\ walk' = "ask"
    /\ first' = Consumes
    /\ UNCHANGED <<cycleVars, page, size, total, seen, torn>>

Count ==
    /\ walk = "ask"
    /\ walk' = "counted"
    /\ total' = Consumes
    /\ UNCHANGED <<cycleVars, page, size, first, seen, torn>>

\* The row at a position is the consume that many before the last.
Shown(p) == {Consumes - at : at \in p.offset .. p.offset + p.limit - 1}

Rows ==
    /\ walk = "counted"
    /\ seen' = seen \union Shown(Page(total, page, size))
    /\ IF page * Size(size) < total
       THEN walk' = "ask" /\ page' = page + 1
       ELSE walk' = "over" /\ UNCHANGED page
    /\ UNCHANGED <<cycleVars, size, total, first, torn>>

RenewMeanwhile ==
    /\ Renew
    /\ torn' = IF walk = "counted" THEN torn + 1 ELSE torn
    /\ UNCHANGED <<walk, page, size, total, first, seen>>

Tick == Pass /\ UNCHANGED walkVars

Next == RenewMeanwhile \/ Tick \/ Begin \/ Count \/ Rows

Spec == Init /\ [][Next]_vars

-----------------------------------------------------------------------------
TypeOK ==
    /\ CycleTypeOK
    /\ walk \in {"no", "ask", "counted", "over"}
    /\ page \in 1 .. MaxConsumes
    /\ size \in Sizes
    /\ {total, first, torn} \subseteq 0 .. MaxConsumes
    /\ seen \subseteq 1 .. MaxConsumes

(***************************************************************************)
(* A walk that is over has shown every consume that was there when it      *)
(* began, whichever were added meanwhile and pushed the pages on; it may   *)
(* miss as many of the oldest as were added between a count and its rows.  *)
(***************************************************************************)
WalkShowsAll == walk = "over" => torn + 1 .. first \subseteq seen

\* Whatever a client asks for, the query is for rows that were counted.
PagesInside == \A p \in Int64, s \in Int64 : Inside(Consumes, p, s)
=============================================================================
