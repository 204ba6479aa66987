-------------------------------- MODULE Paging --------------------------------
(***************************************************************************)
(* The pages of the list queries: optionalOffsetAndSize of api/params.go   *)
(* computes offset and limit from the query, and validateOffsetAndLimit of *)
(* usage/usage.go fits them to the number of rows.  page * size is an      *)
(* int64 product and wraps around.                                         *)
(***************************************************************************)
EXTENDS Integers, TLAPS

CONSTANTS
    Half,               \* 2^63 in the code
    MinSize, MaxSize    \* 1 and 100 in every call of the code

ASSUME PagingAssumption ==
    /\ {Half, MinSize, MaxSize} \subseteq Nat \ {0}
    /\ MinSize <= MaxSize

Int64 == -Half .. Half - 1

Wrap(x) == ((x + Half) % (2 * Half)) - Half

Size(size) == IF size < MinSize THEN MinSize ELSE IF size > MaxSize THEN MaxSize ELSE size

\* Mutant: pages are counted from 0.
OffsetMutant(page, size) == Wrap((IF page < 1 THEN 0 ELSE page) * Size(size))

Offset(page, size) == Wrap((IF page < 1 THEN 0 ELSE page - 1) * Size(size))

\* Mutant: an offset that wrapped around is left negative.
FloorMutant(offset) == offset

Floor(offset) == IF offset < 0 THEN 0 ELSE offset

ValidOffset(count, offset, limit) == Floor(IF offset >= count THEN count - limit ELSE offset)

ValidLimit(count, offset, limit) == IF offset + limit > count THEN count - offset ELSE limit

\* The offset and the limit of the query for the rows.
Page(count, page, size) ==
    LET limit == Size(size)
        offset == ValidOffset(count, Offset(page, size), limit) IN
    [offset |-> offset, limit |-> ValidLimit(count, offset, limit)]

(***************************************************************************)
(* Whatever page and size a client asks for, the query is for one to size  *)
(* rows that were there when they were counted.                            *)
(***************************************************************************)
Inside(count, page, size) ==
    LET p == Page(count, page, size) IN
    /\ p.offset \in 0 .. count - 1
    /\ p.limit \in 1 .. MaxSize
    /\ p.offset + p.limit <= count

-----------------------------------------------------------------------------
(***************************************************************************)
(* Every page of a list that is not empty is inside the list, for every    *)
(* width of the integers and every bound of the sizes.                     *)
(***************************************************************************)
THEOREM PagesAreInside ==
    \A count \in Nat \ {0}, page \in Int64, size \in Int64 : Inside(count, page, size)
<1>1. SUFFICES ASSUME NEW count \in Nat \ {0}, NEW page \in Int64, NEW size \in Int64
               PROVE  Inside(count, page, size)
  OBVIOUS
<1> DEFINE limit == Size(size)
           asked == Offset(page, size)
           offset == ValidOffset(count, asked, limit)
<1>2. Half \in Nat \ {0} /\ MinSize \in Nat \ {0} /\ MaxSize \in Nat \ {0} /\ MinSize <= MaxSize
  BY PagingAssumption
<1>3. limit \in 1 .. MaxSize
  BY <1>2 DEF Size, Int64
<1>4. asked \in Int
  <2>1. \A x \in Int : Wrap(x) \in Int
    BY <1>2 DEF Wrap
  <2>2. (IF page < 1 THEN 0 ELSE page - 1) * limit \in Int
    BY <1>2, <1>3 DEF Int64
  <2>3. QED
    BY <2>1, <2>2 DEF Offset
<1> HIDE DEF limit, asked
<1>5. offset \in 0 .. count - 1
  BY <1>3, <1>4 DEF ValidOffset, Floor
<1> HIDE DEF offset
<1>6. /\ ValidLimit(count, offset, limit) \in 1 .. MaxSize
      /\ offset + ValidLimit(count, offset, limit) <= count
  BY <1>2, <1>3, <1>5 DEF ValidLimit
<1>7. QED
  BY <1>5, <1>6 DEF Inside, Page, limit, asked, offset
=============================================================================
