--------------------------- MODULE DestroyBSIProofs ---------------------------
(***************************************************************************)
(* destroyBSI for any number of deployment configs, bindings made during   *)
(* the call and capacity of the channel: it opens as many watches as there *)
(* are bindings to wait for, deletes only after it asked every binding it  *)
(* listed to go, and its result can be relied on.                          *)
(***************************************************************************)
EXTENDS DestroyBSI, SequenceTheorems, TLAPS

Spoken(s) == {s[k] : k \in 1..Len(s)}

LEMMA TailSpoken ==
    ASSUME NEW S, NEW s \in Seq(S), s # <<>>
    PROVE  /\ Head(s) \in Spoken(s) /\ Head(s) \in S
           /\ Tail(s) \in Seq(S) /\ Len(Tail(s)) < Len(s)
           /\ Spoken(Tail(s)) \subseteq Spoken(s)
<1>1. Len(s) \in Nat /\ Len(s) > 0
  BY EmptySeq
<1>2. Tail(s) \in Seq(S) /\ Len(Tail(s)) = Len(s) - 1 /\ Head(s) = s[1]
  BY <1>1, HeadTailProperties
<1>3. \A k \in 1..Len(Tail(s)) : Tail(s)[k] = s[k + 1] /\ k + 1 \in 1..Len(s)
  BY <1>1, <1>2, HeadTailProperties
<1> QED BY <1>1, <1>2, <1>3 DEF Spoken

LEMMA AppendSpoken ==
    ASSUME NEW S, NEW s \in Seq(S), NEW x \in S
    PROVE  /\ Append(s, x) \in Seq(S) /\ Len(Append(s, x)) = Len(s) + 1
           /\ Spoken(Append(s, x)) = Spoken(s) \union {x}
<1>1. /\ Append(s, x) \in Seq(S) /\ Len(Append(s, x)) = Len(s) + 1 /\ Len(s) \in Nat
      /\ \A k \in 1..Len(s) : Append(s, x)[k] = s[k]
      /\ Append(s, x)[Len(s) + 1] = x
  BY AppendProperties
<1> QED BY <1>1 DEF Spoken

LEMMA NothingSpoken ==
    Spoken(<<>>) = {} /\ \A x : Spoken(<<x>>) = {x} /\ <<x>> \in Seq({x})
  BY DEF Spoken

-----------------------------------------------------------------------------
(***************************************************************************)
(* Deletes are refused at most twice, and a delete is for an instance with *)
(* no listed binding, or one whose listed bindings were all asked to go.   *)
(***************************************************************************)
Waiting == pc \in {"wait", "leave"}

Refusals == IF retry THEN 0 ELSE 1

Reported ==
    /\ pc # "done" => refused = Refusals /\ result = "none"
    /\ result = "ok" => bsi # "there"
    /\ result = "error" => hard \/ refused = 2

Asked ==
    /\ pc = "get" => todo = {}
    /\ Waiting => todo = {}
    /\ pc \in {"del1", "del2"} => listed = {} \/ (gaveUp /\ todo = {})

(***************************************************************************)
(* Every watch but the last is canceled, and those to come are untouched.  *)
(***************************************************************************)
WatchesInOrder ==
    /\ Waiting => watch > 0 /\ ~canceled[watch]
    /\ \A w \in Watches : w < watch => canceled[w]
    /\ \A w \in Watches : w > watch =>
          reader[w] = "off" /\ line[w] = "none" /\ statuses[w] = <<>> /\ ~canceled[w]
    /\ \A w \in Watches : reader[w] = "send" => line[w] # "none"
    /\ watch > 0 /\ ~Waiting => canceled[watch]
    /\ ~Waiting => peek = "taken"

(***************************************************************************)
(* A wait that ends well has met an unbound instance.  If a binding is     *)
(* found after that, somebody has made it meanwhile, and that pays for the *)
(* next watch; the retry after a refused delete pays for one more.         *)
(***************************************************************************)
Unbinding ==
    \/ "unbound" \in Spoken(wire)
    \/ peek = "unbound"
    \/ watch > 0 /\ (line[watch] = "unbound" \/ "unbound" \in Spoken(statuses[watch]))

SeenUnbound == (pc = "wait" /\ Unbinding) \/ (pc = "leave" /\ (Unbinding \/ ~gaveUp))

Paid == binds + Refusals + (IF bound = {} THEN 1 ELSE 0)

WatchesPaid ==
    /\ pc # "done" => watch <= binds + Refusals + 1
    /\ pc = "get" => watch <= Paid
    /\ pc = "unbind" => watch <= binds + Refusals
    /\ SeenUnbound => watch <= Paid

DestroyInv == TypeOK /\ Reported /\ Asked /\ WatchesInOrder /\ WatchesPaid
-----------------------------------------------------------------------------
(***************************************************************************)
(* The call, before and after its waits.                                   *)
(***************************************************************************)
LEMMA Numbers ==
    /\ MaxBinds \in Nat /\ Cap \in Nat \ {0}
    /\ MaxWatches = MaxBinds + 2 /\ Watches = 1..MaxWatches
  BY DestroyAssumption DEF MaxWatches, Watches

\* A step of the call outside its waits does not touch the watches.
LEMMA OutsideWaits ==
    ASSUME DestroyInv, ~Waiting, ~Waiting', UNCHANGED <<watch, peek, watchVars>>
    PROVE  WatchesInOrder' /\ ~SeenUnbound'
  BY DEF DestroyInv, WatchesInOrder, SeenUnbound, Waiting, watchVars

LEMMA GetKeeps == ASSUME DestroyInv, Get PROVE DestroyInv'
<1>1. /\ ~Waiting /\ ~Waiting' /\ pc = "get"
      /\ UNCHANGED <<platformVars, retry, refused, hard, watch, peek, watchVars>>
  BY DEF Get, Waiting, Return
<1>2. WatchesInOrder' /\ ~SeenUnbound'
  BY <1>1, OutsideWaits
<1>3. TypeOK'
  BY <1>1 DEF DestroyInv, TypeOK, Get, Return, platformVars, watchVars
<1>4. Reported' /\ Asked'
  BY <1>1 DEF DestroyInv, Reported, Asked, Waiting, Refusals, Get, Return, platformVars
<1>5. WatchesPaid'
  BY <1>1, <1>2, Numbers
  DEF DestroyInv, TypeOK, WatchesPaid, Paid, Refusals, Get, Return, platformVars
<1> QED BY <1>2, <1>3, <1>4, <1>5 DEF DestroyInv

LEMMA ReturnsKeep == ASSUME DestroyInv, GetFails \/ UnbindFails PROVE DestroyInv'
<1>1. /\ ~Waiting /\ ~Waiting' /\ pc' = "done" /\ result' = "error" /\ hard' = TRUE
      /\ UNCHANGED <<platformVars, listed, todo, retry, refused, gaveUp, watch, peek, watchVars>>
  BY DEF GetFails, UnbindFails, Waiting, Return
<1>2. WatchesInOrder' /\ ~SeenUnbound'
  BY <1>1, OutsideWaits
<1>3. TypeOK'
  BY <1>1 DEF DestroyInv, TypeOK, platformVars, watchVars
<1>4. Reported' /\ Asked' /\ WatchesPaid'
  BY <1>1, <1>2 DEF Reported, Asked, Waiting, WatchesPaid
<1> QED BY <1>2, <1>3, <1>4 DEF DestroyInv

LEMMA UnbindKeeps == ASSUME DestroyInv, NEW d \in Dcs, Unbind(d) PROVE DestroyInv'
<1>1. /\ ~Waiting /\ ~Waiting' /\ pc = "unbind" /\ todo' = todo \ {d}
      /\ UNCHANGED <<platformVars, pc, result, listed, retry, refused, hard, gaveUp, watch, peek,
                     watchVars>>
  BY DEF Unbind, Waiting
<1>2. WatchesInOrder' /\ ~SeenUnbound'
  BY <1>1, OutsideWaits
<1>3. TypeOK'
  BY <1>1 DEF DestroyInv, TypeOK, platformVars, watchVars
<1>4. Reported' /\ Asked' /\ WatchesPaid'
  BY <1>1, <1>2 DEF DestroyInv, Reported, Asked, Waiting, WatchesPaid, Refusals, platformVars
<1> QED BY <1>2, <1>3, <1>4 DEF DestroyInv

LEMMA OpenFailsKeeps == ASSUME DestroyInv, OpenFails PROVE DestroyInv'
<1>1. /\ ~Waiting /\ ~Waiting' /\ pc = "unbind" /\ todo = {} /\ gaveUp' = TRUE /\ pc' = "del1"
      /\ UNCHANGED <<platformVars, result, listed, todo, retry, refused, hard, watch, peek,
                     watchVars>>
  BY DEF OpenFails, Unwatched, Waiting
<1>2. WatchesInOrder' /\ ~SeenUnbound'
  BY <1>1, OutsideWaits
<1>3. TypeOK'
  BY <1>1 DEF DestroyInv, TypeOK, platformVars, watchVars
<1>4. Reported' /\ Asked'
  BY <1>1, <1>2 DEF DestroyInv, Reported, Asked, Waiting, Refusals, platformVars
<1>5. WatchesPaid'
  BY <1>1, <1>2 DEF DestroyInv, WatchesPaid, Refusals, platformVars
<1> QED BY <1>2, <1>3, <1>4, <1>5 DEF DestroyInv

LEMMA DeleteKeeps == ASSUME DestroyInv, Delete PROVE DestroyInv'
<1>1. /\ ~Waiting /\ ~Waiting' /\ pc \in {"del1", "del2"}
      /\ \/ pc = "del1" /\ pc' = "del2" /\ result' = result
         \/ pc' = "done" /\ result' = "ok"
      /\ bsi' # "there"
      /\ UNCHANGED <<bound, binds, listed, todo, retry, refused, hard, gaveUp, watch, peek,
                     watchVars>>
  BY DEF Delete, Return, Waiting
<1>2. WatchesInOrder' /\ ~SeenUnbound'
  BY <1>1, OutsideWaits
<1>3. TypeOK'
  BY <1>1 DEF DestroyInv, TypeOK, Delete, watchVars
<1>4. Reported' /\ Asked' /\ WatchesPaid'
  BY <1>1, <1>2 DEF DestroyInv, Reported, Asked, Waiting, WatchesPaid, Refusals
<1> QED BY <1>2, <1>3, <1>4 DEF DestroyInv

LEMMA DeleteRefusedKeeps == ASSUME DestroyInv, DeleteRefused PROVE DestroyInv'
<1>1. /\ ~Waiting /\ ~Waiting' /\ pc \in {"del1", "del2"} /\ refused' = refused + 1
      /\ UNCHANGED <<platformVars, listed, todo, hard, gaveUp, watch, peek, watchVars>>
      /\ TypeOK /\ refused = Refusals /\ result = "none"
  BY DEF DestroyInv, Reported, DeleteRefused, MayRetry, Return, Waiting
<1>2. WatchesInOrder' /\ ~SeenUnbound'
  BY <1>1, OutsideWaits
<1>3. CASE retry
  <2>1. retry' = FALSE /\ pc' = "get" /\ UNCHANGED result /\ refused' = 1
    BY <1>1, <1>3 DEF DeleteRefused, MayRetry, Spent, Refusals
  <2>2. TypeOK'
    <3>1. retry' \in BOOLEAN
      BY <2>1
    <3>2. hard' \in BOOLEAN /\ gaveUp' \in BOOLEAN
      BY <1>1 DEF TypeOK
    <3> QED BY <1>1, <2>1, <3>1, <3>2 DEF TypeOK, platformVars, watchVars
  <2>3. todo' = {} /\ Reported' /\ Asked'
    BY <1>1, <2>1 DEF DestroyInv, TypeOK, Reported, Asked, Waiting, Refusals, platformVars
  <2>4. WatchesPaid'
    BY <1>1, <1>2, <1>3, <2>1 DEF DestroyInv, TypeOK, WatchesPaid, Paid, Refusals, platformVars
  <2> QED BY <1>2, <2>2, <2>3, <2>4 DEF DestroyInv
<1>4. CASE ~retry
  <2>1. retry' = retry /\ pc' = "done" /\ result' = "error" /\ refused' = 2
    BY <1>1, <1>4 DEF DeleteRefused, MayRetry, Return, Refusals
  <2>2. TypeOK'
    BY <1>1, <2>1 DEF TypeOK, platformVars, watchVars
  <2>3. Reported' /\ Asked' /\ WatchesPaid'
    BY <1>1, <1>2, <2>1 DEF Reported, Asked, Waiting, WatchesPaid
  <2> QED BY <1>2, <2>2, <2>3 DEF DestroyInv
<1> QED BY <1>3, <1>4
-----------------------------------------------------------------------------
(***************************************************************************)
(* The waits.                                                              *)
(***************************************************************************)
LEMMA OpenKeeps == ASSUME DestroyInv, Open PROVE DestroyInv'
<1>1. /\ pc = "unbind" /\ todo = {} /\ pc' = "wait" /\ watch' = watch + 1 /\ peek' = "asking"
      /\ wire' = <<Phase(bound)>> /\ reader' = [reader EXCEPT ![watch + 1] = "check"]
      /\ UNCHANGED <<platformVars, result, listed, todo, retry, refused, hard, gaveUp, statuses,
                     line, canceled>>
      /\ TypeOK /\ WatchesInOrder /\ WatchesPaid /\ ~Waiting /\ Waiting'
  BY DEF DestroyInv, Open, Waiting
<1>2. watch <= binds + Refusals /\ Refusals' = Refusals /\ Refusals \in 0..1
  BY <1>1 DEF WatchesPaid, Refusals
<1>3. watch \in Nat /\ watch + 1 \in Watches /\ binds \in 0..MaxBinds
  BY <1>1, <1>2, Numbers DEF TypeOK, MaxWatches
<1>4. wire' \in Seq({"bound", "unbound"}) /\ Spoken(wire') = {Phase(bound)}
  BY <1>1, NothingSpoken DEF Phase
<1>5. TypeOK'
  <2>1. reader' \in [Watches -> {"off", "check", "read", "send", "ended"}]
    BY <1>1, <1>3 DEF TypeOK
  <2>2. watch' \in 0..MaxWatches
    BY <1>1, <1>3, Numbers
  <2> QED BY <1>1, <1>4, <2>1, <2>2 DEF TypeOK, platformVars
<1>6. Reported' /\ Asked'
  BY <1>1 DEF DestroyInv, Reported, Asked, Waiting, Refusals, platformVars
<1>7. WatchesInOrder'
  <2>1. ~canceled[watch + 1]
    BY <1>1, <1>3, Numbers DEF WatchesInOrder
  <2>2. \A w \in Watches : w < watch + 1 => canceled[w]
    BY <1>1, <1>3, Numbers DEF WatchesInOrder
  <2>3. \A w \in Watches : w > watch + 1 => w > watch /\ w # watch + 1
    BY <1>3, Numbers
  <2>4. \A w \in Watches : w > watch + 1 => reader'[w] = reader[w]
    BY <1>1, <1>3, <2>3 DEF TypeOK
  <2>5. \A w \in Watches : w > watch + 1 =>
           reader'[w] = "off" /\ line[w] = "none" /\ statuses[w] = <<>> /\ ~canceled[w]
    BY <1>1, <2>3, <2>4 DEF WatchesInOrder
  <2>6. \A w \in Watches : reader'[w] = "send" => line[w] # "none"
    BY <1>1, <1>3 DEF WatchesInOrder, TypeOK
  <2> QED BY <1>1, <1>3, <2>1, <2>2, <2>5, <2>6 DEF WatchesInOrder
<1>8. WatchesPaid'
  <2>1. watch' <= binds' + Refusals' + 1
    BY <1>1, <1>2, <1>3 DEF platformVars
  <2>2. Unbinding' => bound = {}
    <3>1. line[watch + 1] # "unbound" /\ Spoken(statuses[watch + 1]) = {}
      BY <1>1, <1>3, NothingSpoken DEF WatchesInOrder
    <3> QED BY <1>1, <1>4, <3>1 DEF Unbinding, Phase
  <2>3. SeenUnbound' => watch' <= Paid'
    BY <1>1, <2>1, <2>2 DEF SeenUnbound, Paid, platformVars
  <2> QED BY <1>1, <2>1, <2>3 DEF WatchesPaid
<1> QED BY <1>5, <1>6, <1>7, <1>8 DEF DestroyInv
LEMMA PeekKeeps == ASSUME DestroyInv, PeekAnswers \/ PeekFails PROVE DestroyInv'
<1>1. /\ peek = "asking" /\ peek' \in {"bound", "unbound", "nil"}
      /\ peek' = "unbound" => bound = {}
      /\ UNCHANGED <<platformVars, pc, result, listed, todo, retry, refused, hard, gaveUp, watch,
                     watchVars>>
      /\ TypeOK /\ WatchesInOrder /\ WatchesPaid
  BY DEF DestroyInv, PeekAnswers, PeekFails, Phase
<1>2. Waiting /\ Waiting'
  BY <1>1 DEF WatchesInOrder, Waiting
<1>3. TypeOK'
  BY <1>1 DEF TypeOK, platformVars, watchVars
<1>4. Reported' /\ Asked'
  BY <1>1 DEF DestroyInv, Reported, Asked, Waiting, Refusals, platformVars
<1>5. WatchesInOrder'
  BY <1>1, <1>2 DEF WatchesInOrder, watchVars
<1>6. WatchesPaid'
  <2>1. watch <= binds + Refusals + 1
    BY <1>1, <1>2 DEF WatchesPaid, Waiting
  <2>2. Paid' = Paid /\ Refusals' = Refusals
    BY <1>1 DEF Paid, Refusals, platformVars
  <2>3. SeenUnbound' => SeenUnbound \/ bound = {}
    BY <1>1 DEF SeenUnbound, Unbinding, watchVars
  <2>4. bound = {} => watch <= Paid
    BY <2>1 DEF Paid
  <2> QED BY <1>1, <2>2, <2>3, <2>4 DEF WatchesPaid, platformVars
<1> QED BY <1>3, <1>4, <1>5, <1>6 DEF DestroyInv

\* A wait that goes on, or ends well on a phase that was unbound.
LEMMA SeenKeeps ==
    ASSUME DestroyInv, pc = "wait", NEW phase \in {"bound", "unbound", "nil", "err"}, Seen(phase),
           phase = "unbound" => Unbinding, Unbinding' => Unbinding,
           UNCHANGED <<platformVars, result, listed, todo, retry, refused, hard, watch>>
    PROVE  Reported' /\ Asked' /\ WatchesPaid' /\ pc' \in {"wait", "leave"} /\ gaveUp' \in BOOLEAN
<1>1. /\ pc' \in {"wait", "leave"} /\ gaveUp' \in BOOLEAN
      /\ pc' = "leave" /\ ~gaveUp' => phase = "unbound"
  BY DEF Seen
<1>2. Reported' /\ Asked'
  BY <1>1 DEF DestroyInv, Reported, Asked, Waiting, Refusals, platformVars
<1>3. SeenUnbound' => SeenUnbound
  BY <1>1 DEF SeenUnbound
<1>4. Paid' = Paid /\ Refusals' = Refusals
  BY DEF Paid, Refusals, platformVars
<1>5. WatchesPaid'
  BY <1>1, <1>3, <1>4 DEF DestroyInv, WatchesPaid, platformVars
<1> QED BY <1>1, <1>2, <1>5

LEMMA TakePeekKeeps == ASSUME DestroyInv, TakePeek PROVE DestroyInv'
<1>1. /\ pc = "wait" /\ peek \in {"bound", "unbound", "nil"} /\ Seen(peek) /\ peek' = "taken"
      /\ UNCHANGED <<platformVars, result, listed, todo, retry, refused, hard, watch, watchVars>>
      /\ TypeOK /\ WatchesInOrder
  BY DEF DestroyInv, TypeOK, TakePeek
<1>2. Reported' /\ Asked' /\ WatchesPaid' /\ pc' \in {"wait", "leave"} /\ gaveUp' \in BOOLEAN
  <2>1. (peek = "unbound" => Unbinding) /\ (Unbinding' => Unbinding)
    BY <1>1 DEF Unbinding, watchVars
  <2> QED BY <1>1, <2>1, SeenKeeps
<1>3. TypeOK'
  BY <1>1, <1>2 DEF TypeOK, platformVars, watchVars
<1>4. WatchesInOrder'
  BY <1>1, <1>2 DEF WatchesInOrder, Waiting, watchVars
<1> QED BY <1>2, <1>3, <1>4 DEF DestroyInv

LEMMA TakeStatusKeeps == ASSUME DestroyInv, TakeStatus PROVE DestroyInv'
<1> DEFINE phase == Head(statuses[watch])
           rest == Tail(statuses[watch])
<1>1. /\ pc = "wait" /\ statuses[watch] # <<>> /\ Seen(phase) /\ watch \in Watches
      /\ statuses' = [statuses EXCEPT ![watch] = rest]
      /\ UNCHANGED <<platformVars, result, listed, todo, retry, refused, hard, watch, peek,
                     wire, reader, line, canceled>>
      /\ TypeOK /\ WatchesInOrder
  <2>1. TypeOK /\ WatchesInOrder /\ pc = "wait"
    BY DEF DestroyInv, TakeStatus
  <2>2. watch \in Watches
    BY <2>1, Numbers DEF TypeOK, WatchesInOrder, Waiting
  <2> QED BY <2>1, <2>2 DEF TakeStatus
<1>2. statuses[watch] \in Seq({"bound", "unbound", "err"}) /\ Len(statuses[watch]) <= Cap
  BY <1>1 DEF TypeOK
<1>3. /\ phase \in Spoken(statuses[watch]) /\ phase \in {"bound", "unbound", "err"}
      /\ rest \in Seq({"bound", "unbound", "err"}) /\ Len(rest) <= Cap
      /\ Spoken(rest) \subseteq Spoken(statuses[watch])
  <2>1. Len(rest) \in Nat /\ Len(statuses[watch]) \in Nat /\ Len(rest) < Len(statuses[watch])
    BY <1>1, <1>2, TailSpoken
  <2> QED BY <1>1, <1>2, <2>1, TailSpoken, Numbers
<1> HIDE DEF phase, rest
<1>4. statuses'[watch] = rest /\ \A w \in Watches : w # watch => statuses'[w] = statuses[w]
  BY <1>1 DEF TypeOK
<1>5. Reported' /\ Asked' /\ WatchesPaid' /\ pc' \in {"wait", "leave"} /\ gaveUp' \in BOOLEAN
  <2>1. (phase = "unbound" => Unbinding) /\ (Unbinding' => Unbinding)
    BY <1>1, <1>3, <1>4, Numbers DEF Unbinding
  <2> QED BY <1>1, <1>3, <2>1, SeenKeeps
<1>6. TypeOK'
  <2>1. /\ statuses' \in [Watches -> Seq({"bound", "unbound", "err"})]
        /\ \A w \in Watches : Len(statuses'[w]) <= Cap
    BY <1>1, <1>3, <1>4 DEF TypeOK
  <2> QED BY <1>1, <1>5, <2>1 DEF TypeOK, platformVars
<1>7. WatchesInOrder'
  <2>1. \A w \in Watches : w > watch => statuses'[w] = statuses[w]
    BY <1>1, <1>4, Numbers
  <2> QED BY <1>1, <1>5, <2>1 DEF WatchesInOrder, Waiting
<1> QED BY <1>5, <1>6, <1>7 DEF DestroyInv

LEMMA ExpireKeeps == ASSUME DestroyInv, Expire PROVE DestroyInv'
<1>1. /\ pc = "wait" /\ gaveUp' = TRUE /\ pc' = "leave"
      /\ UNCHANGED <<platformVars, result, listed, todo, retry, refused, hard, watch, peek,
                     watchVars>>
  BY DEF Expire
<1>2. TypeOK'
  BY <1>1 DEF DestroyInv, TypeOK, platformVars, watchVars
<1>3. Reported' /\ Asked' /\ WatchesInOrder'
  BY <1>1
  DEF DestroyInv, Reported, Asked, WatchesInOrder, Waiting, Refusals, platformVars, watchVars
<1>4. WatchesPaid'
  <2>1. SeenUnbound' => SeenUnbound
    BY <1>1 DEF SeenUnbound, Unbinding, watchVars
  <2>2. Paid' = Paid /\ Refusals' = Refusals
    BY <1>1 DEF Paid, Refusals, platformVars
  <2> QED BY <1>1, <2>1, <2>2 DEF DestroyInv, WatchesPaid, platformVars
<1> QED BY <1>2, <1>3, <1>4 DEF DestroyInv

LEMMA LeaveKeeps == ASSUME DestroyInv, Leave PROVE DestroyInv'
<1>1. /\ pc = "leave" /\ canceled' = [canceled EXCEPT ![watch] = TRUE] /\ peek' = "taken"
      /\ pc' = (IF gaveUp THEN "del1" ELSE "get") /\ wire' = <<>>
      /\ UNCHANGED <<platformVars, result, listed, todo, retry, refused, hard, gaveUp, watch,
                     reader, line>>
      /\ TypeOK /\ WatchesInOrder /\ WatchesPaid /\ watch \in Watches /\ todo = {}
  BY Numbers DEF DestroyInv, TypeOK, WatchesInOrder, Asked, Waiting, Leave, AfterWait
<1>2. /\ statuses' \in [Watches -> Seq({"bound", "unbound", "err"})]
      /\ \A w \in Watches : Len(statuses'[w]) <= Cap
      /\ \A w \in Watches : w # watch => statuses'[w] = statuses[w]
  <2>1. statuses' = [statuses EXCEPT ![watch] = IF reader[watch] = "ended" THEN <<>> ELSE @]
    BY DEF Leave
  <2>2. Len(<<>>) <= Cap /\ <<>> \in Seq({"bound", "unbound", "err"})
    BY Numbers
  <2> QED BY <1>1, <2>1, <2>2 DEF TypeOK
<1>3. /\ canceled' \in [Watches -> BOOLEAN] /\ canceled'[watch]
      /\ \A w \in Watches : w # watch => canceled'[w] = canceled[w]
  BY <1>1 DEF TypeOK
<1>4. TypeOK'
  <2>1. wire' \in Seq({"bound", "unbound"})
    BY <1>1
  <2> QED BY <1>1, <1>2, <1>3, <2>1 DEF TypeOK, platformVars
<1>5. Reported' /\ Asked'
  BY <1>1 DEF DestroyInv, Reported, Asked, Waiting, Refusals, platformVars
<1>6. WatchesInOrder'
  <2>1. \A w \in Watches : w < watch => w # watch
    BY <1>1, Numbers
  <2>2. \A w \in Watches : w > watch => w # watch
    BY <1>1, Numbers
  <2>3. ~Waiting'
    BY <1>1 DEF Waiting
  <2> QED BY <1>1, <1>2, <1>3, <2>1, <2>2, <2>3 DEF WatchesInOrder
<1>7. WatchesPaid'
  <2>1. Paid' = Paid /\ Refusals' = Refusals
    BY <1>1 DEF Paid, Refusals, platformVars
  <2>2. ~gaveUp => watch <= Paid
    BY <1>1 DEF WatchesPaid, SeenUnbound
  <2>3. ~SeenUnbound'
    BY <1>1 DEF SeenUnbound
  <2> QED BY <1>1, <2>1, <2>2, <2>3 DEF WatchesPaid, platformVars
<1> QED BY <1>4, <1>5, <1>6, <1>7 DEF DestroyInv
-----------------------------------------------------------------------------
(***************************************************************************)
(* The goroutines of doWatch: what a reader passes on, its watch was sent. *)
(***************************************************************************)
LEMMA ReaderKeeps ==
    ASSUME DestroyInv, NEW w \in Watches, reader[w] # "off", TypeOK',
           UNCHANGED <<platformVars, callVars, canceled>>,
           \A v \in Watches : v # w => /\ reader'[v] = reader[v] /\ line'[v] = line[v]
                                       /\ statuses'[v] = statuses[v],
           reader'[w] = "send" => line'[w] # "none", Waiting /\ Unbinding' => Unbinding
    PROVE  DestroyInv'
<1>1. WatchesInOrder /\ TypeOK /\ WatchesPaid
  BY DEF DestroyInv
<1>2. ~(w > watch)
  BY <1>1 DEF WatchesInOrder
<1>3. Reported' /\ Asked'
  BY DEF DestroyInv, Reported, Asked, Waiting, Refusals, platformVars, callVars
<1>4. WatchesInOrder'
  <2>1. \A v \in Watches : v > watch => v # w
    BY <1>2
  <2> QED BY <1>1, <2>1 DEF WatchesInOrder, Waiting, callVars
<1>5. WatchesPaid'
  <2>1. SeenUnbound' => SeenUnbound
    BY DEF SeenUnbound, Waiting, callVars
  <2>2. Paid' = Paid /\ Refusals' = Refusals
    BY DEF Paid, Refusals, platformVars, callVars
  <2> QED BY <1>1, <2>1, <2>2 DEF WatchesPaid, platformVars, callVars
<1> QED BY <1>3, <1>4, <1>5 DEF DestroyInv

LEMMA CheckKeeps == ASSUME DestroyInv, NEW w \in Watches, Check(w) PROVE DestroyInv'
<1>1. /\ TypeOK /\ reader[w] = "check" /\ UNCHANGED <<platformVars, callVars, wire, line, canceled>>
  BY DEF DestroyInv, Check
<1>2. /\ reader' \in [Watches -> {"off", "check", "read", "send", "ended"}]
      /\ \A v \in Watches : v # w => reader'[v] = reader[v]
  BY <1>1 DEF TypeOK, Check
<1>3. \/ statuses' = statuses
      \/ statuses' = [statuses EXCEPT ![w] = <<>>]
  BY DEF Check
<1>4. /\ statuses' \in [Watches -> Seq({"bound", "unbound", "err"})]
      /\ \A v \in Watches : Len(statuses'[v]) <= Cap
      /\ \A v \in Watches : v # w => statuses'[v] = statuses[v]
      /\ statuses'[w] = statuses[w] \/ statuses'[w] = <<>>
  <2>1. Len(<<>>) <= Cap /\ <<>> \in Seq({"bound", "unbound", "err"})
    BY Numbers
  <2> QED BY <1>1, <1>3, <2>1 DEF TypeOK
<1>5. TypeOK'
  BY <1>1, <1>2, <1>4 DEF TypeOK, platformVars, callVars
<1>6. Waiting /\ Unbinding' => Unbinding
  <2>1. Waiting => watch \in Watches
    BY Numbers DEF DestroyInv, TypeOK, WatchesInOrder
  <2> QED BY <1>1, <1>4, <2>1, NothingSpoken DEF Unbinding, callVars
<1>7. reader'[w] # "send"
  BY <1>1 DEF TypeOK, Check
<1> QED BY <1>1, <1>2, <1>4, <1>5, <1>6, <1>7, ReaderKeeps

LEMMA ReadKeeps == ASSUME DestroyInv, NEW w \in Watches, Read(w) \/ Break(w) PROVE DestroyInv'
<1>1. TypeOK /\ WatchesInOrder /\ reader[w] = "read"
      /\ UNCHANGED <<platformVars, callVars, statuses, canceled>>
  BY DEF DestroyInv, Read, Break, HasRead
<1>2. /\ wire' \in Seq({"bound", "unbound"}) /\ Spoken(wire') \subseteq Spoken(wire)
      /\ \E what \in {"bound", "unbound", "err"} :
            /\ HasRead(w, what)
            /\ what = "unbound" => ~canceled[w] /\ "unbound" \in Spoken(wire)
  <2>1. wire \in Seq({"bound", "unbound"})
    BY <1>1 DEF TypeOK
  <2>2. CASE UNCHANGED wire
    <3>1. HasRead(w, "bound") \/ HasRead(w, "err") \/ (wire # <<>> /\ wire' = Tail(wire))
      BY DEF Read, Break
    <3>2. wire # <<>> => Len(Tail(wire)) < Len(wire)
      BY <2>1, TailSpoken
    <3>3. Len(wire) \in Nat
      BY <2>1
    <3> QED BY <2>1, <2>2, <3>1, <3>2, <3>3
  <2>3. CASE wire' # wire
    <3>1. ~canceled[w] /\ wire # <<>> /\ HasRead(w, Head(wire)) /\ wire' = Tail(wire)
      BY <2>3 DEF Read, Break
    <3> QED BY <2>1, <3>1, TailSpoken
  <2> QED BY <2>2, <2>3
<1>3. PICK what \in {"bound", "unbound", "err"} :
            /\ HasRead(w, what)
            /\ what = "unbound" => ~canceled[w] /\ "unbound" \in Spoken(wire)
  BY <1>2
<1>4. /\ line' = [line EXCEPT ![w] = what] /\ reader' = [reader EXCEPT ![w] = "send"]
  BY <1>3 DEF HasRead
<1>5. TypeOK'
  BY <1>1, <1>2, <1>4 DEF TypeOK, platformVars, callVars
<1>6. Waiting /\ Unbinding' => Unbinding
  BY <1>1, <1>2, <1>3, <1>4 DEF TypeOK, Unbinding, callVars
<1>7. /\ \A v \in Watches : v # w => reader'[v] = reader[v] /\ line'[v] = line[v]
      /\ line'[w] # "none"
  BY <1>1, <1>4 DEF TypeOK
<1> QED BY <1>1, <1>5, <1>6, <1>7, ReaderKeeps

LEMMA SendKeeps == ASSUME DestroyInv, NEW w \in Watches, Send(w) PROVE DestroyInv'
<1>1. /\ TypeOK /\ reader[w] = "send" /\ Len(statuses[w]) < Cap
      /\ UNCHANGED <<platformVars, callVars, wire, canceled>>
      /\ line' = [line EXCEPT ![w] = "none"]
  BY DEF DestroyInv, Send
<1>2. /\ reader' \in [Watches -> {"off", "check", "read", "send", "ended"}]
      /\ \A v \in Watches : v # w => reader'[v] = reader[v] /\ line'[v] = line[v]
      /\ line' \in [Watches -> {"none", "bound", "unbound", "err"}] /\ line'[w] = "none"
  BY <1>1 DEF TypeOK, Send
<1> DEFINE next == IF canceled[w] /\ line[w] = "err" THEN <<>> ELSE Append(statuses[w], line[w])
<1>3. /\ next \in Seq({"bound", "unbound", "err"}) /\ Len(next) <= Cap
      /\ Spoken(next) \subseteq Spoken(statuses[w]) \union {line[w]}
  <2>1. statuses[w] \in Seq({"bound", "unbound", "err"}) /\ Len(statuses[w]) \in Nat
    BY <1>1 DEF TypeOK
  <2>2. line[w] \in {"bound", "unbound", "err"}
    BY <1>1 DEF DestroyInv, WatchesInOrder, TypeOK
  <2>3. /\ <<>> \in Seq({"bound", "unbound", "err"}) /\ Len(<<>>) <= Cap /\ Spoken(<<>>) = {}
    BY Numbers, NothingSpoken
  <2> QED BY <1>1, <2>1, <2>2, <2>3, AppendSpoken, Numbers
<1>4. statuses' = [statuses EXCEPT ![w] = next]
  BY DEF Send
<1> HIDE DEF next
<1>5. /\ statuses' \in [Watches -> Seq({"bound", "unbound", "err"})]
      /\ \A v \in Watches : Len(statuses'[v]) <= Cap
      /\ \A v \in Watches : v # w => statuses'[v] = statuses[v]
      /\ statuses'[w] = next
  BY <1>1, <1>3, <1>4 DEF TypeOK
<1>6. TypeOK'
  BY <1>1, <1>2, <1>5 DEF TypeOK, platformVars, callVars
<1>7. Waiting /\ Unbinding' => Unbinding
  <2>1. Waiting => watch \in Watches
    BY Numbers DEF DestroyInv, TypeOK, WatchesInOrder
  <2> QED BY <1>1, <1>2, <1>3, <1>5, <2>1 DEF Unbinding, callVars
<1>8. reader'[w] # "send"
  BY <1>1 DEF TypeOK, Send
<1> QED BY <1>1, <1>2, <1>5, <1>6, <1>7, <1>8, ReaderKeeps
-----------------------------------------------------------------------------
(***************************************************************************)
(* The platform and its other users.                                       *)
(***************************************************************************)
LEMMA MoreBinds ==
    ASSUME NEW w \in Nat, NEW r \in Nat, NEW n \in Nat, NEW m \in Nat,
           w <= n + r + 1, m > n \/ m = n
    PROVE  /\ w <= m + r + 1
           /\ m > n => w <= m + r
           /\ w <= n + r => w <= m + r
  OBVIOUS

LEMMA ChangeKeeps ==
    ASSUME DestroyInv, NEW b \in SUBSET Dcs, Changes(b), binds' \in 0..MaxBinds,
           binds' > binds \/ (binds' = binds /\ b \subseteq bound)
    PROVE  DestroyInv'
<1>1. /\ bsi = "there" /\ pc # "done" /\ bound' = b /\ Tell(b)
      /\ UNCHANGED <<bsi, callVars, statuses, reader, line, canceled>>
      /\ TypeOK /\ WatchesPaid
  BY DEF DestroyInv, Changes
<1>2. /\ wire' \in Seq({"bound", "unbound"})
      /\ Spoken(wire') \subseteq Spoken(wire) \union {Phase(b)}
  <2>1. wire \in Seq({"bound", "unbound"}) /\ Phase(b) \in {"bound", "unbound"}
    BY <1>1 DEF TypeOK, Phase
  <2>2. CASE wire' = wire
    BY <2>1, <2>2
  <2>3. CASE wire' = Append(wire, Phase(b))
    BY <2>1, <2>3, AppendSpoken
  <2> QED BY <1>1, <2>2, <2>3 DEF Tell
<1>3. TypeOK'
  BY <1>1, <1>2 DEF TypeOK, callVars
<1>4. Reported' /\ Asked'
  BY <1>1 DEF DestroyInv, Reported, Asked, Waiting, Refusals, callVars
<1>5. WatchesInOrder'
  BY <1>1 DEF DestroyInv, WatchesInOrder, Waiting, callVars
<1>6. WatchesPaid'
  <2>1. /\ watch \in Nat /\ binds \in Nat /\ binds' \in Nat /\ Refusals \in 0..1
        /\ Refusals' = Refusals /\ watch' = watch /\ pc' = pc
        /\ watch <= binds + Refusals + 1
    BY <1>1, Numbers DEF TypeOK, Refusals, callVars, WatchesPaid
  <2>2. PICK r \in Nat : Refusals = r /\ Refusals' = r
    BY <2>1
  <2>3. /\ watch <= binds' + r + 1
        /\ binds' > binds => watch <= binds' + r
        /\ watch <= binds + r => watch <= binds' + r
    BY <2>1, <2>2, MoreBinds
  <2>4. /\ bound' = {} => Paid' = binds' + r + 1
        /\ bound' # {} => Paid' = binds' + r
    BY <2>1, <2>2 DEF Paid
  <2>5. bound' = {} \/ binds' > binds => watch <= Paid'
    <3>1. CASE bound' = {}
      BY <2>3, <2>4, <3>1
    <3>2. CASE bound' # {}
      BY <2>3, <2>4, <3>2
    <3> QED BY <3>1, <3>2
  <2>6. ASSUME bound' # {}, binds' = binds PROVE Paid' = Paid /\ (SeenUnbound' => SeenUnbound)
    <3>1. bound # {}
      BY <1>1, <2>1, <2>6
    <3>2. Phase(b) = "bound"
      BY <1>1, <2>6 DEF Phase
    <3> QED BY <1>1, <1>2, <2>1, <2>6, <3>1, <3>2 DEF Paid, SeenUnbound, Unbinding, callVars
  <2>7. (pc = "get" \/ SeenUnbound') => watch <= Paid'
    BY <1>1, <2>1, <2>5, <2>6 DEF WatchesPaid
  <2>8. watch <= binds' + r + 1 /\ (pc = "unbind" => watch <= binds' + r)
    BY <1>1, <2>2, <2>3 DEF WatchesPaid
  <2> QED BY <2>1, <2>2, <2>7, <2>8 DEF WatchesPaid
<1> QED BY <1>3, <1>4, <1>5, <1>6 DEF DestroyInv

LEMMA PlatformKeeps == ASSUME DestroyInv, Platform PROVE DestroyInv'
<1>1. TypeOK
  BY DEF DestroyInv
<1>2. ASSUME NEW d \in Dcs, Bind(d) PROVE DestroyInv'
  <2>1. bound \union {d} \in SUBSET Dcs /\ binds' \in 0..MaxBinds /\ binds' > binds
    BY <1>1, <1>2, Numbers DEF TypeOK, Bind
  <2> QED BY <1>2, <2>1, ChangeKeeps DEF Bind
<1>3. ASSUME NEW d \in Dcs, Unbound(d) PROVE DestroyInv'
  <2>1. bound \ {d} \in SUBSET Dcs /\ binds' \in 0..MaxBinds /\ binds' = binds
    BY <1>1, <1>3 DEF TypeOK, Unbound
  <2> QED BY <1>3, <2>1, ChangeKeeps DEF Unbound
<1>4. CASE Vanish
  <2>1. TypeOK'
    BY <1>1, <1>4 DEF TypeOK, Vanish, callVars, watchVars
  <2>2. Reported' /\ Asked' /\ WatchesInOrder' /\ WatchesPaid'
    BY <1>4 DEF DestroyInv, Vanish, Reported, Asked, Waiting, Refusals, WatchesInOrder, WatchesPaid,
                Paid, SeenUnbound, Unbinding, callVars, watchVars
  <2> QED BY <2>1, <2>2 DEF DestroyInv
<1> QED BY <1>2, <1>3, <1>4 DEF Platform

-----------------------------------------------------------------------------
LEMMA InitDestroy == Init => DestroyInv
<1> SUFFICES ASSUME Init PROVE DestroyInv
  OBVIOUS
<1>1. TypeOK
  <2>1. <<>> \in Seq({"bound", "unbound"}) /\ <<>> \in Seq({"bound", "unbound", "err"})
        /\ Len(<<>>) <= Cap /\ 0 \in 0..MaxWatches /\ 0 \in 0..MaxBinds
    BY Numbers
  <2>2. /\ statuses \in [Watches -> Seq({"bound", "unbound", "err"})]
        /\ \A w \in Watches : Len(statuses[w]) <= Cap
    BY <2>1 DEF Init
  <2>3. {retry, hard, gaveUp} \subseteq BOOLEAN
    BY DEF Init
  <2>4. /\ reader \in [Watches -> {"off", "check", "read", "send", "ended"}]
        /\ line \in [Watches -> {"none", "bound", "unbound", "err"}]
        /\ canceled \in [Watches -> BOOLEAN]
    BY DEF Init
  <2> QED BY <2>1, <2>2, <2>3, <2>4 DEF Init, TypeOK
<1>2. Reported /\ Asked
  BY DEF Init, Reported, Asked, Waiting, Refusals
<1>3. WatchesInOrder
  BY Numbers DEF Init, WatchesInOrder, Waiting
<1>4. WatchesPaid
  BY DEF Init, WatchesPaid, Paid, Refusals, SeenUnbound
<1> QED BY <1>1, <1>2, <1>3, <1>4 DEF DestroyInv

LEMMA NextDestroy == DestroyInv /\ [Next]_vars => DestroyInv'
<1> SUFFICES ASSUME DestroyInv, [Next]_vars PROVE DestroyInv'
  OBVIOUS
<1>1. CASE Call
  BY <1>1, GetKeeps, ReturnsKeep, OpenKeeps, OpenFailsKeeps, UnbindKeeps, TakePeekKeeps,
     TakeStatusKeeps, ExpireKeeps, LeaveKeeps, DeleteKeeps, DeleteRefusedKeeps DEF Call, Waits
<1>2. CASE PeekAnswers \/ PeekFails
  BY <1>2, PeekKeeps
<1>3. ASSUME NEW w \in Watches, WatchStep(w) PROVE DestroyInv'
  BY <1>3, CheckKeeps, ReadKeeps, SendKeeps DEF WatchStep
<1>4. CASE Platform
  BY <1>4, PlatformKeeps
<1>5. CASE UNCHANGED vars
  BY <1>5 DEF vars, DestroyInv, TypeOK, Reported, Asked, Waiting, Refusals, WatchesInOrder,
              WatchesPaid, Paid, SeenUnbound, Unbinding
<1> QED BY <1>1, <1>2, <1>3, <1>4, <1>5 DEF Next

(***************************************************************************)
(* The inductive invariant of a call of destroyBSI and its watches.        *)
(***************************************************************************)
THEOREM DestroyInvariant == Spec => []DestroyInv
  BY InitDestroy, NextDestroy, PTL DEF Spec

(***************************************************************************)
(* The variables keep their types.  In particular no channel holds more    *)
(* than its capacity, and the call opens at most two watches more than     *)
(* there are bindings made during it.                                      *)
(***************************************************************************)
THEOREM DestroyTypeOK == Spec => []TypeOK
<1>1. DestroyInv => TypeOK
  BY DEF DestroyInv
<1> QED BY <1>1, DestroyInvariant, PTL

(***************************************************************************)
(* A delete is for an instance that the last get listed without bindings,  *)
(* or whose bindings of that get were all asked to go before the wait for  *)
(* them was given up.  A binding made after the get may be there.          *)
(***************************************************************************)
THEOREM AsksBeforeDelete == Spec => []DeletesUnbound
<1>1. DestroyInv => DeletesUnbound
  BY DEF DestroyInv, Asked, DeletesUnbound
<1> QED BY <1>1, DestroyInvariant, PTL

(***************************************************************************)
(* What the call returns is true of the instance, whatever the other users *)
(* did to it and whichever of its calls failed.                            *)
(***************************************************************************)
THEOREM ResultIsTrue == Spec => []ReportsTruth
<1>1. DestroyInv => ReportsTruth
  BY DEF DestroyInv, Reported, ReportsTruth
<1> QED BY <1>1, DestroyInvariant, PTL
=============================================================================
