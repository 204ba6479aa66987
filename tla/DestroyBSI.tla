------------------------------ MODULE DestroyBSI ------------------------------
(***************************************************************************)
(* destroyBSI of api/remote.go: the deployment configs bound to a backing  *)
(* service instance are asked to unbind, a watch waits for the instance to *)
(* be unbound, and then it is deleted, twice.  Each watch is a goroutine   *)
(* of doWatch (openshift/openshift.go) that reads the lines of a response  *)
(* and passes them on through a bounded channel until it is canceled.      *)
(*                                                                         *)
(* Other users of the platform bind and unbind the instance meanwhile, and *)
(* each change is a line of the watch.  The lines of a canceled watch go   *)
(* nowhere: it reads any number of them.  What the users do after the call *)
(* is not followed.                                                        *)
(***************************************************************************)
EXTENDS Naturals, Sequences

CONSTANTS
    Dcs,          \* deployment configs
    Cap,          \* capacity of the channel statuses: 5 in the code
    MaxBinds      \* bound: bindings made during the call, for which the code has no limit

ASSUME DestroyAssumption == Cap \in Nat \ {0} /\ MaxBinds \in Nat

\* Each watch but the first follows a binding made meanwhile, or the refused delete.
MaxWatches == MaxBinds + 2
Watches == 1..MaxWatches

VARIABLES
    bsi,        \* "there" | "deleting" | "gone"
    bound,      \* the deployment configs bound to it
    binds,
    pc, result,
    listed,     \* bindings of the last answer of the get
    todo,       \* those not asked to unbind yet
    retry,      \* retryOnFailedToDelete
    refused,    \* ghost: deletes that failed
    hard,       \* ghost: a get or an unbind failed
    gaveUp,     \* ghost: the last wait was not for an unbound instance
    watch,      \* the last watch opened, 0 before the first
    peek,       \* getBsiChan: "asking" | "bound" | "unbound" | "nil" | "taken"
    wire,       \* lines of the last watch that were not read
    statuses,   \* per watch: its channel
    reader,     \* its goroutine: "off" | "check" | "read" | "send" | "ended"
    line,       \* what it has read: "none" | "bound" | "unbound" | "err"
    canceled

vars == <<bsi, bound, binds, pc, result, listed, todo, retry, refused, hard, gaveUp,
          watch, peek, wire, statuses, reader, line, canceled>>
platformVars == <<bsi, bound, binds>>
callVars == <<pc, result, listed, todo, retry, refused, hard, gaveUp, watch, peek>>
watchVars == <<wire, statuses, reader, line, canceled>>

Phase(b) == IF b = {} THEN "unbound" ELSE "bound"

Init ==
    /\ bsi \in {"there", "gone"}
    /\ bound \in SUBSET Dcs
    /\ binds = 0
    /\ pc = "get" /\ result = "none"
    /\ listed = {} /\ todo = {}
    /\ retry = TRUE /\ refused = 0 /\ hard = FALSE /\ gaveUp = FALSE
    /\ watch = 0 /\ peek = "taken"
    /\ wire = <<>>
    /\ statuses = [w \in Watches |-> <<>>]
    /\ reader = [w \in Watches |-> "off"]
    /\ line = [w \in Watches |-> "none"]
    /\ canceled = [w \in Watches |-> FALSE]

Return(r) == pc' = "done" /\ result' = r

-----------------------------------------------------------------------------
\* The get.  An instance that is not there is as good as destroyed.
Get ==
    /\ pc = "get"
    /\ IF bsi = "gone"
       THEN Return("ok") /\ UNCHANGED <<listed, todo, gaveUp>>
       ELSE /\ listed' = bound /\ todo' = bound
            /\ gaveUp' = FALSE
            /\ pc' = IF bound = {} THEN "del1" ELSE "unbind"
            /\ UNCHANGED result
    /\ UNCHANGED <<platformVars, retry, refused, hard, watch, peek, watchVars>>

\* Or there is no client for the region, which is found out at each RETRY.
GetFails ==
    /\ pc = "get"
    /\ hard' = TRUE
    /\ Return("error")
    /\ UNCHANGED <<platformVars, listed, todo, retry, refused, gaveUp, watch, peek, watchVars>>

Unbind(d) ==
    /\ pc = "unbind" /\ d \in todo
    /\ todo' = todo \ {d}
    /\ UNCHANGED <<platformVars, pc, result, listed, retry, refused, hard, gaveUp, watch, peek,
                   watchVars>>

UnbindFails ==
    /\ pc = "unbind" /\ todo # {}
    /\ hard' = TRUE
    /\ Return("error")
    /\ UNCHANGED <<platformVars, listed, todo, retry, refused, gaveUp, watch, peek, watchVars>>

\* The platform answers a watch with the instance as it is.
Open ==
    /\ pc = "unbind" /\ todo = {}
    /\ watch' = watch + 1
    /\ peek' = "asking"
    /\ wire' = <<Phase(bound)>>
    /\ reader' = [reader EXCEPT ![watch + 1] = "check"]
    /\ pc' = "wait"
    /\ UNCHANGED <<platformVars, result, listed, todo, retry, refused, hard, gaveUp, statuses,
                   line, canceled>>

\* Mutant: the watch is tried again until it opens.
UnwatchedMutant == "get"

Unwatched == "del1"

OpenFails ==
    /\ pc = "unbind" /\ todo = {}
    /\ gaveUp' = TRUE
    /\ pc' = Unwatched
    /\ UNCHANGED <<platformVars, result, listed, todo, retry, refused, hard, watch, peek,
                   watchVars>>

-----------------------------------------------------------------------------
\* The wait goes on while the instance is bound, and ends well when it is unbound.
Seen(phase) ==
    /\ pc' = IF phase = "bound" THEN "wait" ELSE "leave"
    /\ gaveUp' = (phase \notin {"bound", "unbound"})

\* The goroutine that reads the instance once, after five seconds.
PeekAnswers ==
    /\ peek = "asking"
    /\ peek' = IF bsi = "gone" THEN "nil" ELSE Phase(bound)
    /\ UNCHANGED <<platformVars, pc, result, listed, todo, retry, refused, hard, gaveUp, watch,
                   watchVars>>

PeekFails ==
    /\ peek = "asking"
    /\ peek' = "nil"
    /\ UNCHANGED <<platformVars, pc, result, listed, todo, retry, refused, hard, gaveUp, watch,
                   watchVars>>

TakePeek ==
    /\ pc = "wait" /\ peek \notin {"asking", "taken"}
    /\ Seen(peek)
    /\ peek' = "taken"
    /\ UNCHANGED <<platformVars, result, listed, todo, retry, refused, hard, watch, watchVars>>

TakeStatus ==
    /\ pc = "wait" /\ statuses[watch] # <<>>
    /\ Seen(Head(statuses[watch]))
    /\ statuses' = [statuses EXCEPT ![watch] = Tail(@)]
    /\ UNCHANGED <<platformVars, result, listed, todo, retry, refused, hard, watch, peek,
                   wire, reader, line, canceled>>

\* The timer of 15 minutes.
Expire ==
    /\ pc = "wait"
    /\ gaveUp' = TRUE
    /\ pc' = "leave"
    /\ UNCHANGED <<platformVars, result, listed, todo, retry, refused, hard, watch, peek,
                   watchVars>>

\* Mutant: an instance seen unbound is deleted without another look.
AfterWaitMutant == "del1"

\* It may have been bound again: RETRY.
AfterWait == IF gaveUp THEN "del1" ELSE "get"

Leave ==
    /\ pc = "leave"
    /\ canceled' = [canceled EXCEPT ![watch] = TRUE]
    /\ peek' = "taken"
    /\ pc' = AfterWait
    /\ wire' = <<>>
    /\ statuses' = [statuses EXCEPT ![watch] = IF reader[watch] = "ended" THEN <<>> ELSE @]
    /\ UNCHANGED <<platformVars, result, listed, todo, retry, refused, hard, gaveUp, watch,
                   reader, line>>

-----------------------------------------------------------------------------
\* Mutant: the first delete that is refused is reported.
MayRetryMutant == FALSE

MayRetry == retry

\* Mutant: a refused delete may be tried again for ever.
SpentMutant == TRUE

Spent == FALSE

\* delF takes an instance that is not there for deleted.
Delete ==
    /\ pc \in {"del1", "del2"}
    /\ bsi' = IF bsi = "there" THEN "deleting" ELSE bsi
    /\ IF pc = "del1" THEN pc' = "del2" /\ UNCHANGED result ELSE Return("ok")
    /\ UNCHANGED <<bound, binds, listed, todo, retry, refused, hard, gaveUp, watch, peek,
                   watchVars>>

DeleteRefused ==
    /\ pc \in {"del1", "del2"}
    /\ refused' = refused + 1
    /\ IF MayRetry
       THEN retry' = Spent /\ pc' = "get" /\ UNCHANGED result
       ELSE Return("error") /\ UNCHANGED retry
    /\ UNCHANGED <<platformVars, listed, todo, hard, gaveUp, watch, peek, watchVars>>

-----------------------------------------------------------------------------
\* Mutant: the goroutine reads on after the cancel.
OverMutant(w) == FALSE

Over(w) == canceled[w]

\* The goroutine of doWatch.  A channel that neither side holds is gone.
Check(w) ==
    /\ reader[w] = "check"
    /\ IF Over(w)
       THEN /\ reader' = [reader EXCEPT ![w] = "ended"]
            /\ statuses' = [statuses EXCEPT ![w] = <<>>]
       ELSE reader' = [reader EXCEPT ![w] = "read"] /\ UNCHANGED statuses
    /\ UNCHANGED <<platformVars, callVars, wire, line, canceled>>

HasRead(w, what) ==
    /\ reader[w] = "read"
    /\ line' = [line EXCEPT ![w] = what]
    /\ reader' = [reader EXCEPT ![w] = "send"]
    /\ UNCHANGED <<platformVars, callVars, statuses, canceled>>

Read(w) ==
    IF canceled[w]
    THEN HasRead(w, "bound") /\ UNCHANGED wire
    ELSE wire # <<>> /\ HasRead(w, Head(wire)) /\ wire' = Tail(wire)

\* The connection is broken, or the platform ends the watch.
Break(w) == HasRead(w, "err") /\ UNCHANGED wire

\* The send blocks while the channel is full.
Send(w) ==
    /\ reader[w] = "send" /\ Len(statuses[w]) < Cap
    /\ statuses' = [statuses EXCEPT ![w] = IF canceled[w] /\ line[w] = "err" THEN <<>>
                                           ELSE Append(@, line[w])]
    /\ line' = [line EXCEPT ![w] = "none"]
    /\ reader' = [reader EXCEPT ![w] = IF line[w] = "err" THEN "ended" ELSE "check"]
    /\ UNCHANGED <<platformVars, callVars, wire, canceled>>

-----------------------------------------------------------------------------
\* The platform: a change of the instance is a line of the watch.
Tell(b) == wire' = IF pc \in {"wait", "leave"} THEN Append(wire, Phase(b)) ELSE wire

Changes(b) ==
    /\ bsi = "there" /\ pc # "done"
    /\ bound' = b
    /\ Tell(b)
    /\ UNCHANGED <<bsi, callVars, statuses, reader, line, canceled>>

Bind(d) ==
    /\ binds < MaxBinds /\ d \notin bound
    /\ binds' = binds + 1
    /\ Changes(bound \union {d})

Unbound(d) ==
    /\ d \in bound
    /\ Changes(bound \ {d})
    /\ UNCHANGED binds

Vanish ==
    /\ bsi = "deleting" /\ pc # "done"
    /\ bsi' = "gone"
    /\ UNCHANGED <<bound, binds, callVars, watchVars>>

-----------------------------------------------------------------------------
Waits == TakePeek \/ TakeStatus \/ Expire \/ Leave

Call ==
    \/ Get \/ GetFails \/ UnbindFails \/ Open \/ OpenFails
    \/ \E d \in Dcs : Unbind(d)
    \/ Waits \/ Delete \/ DeleteRefused

WatchStep(w) == Check(w) \/ Read(w) \/ Break(w) \/ Send(w)

Platform == (\E d \in Dcs : Bind(d) \/ Unbound(d)) \/ Vanish

Next ==
    \/ Call \/ PeekAnswers \/ PeekFails
    \/ \E w \in Watches : WatchStep(w)
    \/ Platform

Fairness == WF_vars(Call) /\ \A w \in Watches : WF_vars(WatchStep(w))

Spec == Init /\ [][Next]_vars /\ Fairness

-----------------------------------------------------------------------------
TypeOK ==
    /\ bsi \in {"there", "deleting", "gone"}
    /\ bound \subseteq Dcs /\ listed \subseteq Dcs /\ todo \subseteq listed
    /\ binds \in 0..MaxBinds
    /\ pc \in {"get", "unbind", "wait", "leave", "del1", "del2", "done"}
    /\ result \in {"none", "ok", "error"}
    /\ {retry, hard, gaveUp} \subseteq BOOLEAN
    /\ refused \in 0..2
    /\ watch \in 0..MaxWatches
    /\ peek \in {"asking", "bound", "unbound", "nil", "taken"}
    /\ wire \in Seq({"bound", "unbound"})
    /\ statuses \in [Watches -> Seq({"bound", "unbound", "err"})]
    /\ \A w \in Watches : Len(statuses[w]) <= Cap
    /\ reader \in [Watches -> {"off", "check", "read", "send", "ended"}]
    /\ line \in [Watches -> {"none", "bound", "unbound", "err"}]
    /\ canceled \in [Watches -> BOOLEAN]

(***************************************************************************)
(* A delete goes ahead when the last get listed no binding, though one may *)
(* have been made since, or when every listed binding was asked to unbind  *)
(* and the wait for it failed or expired.                                  *)
(***************************************************************************)
DeletesUnbound ==
    pc \in {"del1", "del2"} => listed = {} \/ (gaveUp /\ todo = {})

(***************************************************************************)
(* The caller ends the order on this word: success means that the instance *)
(* is gone or going, and failure that a get or an unbind failed or that    *)
(* deletes failed twice.  One refused delete, and whatever happens to the  *)
(* wait, is survived.                                                      *)
(***************************************************************************)
ReportsTruth ==
    /\ result = "ok" => bsi # "there"
    /\ result = "error" => hard \/ refused = 2

(***************************************************************************)
(* The call ends if the instance is bound again only finitely often: the   *)
(* goto RETRY after a wait has no limit of its own, only the retry of a    *)
(* refused delete has.  No line, error or refusal makes it go round again  *)
(* without a new binding, and no wait lasts for ever.                      *)
(***************************************************************************)
CallEnds == <>(pc = "done")

(***************************************************************************)
(* A canceled watch ends, and its connection with it, once its channel has *)
(* room for the one line it may still be reading.  A goroutine that meets  *)
(* a full channel stays for ever.                                          *)
(***************************************************************************)
WatchesEnd ==
    \A w \in Watches : canceled[w] /\ Len(statuses[w]) < Cap ~> reader[w] = "ended"
=============================================================================
