---------------------------- MODULE TimeoutWriter ----------------------------
(***************************************************************************)
(* TimeoutHandle of api/timeout.go.  Each request has two goroutines: the  *)
(* server's, which waits for the handler or the timer, and the handler's,  *)
(* which goes on after a timeout.  They share the response writer; mu      *)
(* guards it, so a call of it and what the timeout does are a step each.   *)
(***************************************************************************)
EXTENDS Naturals, Sequences

CONSTANT Requests

VARIABLES
    server,      \* "idle" | "select" | "returned" | "lost"
    handler,     \* "idle" | "run" | "body" | "done" | "ended" | "killed"
    done,        \* values in the channel
    timedOut, wroteHeader,
    response     \* what was sent to the client, in order

twVars == <<server, handler, done, timedOut, wroteHeader, response>>

TimeoutInit ==
    /\ server = [r \in Requests |-> "idle"]
    /\ handler = [r \in Requests |-> "idle"]
    /\ done = [r \in Requests |-> 0]
    /\ timedOut = [r \in Requests |-> FALSE]
    /\ wroteHeader = [r \in Requests |-> FALSE]
    /\ response = [r \in Requests |-> <<>>]

Handle(r) ==
    /\ server[r] = "idle"
    /\ server' = [server EXCEPT ![r] = "select"]
    /\ handler' = [handler EXCEPT ![r] = "run"]
    /\ UNCHANGED <<done, timedOut, wroteHeader, response>>

Send(r, parts) == response' = [response EXCEPT ![r] = @ \o parts]

-----------------------------------------------------------------------------
(***************************************************************************)
(* The handler ends with one JsonResult: the status, then the body.        *)
(***************************************************************************)
WriteHeader(r) ==
    /\ handler[r] = "run"
    /\ handler' = [handler EXCEPT ![r] = "body"]
    /\ IF timedOut[r] \/ wroteHeader[r]
       THEN UNCHANGED <<wroteHeader, response>>
       ELSE /\ wroteHeader' = [wroteHeader EXCEPT ![r] = TRUE]
            /\ Send(r, <<"status">>)
    /\ UNCHANGED <<server, done, timedOut>>

\* Mutant: timedOut is not looked at.
ClosedMutant(r) == FALSE

Closed(r) == timedOut[r]

Write(r) ==
    /\ handler[r] = "body"
    /\ handler' = [handler EXCEPT ![r] = "done"]
    /\ wroteHeader' = [wroteHeader EXCEPT ![r] = TRUE]
    /\ IF Closed(r) THEN UNCHANGED response ELSE Send(r, <<"body">>)
    /\ UNCHANGED <<server, done, timedOut>>

\* Mutant: done has no buffer, so that a send waits for the receiver.
HasRoomMutant(r) == server[r] = "select"

\* The channel done buffers one value.
HasRoom(r) == done[r] = 0

SignalDone(r) ==
    /\ handler[r] = "done" /\ HasRoom(r)
    /\ handler' = [handler EXCEPT ![r] = "ended"]
    /\ done' = [done EXCEPT ![r] = @ + 1]
    /\ UNCHANGED <<server, timedOut, wroteHeader, response>>

-----------------------------------------------------------------------------
\* The server's goroutine.  When both cases are ready either is taken.
TakeDone(r) ==
    /\ server[r] = "select" /\ done[r] > 0
    /\ server' = [server EXCEPT ![r] = "returned"]
    /\ done' = [done EXCEPT ![r] = @ - 1]
    /\ UNCHANGED <<handler, timedOut, wroteHeader, response>>

\* Mutant: the page is sent whatever the handler has written.
PageDueMutant(r) == TRUE

PageDue(r) == ~wroteHeader[r]

Timeout(r) ==
    /\ server[r] = "select"
    /\ IF PageDue(r) THEN Send(r, <<"status", "page">>) ELSE UNCHANGED response
    /\ timedOut' = [timedOut EXCEPT ![r] = TRUE]
    /\ server' = [server EXCEPT ![r] = "returned"]
    /\ UNCHANGED <<handler, done, wroteHeader>>

\* The process dies: the goroutines are gone and the connection is closed.
Lose(S) ==
    /\ server' = [r \in Requests |->
                     IF r \in S /\ server[r] = "select" THEN "lost" ELSE server[r]]
    /\ handler' = [r \in Requests |->
                     IF r \in S /\ handler[r] \notin {"idle", "ended"} THEN "killed" ELSE handler[r]]
    /\ UNCHANGED <<done, timedOut, wroteHeader, response>>

-----------------------------------------------------------------------------
HandlerStep(r) == WriteHeader(r) \/ Write(r) \/ SignalDone(r)

ServerStep(r) == TakeDone(r) \/ Timeout(r)

TimeoutFairness == \A r \in Requests : WF_twVars(HandlerStep(r)) /\ WF_twVars(ServerStep(r))

-----------------------------------------------------------------------------
TimeoutTypeOK ==
    /\ server \in [Requests -> {"idle", "select", "returned", "lost"}]
    /\ handler \in [Requests -> {"idle", "run", "body", "done", "ended", "killed"}]
    /\ done \in [Requests -> 0..1]
    /\ timedOut \in [Requests -> BOOLEAN]
    /\ wroteHeader \in [Requests -> BOOLEAN]
    /\ response \in [Requests -> Seq({"status", "body", "page"})]

(***************************************************************************)
(* One answer: the handler's status and body, the timeout page, or the     *)
(* handler's status alone when the timeout came between its status and its *)
(* body.  Never a status after another, nor a body of the one under the    *)
(* status of the other.                                                    *)
(***************************************************************************)
OneAnswer ==
    \A r \in Requests :
        /\ response[r] \in {<<>>, <<"status">>, <<"status", "body">>, <<"status", "page">>}
        /\ response[r] = <<"status", "page">> => timedOut[r]
        /\ server[r] = "returned" =>
              \/ response[r] \in {<<"status", "body">>, <<"status", "page">>}
              \/ response[r] = <<"status">> /\ timedOut[r]

(***************************************************************************)
(* Once the server's goroutine has returned, net/http owns the connection: *)
(* a handler that is still running must not write to it.                   *)
(***************************************************************************)
SilentAfterReturn ==
    [][\A r \in Requests : server[r] # "select" => response'[r] = response[r]]_response

(***************************************************************************)
(* No goroutine is left behind: a handler that outlives its timeout still  *)
(* finds room for its value in done, though nobody will take it.           *)
(***************************************************************************)
HandlersEnd ==
    \A r \in Requests : handler[r] = "run" ~> handler[r] \in {"ended", "killed"}
=============================================================================
