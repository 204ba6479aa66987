------------------------------- MODULE Service -------------------------------
(***************************************************************************)
(* The service: instances start on one database (Startup), and those that  *)
(* listen run handlers under TimeoutHandle (TimeoutWriter).  A process     *)
(* that dies takes its requests along; a handler dies with it when it      *)
(* panics, for it runs in a goroutine that net/http does not recover.      *)
(***************************************************************************)
EXTENDS Startup, TimeoutWriter

VARIABLE host    \* the instance that received a request

vars == <<stVars, twVars, host>>

Init == StartInit /\ TimeoutInit /\ host \in [Requests -> Instances]

\* host is where the client's connection will lead.
Arrive(r) ==
    /\ Listening(host[r])
    /\ Handle(r)
    /\ UNCHANGED <<stVars, host>>

OnHost(i) == {r \in Requests : host[r] = i}

Crash(i) ==
    /\ CrashStart(i)
    /\ Lose(OnHost(i))
    /\ UNCHANGED host

Respond(r) == (HandlerStep(r) \/ ServerStep(r)) /\ UNCHANGED <<stVars, host>>

Start(i) == StartStep(i) /\ UNCHANGED <<twVars, host>>

Database == (Outage \/ Recover) /\ UNCHANGED <<twVars, host>>

Next ==
    \/ \E i \in Instances : Start(i) \/ Crash(i)
    \/ \E r \in Requests : Arrive(r) \/ Respond(r)
    \/ Database

Spec == Init /\ [][Next]_vars /\ StartFairness /\ TimeoutFairness

-----------------------------------------------------------------------------
TypeOK ==
    /\ StartTypeOK
    /\ TimeoutTypeOK
    /\ host \in [Requests -> Instances]
=============================================================================
