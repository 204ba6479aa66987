---------------------------- MODULE ServiceProofs ----------------------------
(***************************************************************************)
(* Service for any number of instances and requests, outages and crashes:  *)
(* every request gets one answer and silence after it, an instance holds   *)
(* one handle of the database, and, with one upgrade to run, it listens    *)
(* only on upgraded tables.                                                *)
(***************************************************************************)
EXTENDS Service, SequenceTheorems, TLAPS

-----------------------------------------------------------------------------
(***************************************************************************)
(* One request: how far its two goroutines are decides what was sent.      *)
(***************************************************************************)
Running == {"run", "body", "done"}

TimesOutLast(r) ==
    /\ timedOut[r] => server[r] = "returned"
    /\ handler[r] \in Running /\ ~timedOut[r] => server[r] = "select"
    /\ server[r] = "returned" /\ ~timedOut[r] => response[r] = <<"status", "body">>

Fresh(r) ==
    /\ handler[r] = "idle" <=> server[r] = "idle"
    /\ handler[r] = "idle" => response[r] = <<>> /\ ~wroteHeader[r] /\ done[r] = 0
    /\ handler[r] \in Running => done[r] = 0
    /\ done[r] > 0 => handler[r] = "ended"

Sent(r) ==
    /\ ~timedOut[r] =>
          /\ handler[r] = "run" => response[r] = <<>> /\ ~wroteHeader[r]
          /\ handler[r] = "body" => response[r] = <<"status">> /\ wroteHeader[r]
          /\ handler[r] \in {"done", "ended"} => response[r] = <<"status", "body">> /\ wroteHeader[r]
          /\ handler[r] = "killed" =>
                response[r] \in {<<>>, <<"status">>, <<"status", "body">>} /\ server[r] # "select"
    /\ timedOut[r] =>
          response[r] \in {<<"status">>, <<"status", "body">>, <<"status", "page">>}

Answered(r) == TimesOutLast(r) /\ Fresh(r) /\ Sent(r)

AnswerInv == TimeoutTypeOK /\ \A r \in Requests : Answered(r)

\* The fields of r that a step of another request leaves alone.
SameRequest(r) ==
    /\ server'[r] = server[r] /\ handler'[r] = handler[r] /\ done'[r] = done[r]
    /\ timedOut'[r] = timedOut[r] /\ wroteHeader'[r] = wroteHeader[r]
    /\ response'[r] = response[r]

ResponseParts == {"status", "body", "page"}

LEMMA Parts ==
    /\ <<"status">> \in Seq(ResponseParts)
    /\ <<"body">> \in Seq(ResponseParts)
    /\ <<"status", "page">> \in Seq(ResponseParts)
  BY DEF ResponseParts

LEMMA StatusAndBody ==
    ASSUME NEW s, NEW t, s = <<"status">> \o <<"body">>, t = <<"status", "body">>
    PROVE  s = t
<1>1. s \in Seq(ResponseParts) /\ Len(s) = 2
  BY DEF ResponseParts
<1>2. t \in Seq(ResponseParts) /\ Len(t) = 2
  BY DEF ResponseParts
<1>3. s[1] = t[1] /\ s[2] = t[2]
  OBVIOUS
<1>4. \A i \in 1..Len(s) : s[i] = t[i]
  BY <1>1, <1>3
<1>5. Len(s) = Len(t)
  BY <1>1, <1>2
<1> QED BY <1>1, <1>2, <1>4, <1>5, SeqEqual

LEMMA Joined ==
    /\ <<>> \o <<"status">> = <<"status">>
    /\ <<>> \o <<"status", "page">> = <<"status", "page">>
    /\ <<"status">> \o <<"body">> = <<"status", "body">>
<1>1. <<>> \o <<"status">> = <<"status">>
  OBVIOUS
<1>2. <<>> \o <<"status", "page">> = <<"status", "page">>
  OBVIOUS
<1>3. <<"status">> \o <<"body">> = <<"status", "body">>
  BY StatusAndBody
<1> QED BY <1>1, <1>2, <1>3

LEMMA OnlyOne ==
    ASSUME AnswerInv, NEW r \in Requests, \A q \in Requests : q # r => SameRequest(q),
           TimeoutTypeOK', Answered(r)'
    PROVE  AnswerInv'
  BY DEF AnswerInv, SameRequest, Answered, TimesOutLast, Fresh, Sent

\* What WriteHeader, Write and Timeout send.
LEMMA Sends ==
    ASSUME AnswerInv, NEW r \in Requests, NEW parts \in Seq(ResponseParts),
           Send(r, parts)
    PROVE  /\ response' \in [Requests -> Seq(ResponseParts)]
           /\ response'[r] = response[r] \o parts
           /\ \A q \in Requests : q # r => response'[q] = response[q]
<1>1. response \in [Requests -> Seq(ResponseParts)]
  BY DEF AnswerInv, TimeoutTypeOK, ResponseParts
<1>2. response[r] \o parts \in Seq(ResponseParts)
  BY <1>1
<1> QED BY <1>1, <1>2 DEF Send

LEMMA HandleKeeps == ASSUME AnswerInv, NEW r \in Requests, Handle(r) PROVE AnswerInv'
<1>1. TimeoutTypeOK'
  BY DEF AnswerInv, TimeoutTypeOK, Handle
<1>2. \A q \in Requests : q # r => SameRequest(q)
  BY DEF AnswerInv, TimeoutTypeOK, Handle, SameRequest
<1>3. /\ server[r] = "idle" /\ server'[r] = "select" /\ handler'[r] = "run"
      /\ UNCHANGED <<done, timedOut, wroteHeader, response>>
  BY DEF AnswerInv, TimeoutTypeOK, Handle
<1>4. Answered(r)'
  BY <1>3 DEF AnswerInv, Answered, TimesOutLast, Fresh, Sent, Running
<1> QED BY <1>1, <1>2, <1>4, OnlyOne

LEMMA WriteHeaderKeeps == ASSUME AnswerInv, NEW r \in Requests, WriteHeader(r) PROVE AnswerInv'
<1>1. /\ handler[r] = "run" /\ handler' = [handler EXCEPT ![r] = "body"]
      /\ UNCHANGED <<server, done, timedOut>> /\ Answered(r) /\ TimeoutTypeOK
  BY DEF AnswerInv, WriteHeader
<1>2. handler'[r] = "body" /\ \A q \in Requests : q # r => handler'[q] = handler[q]
  BY <1>1 DEF TimeoutTypeOK
<1>3. CASE timedOut[r]
  <2>1. UNCHANGED <<wroteHeader, response>>
    BY <1>3 DEF WriteHeader
  <2>2. TimeoutTypeOK' /\ \A q \in Requests : q # r => SameRequest(q)
    BY <1>1, <1>2, <2>1 DEF TimeoutTypeOK, ResponseParts, SameRequest
  <2>3. Answered(r)'
    BY <1>1, <1>2, <1>3, <2>1 DEF Answered, TimesOutLast, Fresh, Sent, Running
  <2> QED BY <2>2, <2>3, OnlyOne
<1>4. CASE ~timedOut[r]
  <2>1. ~wroteHeader[r] /\ response[r] = <<>> /\ server[r] = "select"
    BY <1>1, <1>4 DEF Answered, Sent, TimesOutLast, Running
  <2>2. wroteHeader' = [wroteHeader EXCEPT ![r] = TRUE] /\ Send(r, <<"status">>)
    BY <1>4, <2>1 DEF WriteHeader
  <2>3. /\ response' \in [Requests -> Seq(ResponseParts)]
        /\ response'[r] = <<"status">>
        /\ \A q \in Requests : q # r => response'[q] = response[q]
    BY <2>1, <2>2, Sends, Parts, Joined
  <2>4. TimeoutTypeOK' /\ \A q \in Requests : q # r => SameRequest(q)
    BY <1>1, <1>2, <2>2, <2>3 DEF TimeoutTypeOK, ResponseParts, SameRequest
  <2>5. Answered(r)'
    BY <1>1, <1>2, <1>4, <2>1, <2>2, <2>3
    DEF TimeoutTypeOK, Answered, TimesOutLast, Fresh, Sent, Running
  <2> QED BY <2>4, <2>5, OnlyOne
<1> QED BY <1>3, <1>4

LEMMA WriteKeeps == ASSUME AnswerInv, NEW r \in Requests, Write(r) PROVE AnswerInv'
<1>1. /\ handler[r] = "body" /\ handler' = [handler EXCEPT ![r] = "done"]
      /\ wroteHeader' = [wroteHeader EXCEPT ![r] = TRUE]
      /\ UNCHANGED <<server, done, timedOut>> /\ Answered(r) /\ TimeoutTypeOK
  BY DEF AnswerInv, Write
<1>2. /\ handler'[r] = "done" /\ wroteHeader'[r]
      /\ \A q \in Requests : q # r => /\ handler'[q] = handler[q]
                                      /\ wroteHeader'[q] = wroteHeader[q]
  BY <1>1 DEF TimeoutTypeOK
<1>3. CASE timedOut[r]
  <2>1. UNCHANGED response
    BY <1>3 DEF Write, Closed
  <2>2. TimeoutTypeOK' /\ \A q \in Requests : q # r => SameRequest(q)
    BY <1>1, <1>2, <2>1 DEF TimeoutTypeOK, ResponseParts, SameRequest
  <2>3. Answered(r)'
    BY <1>1, <1>2, <1>3, <2>1 DEF Answered, TimesOutLast, Fresh, Sent, Running
  <2> QED BY <2>2, <2>3, OnlyOne
<1>4. CASE ~timedOut[r]
  <2>1. response[r] = <<"status">> /\ server[r] = "select" /\ Send(r, <<"body">>)
    BY <1>1, <1>4 DEF Answered, Sent, TimesOutLast, Running, Write, Closed
  <2>2. /\ response' \in [Requests -> Seq(ResponseParts)]
        /\ response'[r] = <<"status", "body">>
        /\ \A q \in Requests : q # r => response'[q] = response[q]
    BY <2>1, Sends, Parts, Joined
  <2>3. TimeoutTypeOK' /\ \A q \in Requests : q # r => SameRequest(q)
    BY <1>1, <1>2, <2>2 DEF TimeoutTypeOK, ResponseParts, SameRequest
  <2>4. Answered(r)'
    BY <1>1, <1>2, <1>4, <2>1, <2>2 DEF Answered, TimesOutLast, Fresh, Sent, Running
  <2> QED BY <2>3, <2>4, OnlyOne
<1> QED BY <1>3, <1>4

LEMMA SignalDoneKeeps == ASSUME AnswerInv, NEW r \in Requests, SignalDone(r) PROVE AnswerInv'
<1>1. TimeoutTypeOK' /\ handler[r] = "done" /\ handler'[r] = "ended"
  BY DEF AnswerInv, TimeoutTypeOK, SignalDone, HasRoom
<1>2. \A q \in Requests : q # r => SameRequest(q)
  BY DEF AnswerInv, TimeoutTypeOK, SignalDone, SameRequest
<1>3. Answered(r)'
  BY <1>1 DEF AnswerInv, Answered, TimesOutLast, Fresh, Sent, Running, SignalDone
<1> QED BY <1>1, <1>2, <1>3, OnlyOne

LEMMA TakeDoneKeeps == ASSUME AnswerInv, NEW r \in Requests, TakeDone(r) PROVE AnswerInv'
<1>1. /\ server[r] = "select" /\ done[r] > 0 /\ server'[r] = "returned"
      /\ done'[r] = done[r] - 1
      /\ UNCHANGED <<handler, timedOut, wroteHeader, response>>
  BY DEF AnswerInv, TimeoutTypeOK, TakeDone
<1>2. \A q \in Requests : q # r => SameRequest(q)
  BY DEF AnswerInv, TimeoutTypeOK, TakeDone, SameRequest
<1>3. done[r] \in 0..1 /\ handler[r] = "ended" /\ ~timedOut[r]
  BY <1>1 DEF AnswerInv, TimeoutTypeOK, Answered, Fresh, TimesOutLast
<1>4. TimeoutTypeOK'
  BY <1>1, <1>3 DEF AnswerInv, TimeoutTypeOK, TakeDone
<1>5. Answered(r)'
  BY <1>1, <1>3 DEF AnswerInv, Answered, TimesOutLast, Fresh, Sent, Running
<1> QED BY <1>2, <1>4, <1>5, OnlyOne

LEMMA TimeoutKeeps == ASSUME AnswerInv, NEW r \in Requests, Timeout(r) PROVE AnswerInv'
<1>1. /\ server[r] = "select" /\ Answered(r) /\ TimeoutTypeOK /\ ~timedOut[r]
      /\ handler[r] # "killed" /\ handler[r] # "idle"
      /\ UNCHANGED <<handler, done, wroteHeader>>
  BY DEF AnswerInv, Answered, TimesOutLast, Sent, Fresh, Timeout
<1>2. /\ server'[r] = "returned" /\ timedOut'[r]
      /\ \A q \in Requests : q # r => server'[q] = server[q] /\ timedOut'[q] = timedOut[q]
      /\ server' \in [Requests -> {"idle", "select", "returned", "lost"}]
      /\ timedOut' \in [Requests -> BOOLEAN]
  BY <1>1 DEF TimeoutTypeOK, Timeout
<1>3. /\ response' \in [Requests -> Seq(ResponseParts)]
      /\ response'[r] \in {<<"status">>, <<"status", "body">>, <<"status", "page">>}
      /\ \A q \in Requests : q # r => response'[q] = response[q]
  <2>1. CASE wroteHeader[r]
    <3>1. response[r] \in {<<"status">>, <<"status", "body">>}
      BY <1>1, <2>1 DEF TimeoutTypeOK, Answered, Sent
    <3> QED BY <1>1, <2>1, <3>1 DEF Timeout, PageDue, TimeoutTypeOK, ResponseParts
  <2>2. CASE ~wroteHeader[r]
    <3>1. response[r] = <<>> /\ Send(r, <<"status", "page">>)
      BY <1>1, <2>2 DEF TimeoutTypeOK, Answered, Sent, Timeout, PageDue
    <3> QED BY <3>1, Sends, Parts, Joined
  <2> QED BY <2>1, <2>2
<1>4. TimeoutTypeOK' /\ \A q \in Requests : q # r => SameRequest(q)
  BY <1>1, <1>2, <1>3 DEF TimeoutTypeOK, ResponseParts, SameRequest
<1>5. Answered(r)'
  BY <1>1, <1>2, <1>3 DEF Answered, TimesOutLast, Fresh, Sent, Running
<1> QED BY <1>4, <1>5, OnlyOne

LEMMA LoseKeeps == ASSUME AnswerInv, NEW S, Lose(S) PROVE AnswerInv'
<1>1. TimeoutTypeOK'
  BY DEF AnswerInv, TimeoutTypeOK, Lose
<1>2. ASSUME NEW r \in Requests PROVE Answered(r)'
  <2>1. /\ server'[r] = server[r] \/ (server[r] = "select" /\ server'[r] = "lost" /\ r \in S)
        /\ \/ handler'[r] = handler[r] /\ (r \notin S \/ handler[r] \in {"idle", "ended"})
           \/ r \in S /\ handler'[r] = "killed" /\ handler[r] \notin {"idle", "ended"}
        /\ r \in S => server'[r] # "select"
        /\ UNCHANGED <<done, timedOut, wroteHeader, response>>
    BY DEF Lose
  <2>2. Answered(r) /\ handler[r] \in {"idle", "run", "body", "done", "ended", "killed"}
    BY DEF AnswerInv, TimeoutTypeOK
  <2> QED BY <2>1, <2>2 DEF Answered, TimesOutLast, Fresh, Sent, Running
<1> QED BY <1>1, <1>2 DEF AnswerInv
-----------------------------------------------------------------------------
(***************************************************************************)
(* Instances on one database: a handle is published from the first         *)
(* connection on and only updateDB closes it; a transaction on             *)
(* DF_ITEM_STAT belongs to the call that an instance is in.                *)
(***************************************************************************)
OneHandle(i) ==
    /\ open[i] = IF dbInstance[i] = "open" THEN 1 ELSE 0
    /\ pc[i] \in {"down", "connect"} => dbInstance[i] = "nil"
    /\ pc[i] = "reopen" => dbInstance[i] = "closed"

UpgradeSteps == {"phase", "alter", "bump", "release"}

InCall(i) ==
    /\ tx[i] => pc[i] \in Calls
    /\ pc[i] \in UpgradeSteps => at[i] > 0

StartInv == StartTypeOK /\ \A i \in Instances : OneHandle(i) /\ InCall(i)

(***************************************************************************)
(* With a last upgrader 1 or 2 there is one upgrade at most, to the last   *)
(* version: the tables only ever go there.                                 *)
(***************************************************************************)
HasTables(i) == pc[i] \notin {"down", "connect", "tables"}

BeforeUpgraders == {"down", "connect", "tables", "init", "retrieve"}

Upgrades(i) ==
    /\ pc[i] \in BeforeUpgraders => at[i] = 0
    /\ HasTables(i) => schema > 0
    /\ pc[i] \in UpgradeSteps => at[i] = Latest
    /\ pc[i] \in {"bump", "release"} => schema = Latest
    /\ pc[i] = "upgrader" /\ at[i] = Latest => schema = Latest
    /\ pc[i] = "init" /\ tx[i] => snap[i] = Absent
    /\ Listening(i) => schema = Latest

VersionTrue ==
    /\ stat.version = Latest => schema = Latest
    /\ stat.version = Absent => schema \in {0, Latest}

UpgradeInv == StartInv /\ VersionTrue /\ \A i \in Instances : Upgrades(i)
SameInstance(i) ==
    /\ pc'[i] = pc[i] /\ tries'[i] = tries[i] /\ at'[i] = at[i] /\ tx'[i] = tx[i]
    /\ snap'[i] = snap[i] /\ dbInstance'[i] = dbInstance[i] /\ open'[i] = open[i]

OthersSame(i) == \A j \in Instances : j # i => SameInstance(j)

LEMMA OnlyInstance ==
    ASSUME StartInv, NEW i \in Instances, OthersSame(i),
           StartTypeOK', OneHandle(i)', InCall(i)'
    PROVE  StartInv'
  BY DEF StartInv, OthersSame, SameInstance, OneHandle, InCall

LEMMA DieClears ==
    ASSUME StartTypeOK, NEW i \in Instances, Die(i)
    PROVE  /\ pc'[i] = "down" /\ at'[i] = 0 /\ tx'[i] = FALSE
           /\ dbInstance'[i] = "nil" /\ open'[i] = 0
           /\ OthersSame(i)
           /\ UNCHANGED <<dbVars, crashes>> => StartTypeOK'
<1>1. /\ pc'[i] = "down" /\ at'[i] = 0 /\ tx'[i] = FALSE
      /\ dbInstance'[i] = "nil" /\ open'[i] = 0
      /\ OthersSame(i)
  BY DEF StartTypeOK, Die, OthersSame, SameInstance
<1>2. ASSUME UNCHANGED <<dbVars, crashes>> PROVE StartTypeOK'
  BY <1>2, StartupAssumption DEF StartTypeOK, Die, dbVars, Absent, Calls
<1> QED BY <1>1, <1>2

LEMMA DieKeeps ==
    ASSUME StartInv, NEW i \in Instances, Die(i), UNCHANGED <<dbVars, crashes>>
    PROVE  StartInv'
<1>1. StartTypeOK' /\ OthersSame(i) /\ OneHandle(i)' /\ InCall(i)'
  BY DieClears DEF StartInv, OneHandle, InCall, UpgradeSteps
<1> QED BY <1>1, OnlyInstance

LEMMA BootKeeps == ASSUME StartInv, NEW i \in Instances, Boot(i) PROVE StartInv'
<1>1. StartTypeOK'
  BY DEF StartInv, StartTypeOK, Boot, Go, dbVars
<1>2. OthersSame(i)
  BY DEF StartInv, StartTypeOK, Boot, Go, OthersSame, SameInstance
<1>3. OneHandle(i)' /\ InCall(i)'
  BY DEF StartInv, StartTypeOK, Boot, Go, OneHandle, InCall, Calls, UpgradeSteps
<1> QED BY <1>1, <1>2, <1>3, OnlyInstance

LEMMA ConnectOkKeeps == ASSUME StartInv, NEW i \in Instances, ConnectOk(i) PROVE StartInv'
<1>1. open[i] = 0
  BY DEF StartInv, OneHandle, ConnectOk
<1>2. StartTypeOK'
  BY <1>1 DEF StartInv, StartTypeOK, ConnectOk, Publish, Go, dbVars
<1>3. OthersSame(i)
  BY DEF StartInv, StartTypeOK, ConnectOk, Publish, Go, OthersSame, SameInstance
<1>4. OneHandle(i)' /\ InCall(i)'
  BY <1>1 DEF StartInv, StartTypeOK, ConnectOk, Publish, Go, OneHandle, InCall, Calls, UpgradeSteps
<1> QED BY <1>2, <1>3, <1>4, OnlyInstance

LEMMA ConnectFailsKeeps == ASSUME StartInv, NEW i \in Instances, ConnectFails(i) PROVE StartInv'
<1>1. CASE LastTry(i)
  BY <1>1, DieKeeps DEF ConnectFails
<1>2. CASE ~LastTry(i)
  <2>1. StartTypeOK'
    <3>1. tries[i] + 1 \in 0..Tries - 1
      BY <1>2, StartupAssumption DEF StartInv, StartTypeOK, LastTry
    <3> QED BY <1>2, <3>1 DEF StartInv, StartTypeOK, ConnectFails, dbVars
  <2>2. OthersSame(i)
    BY <1>2 DEF StartInv, StartTypeOK, ConnectFails, OthersSame, SameInstance
  <2>3. OneHandle(i)' /\ InCall(i)'
    BY <1>2 DEF StartInv, StartTypeOK, ConnectFails, OneHandle, InCall
  <2> QED BY <2>1, <2>2, <2>3, OnlyInstance
<1> QED BY <1>1, <1>2

LEMMA CreateTablesKeeps == ASSUME StartInv, NEW i \in Instances, CreateTables(i) PROVE StartInv'
<1>1. StartTypeOK'
  BY StartupAssumption DEF StartInv, StartTypeOK, CreateTables, Go, Calls
<1>2. OthersSame(i)
  BY DEF StartInv, StartTypeOK, CreateTables, Go, OthersSame, SameInstance
<1>3. OneHandle(i)' /\ InCall(i)'
  BY DEF StartInv, StartTypeOK, CreateTables, Go, OneHandle, InCall, Calls, UpgradeSteps
<1> QED BY <1>1, <1>2, <1>3, OnlyInstance
-----------------------------------------------------------------------------
(***************************************************************************)
(* The calls of updateOrSetStat.                                           *)
(***************************************************************************)
LEMMA StatBeginKeeps == ASSUME StartInv, NEW i \in Instances, StatBegin(i) PROVE StartInv'
<1> DEFINE old == stat[Key(pc[i])]
<1>1. StartTypeOK /\ pc[i] \in Calls /\ UNCHANGED <<dbVars, crashes>>
  BY DEF StartInv, StatBegin
<1>2. CASE old \in IfOldStat(pc[i]) \union {Absent}
  <2>1. /\ tx' = [tx EXCEPT ![i] = TRUE] /\ snap' = [snap EXCEPT ![i] = old]
        /\ UNCHANGED <<pc, tries, at, dbInstance, open>>
    BY <1>2 DEF StatBegin
  <2>2. old \in Absent..Latest
    <3>1. old \in {stat.version, stat.phase}
      BY DEF Key
    <3> QED BY <1>1, <3>1, StartupAssumption DEF StartTypeOK, Absent, Serving, Upgrading
  <2> HIDE DEF old
  <2>3. StartTypeOK'
    BY <1>1, <2>1, <2>2 DEF StartTypeOK, dbVars
  <2>4. OthersSame(i)
    BY <1>1, <2>1 DEF StartTypeOK, OthersSame, SameInstance
  <2>5. OneHandle(i)' /\ InCall(i)'
    BY <1>1, <2>1 DEF StartInv, OneHandle, InCall
  <2> QED BY <2>3, <2>4, <2>5, OnlyInstance
<1>3. CASE old \notin IfOldStat(pc[i]) \union {Absent} /\ Tolerated(pc[i])
  <2>1. /\ pc' = [pc EXCEPT ![i] = "retrieve"]
        /\ UNCHANGED <<tries, at, tx, snap, dbInstance, open>> /\ tx[i] = FALSE
    BY <1>1, <1>3 DEF StatBegin, Tolerated, Go, After, StartTypeOK
  <2>2. StartTypeOK'
    BY <1>1, <2>1 DEF StartTypeOK, dbVars
  <2>3. OthersSame(i)
    BY <1>1, <2>1 DEF StartTypeOK, OthersSame, SameInstance
  <2>4. OneHandle(i)' /\ InCall(i)'
    BY <1>1, <2>1 DEF StartInv, StartTypeOK, OneHandle, InCall, UpgradeSteps, Calls
  <2> QED BY <2>2, <2>3, <2>4, OnlyInstance
<1>4. CASE old \notin IfOldStat(pc[i]) \union {Absent} /\ ~Tolerated(pc[i])
  BY <1>1, <1>4, DieKeeps DEF StatBegin
<1> QED BY <1>2, <1>3, <1>4

\* The end of a transaction: what follows depends on the call alone.
LEMMA EndTxKeeps ==
    ASSUME StartInv, NEW i \in Instances, tx[i], EndTx(i),
           stat' \in [version : {Absent} \union 1..Latest, phase : {Absent, Serving, Upgrading}]
    PROVE  StartInv'
<1>1. StartTypeOK /\ pc[i] \in Calls /\ (pc[i] \in UpgradeSteps => at[i] > 0)
  BY DEF StartInv, InCall
<1>2. /\ After(pc[i]) \in {"retrieve", "alter", "release", "upgrader"}
      /\ After(pc[i]) \in UpgradeSteps => pc[i] \in UpgradeSteps
  BY <1>1 DEF After, Calls, UpgradeSteps
<1>3. pc'[i] = After(pc[i]) /\ tx'[i] = FALSE
      /\ UNCHANGED <<db, schema, outages, tries, at, dbInstance, open, crashes>>
  BY <1>1 DEF EndTx, Go, StartTypeOK
<1>4. StartTypeOK'
  <2>1. Absent \in Absent..Latest
    BY StartupAssumption DEF Absent
  <2>2. After(pc[i]) \in Calls \union {"retrieve", "alter", "upgrader"}
    BY <1>2 DEF Calls
  <2> QED BY <1>1, <2>1, <2>2 DEF EndTx, Go, StartTypeOK
<1>5. OthersSame(i)
  BY <1>1 DEF EndTx, Go, StartTypeOK, OthersSame, SameInstance
<1>6. OneHandle(i)' /\ InCall(i)'
  BY <1>1, <1>2, <1>3 DEF StartInv, OneHandle, InCall, Calls
<1> QED BY <1>4, <1>5, <1>6, OnlyInstance

LEMMA CommitType ==
    ASSUME StartInv, NEW i \in Instances, StatCommit(i)
    PROVE  stat' \in [version : {Absent} \union 1..Latest, phase : {Absent, Serving, Upgrading}]
<1>1. /\ pc[i] \in Calls /\ (pc[i] = "bump" => at[i] \in 1..Latest)
      /\ stat \in [version : {Absent} \union 1..Latest, phase : {Absent, Serving, Upgrading}]
      /\ stat' = [stat EXCEPT ![Key(pc[i])] = NewStat(i)]
      /\ Latest \in 1..Latest
  BY StartupAssumption DEF StartInv, StartTypeOK, InCall, StatCommit, UpgradeSteps
<1>2. \/ Key(pc[i]) = "version" /\ NewStat(i) \in 1..Latest
      \/ Key(pc[i]) = "phase" /\ NewStat(i) \in {Serving, Upgrading}
  BY <1>1 DEF Key, NewStat, Calls
<1> QED BY <1>1, <1>2

LEMMA StatStepKeeps ==
    ASSUME StartInv, NEW i \in Instances, StatCommit(i) \/ StatCollides(i) \/ CommitLost(i)
    PROVE  StartInv'
<1>1. CASE StatCommit(i)
  BY <1>1, CommitType, EndTxKeeps DEF StatCommit
<1>2. CASE StatCollides(i)
  BY <1>2, DieKeeps DEF StatCollides
<1>3. CASE CommitLost(i)
  <2>1. stat' \in [version : {Absent} \union 1..Latest, phase : {Absent, Serving, Upgrading}]
    BY <1>3 DEF CommitLost, StartInv, StartTypeOK
  <2> QED BY <1>3, <2>1, EndTxKeeps DEF CommitLost
<1> QED BY <1>1, <1>2, <1>3
-----------------------------------------------------------------------------
(***************************************************************************)
(* From the version to the listener, and updateDB after it.                *)
(***************************************************************************)
LEMMA CheckVersionKeeps ==
    ASSUME StartInv, NEW i \in Instances, CheckVersion(i) PROVE StartInv'
<1>1. StartTypeOK'
  BY DEF StartInv, StartTypeOK, CheckVersion, Go, dbVars
<1>2. OthersSame(i)
  BY DEF StartInv, StartTypeOK, CheckVersion, Go, OthersSame, SameInstance
<1>3. OneHandle(i)' /\ InCall(i)'
  BY DEF StartInv, StartTypeOK, CheckVersion, Go, OneHandle, InCall, Calls, UpgradeSteps
<1> QED BY <1>1, <1>2, <1>3, OnlyInstance

LEMMA NextUpgraderKeeps ==
    ASSUME StartInv, NEW i \in Instances, NextUpgrader(i) PROVE StartInv'
<1> DEFINE new == at[i] + 1
<1>1. /\ StartTypeOK /\ pc[i] = "upgrader" /\ at[i] < Latest /\ UNCHANGED <<dbVars, crashes>>
      /\ new \in 1..Latest
  BY StartupAssumption DEF StartInv, StartTypeOK, NextUpgrader
<1>2. CASE Die(i)
  BY <1>1, <1>2, DieKeeps
<1>3. CASE /\ at' = [at EXCEPT ![i] = new]
           /\ pc' = pc \/ Go(i, "phase")
           /\ UNCHANGED <<tries, tx, snap, dbInstance, open>>
  <2>1. pc'[i] \in {"upgrader", "phase"} /\ at'[i] = new
    BY <1>1, <1>3 DEF StartTypeOK, Go
  <2>2. pc' \in [Instances -> Calls \union {"down", "connect", "tables", "retrieve", "upgrader",
                                            "alter", "listen", "reopen"}]
    BY <1>1, <1>3 DEF StartTypeOK, Go, Calls
  <2>3. at' \in [Instances -> 0..Latest]
    BY <1>1, <1>3, StartupAssumption DEF StartTypeOK
  <2>4. StartTypeOK'
    BY <1>1, <1>3, <2>2, <2>3 DEF StartTypeOK, dbVars
  <2>5. OthersSame(i)
    BY <1>1, <1>3 DEF StartTypeOK, Go, OthersSame, SameInstance
  <2>6. OneHandle(i)' /\ InCall(i)'
    BY <1>1, <1>3, <2>1 DEF StartInv, OneHandle, InCall, Calls
  <2> QED BY <2>4, <2>5, <2>6, OnlyInstance
<1> QED BY <1>2, <1>3 DEF NextUpgrader

LEMMA AlterKeeps == ASSUME StartInv, NEW i \in Instances, Alter(i) PROVE StartInv'
<1>1. StartTypeOK'
  BY DEF StartInv, StartTypeOK, Alter, After, Go, Calls
<1>2. OthersSame(i)
  BY DEF StartInv, StartTypeOK, Alter, Go, OthersSame, SameInstance
<1>3. OneHandle(i)' /\ InCall(i)'
  BY DEF StartInv, StartTypeOK, Alter, After, Go, OneHandle, InCall, Calls, UpgradeSteps
<1> QED BY <1>1, <1>2, <1>3, OnlyInstance

LEMMA ListenKeeps == ASSUME StartInv, NEW i \in Instances, Listen(i) PROVE StartInv'
<1>1. StartTypeOK'
  BY DEF StartInv, StartTypeOK, Listen, Go, dbVars
<1>2. OthersSame(i)
  BY DEF StartInv, StartTypeOK, Listen, Go, OthersSame, SameInstance
<1>3. OneHandle(i)' /\ InCall(i)'
  BY DEF StartInv, StartTypeOK, Listen, Go, OneHandle, InCall, Calls, UpgradeSteps
<1> QED BY <1>1, <1>2, <1>3, OnlyInstance

LEMMA PingFailsKeeps == ASSUME StartInv, NEW i \in Instances, PingFails(i) PROVE StartInv'
<1>1. /\ StartTypeOK /\ OneHandle(i) /\ InCall(i) /\ pc[i] = "listen" /\ open'[i] = 0
      /\ open' \in [Instances -> 0..1]
  BY DEF StartInv, StartTypeOK, OneHandle, PingFails, Close
<1>2. StartTypeOK'
  BY <1>1 DEF StartTypeOK, PingFails, Go, dbVars
<1>3. OthersSame(i)
  BY <1>1 DEF StartTypeOK, PingFails, Close, Go, OthersSame, SameInstance
<1>4. OneHandle(i)' /\ InCall(i)'
  BY <1>1 DEF StartTypeOK, PingFails, Go, OneHandle, InCall, Calls, UpgradeSteps
<1> QED BY <1>2, <1>3, <1>4, OnlyInstance

LEMMA ReopenKeeps == ASSUME StartInv, NEW i \in Instances, Reopen(i) PROVE StartInv'
<1>1. /\ StartTypeOK /\ OneHandle(i) /\ InCall(i) /\ pc[i] = "reopen"
      /\ dbInstance[i] = "closed" /\ open[i] = 0
  BY DEF StartInv, OneHandle, Reopen
<1>2. StartTypeOK'
  BY <1>1 DEF StartTypeOK, Reopen, Publish, Go, dbVars
<1>3. OthersSame(i)
  BY <1>1 DEF StartTypeOK, Reopen, Publish, Go, OthersSame, SameInstance
<1>4. OneHandle(i)' /\ InCall(i)'
  BY <1>1 DEF StartTypeOK, Reopen, Publish, Go, OneHandle, InCall, Calls, UpgradeSteps
<1> QED BY <1>2, <1>3, <1>4, OnlyInstance

LEMMA StartStepKeeps == ASSUME StartInv, NEW i \in Instances, StartStep(i) PROVE StartInv'
<1>1. CASE StartFails(i)
  BY <1>1, DieKeeps DEF StartFails
<1> QED
  BY <1>1, BootKeeps, ConnectOkKeeps, ConnectFailsKeeps, CreateTablesKeeps, StatBeginKeeps,
     StatStepKeeps, CheckVersionKeeps, NextUpgraderKeeps, AlterKeeps, ListenKeeps,
     PingFailsKeeps, ReopenKeeps DEF StartStep

LEMMA CrashKeeps == ASSUME StartInv, NEW i \in Instances, CrashStart(i) PROVE StartInv'
<1>1. /\ pc'[i] = "down" /\ at'[i] = 0 /\ tx'[i] = FALSE /\ dbInstance'[i] = "nil"
      /\ open'[i] = 0 /\ OthersSame(i)
  BY DieClears DEF StartInv, CrashStart
<1>2. StartTypeOK'
  <2>1. crashes' \in 0..MaxCrashes
    BY StartupAssumption DEF StartInv, StartTypeOK, CrashStart
  <2>2. /\ pc' \in [Instances -> Calls \union {"down", "connect", "tables", "retrieve",
                                                "upgrader", "alter", "listen", "reopen"}]
        /\ tries' \in [Instances -> 0..Tries - 1]
        /\ at' \in [Instances -> 0..Latest]
        /\ snap' \in [Instances -> Absent..Latest]
    BY StartupAssumption DEF StartInv, StartTypeOK, CrashStart, Die, Absent
  <2> QED BY <2>1, <2>2 DEF StartInv, StartTypeOK, CrashStart, Die, dbVars
<1>3. OneHandle(i)' /\ InCall(i)'
  BY <1>1 DEF OneHandle, InCall, UpgradeSteps
<1> QED BY <1>1, <1>2, <1>3, OnlyInstance

LEMMA DatabaseKeeps == ASSUME StartInv, Outage \/ Recover PROVE StartInv'
<1>1. UNCHANGED <<schema, stat, procVars, crashes>>
  BY DEF Outage, Recover
<1>2. db' \in BOOLEAN
  BY DEF Outage, Recover
<1>3. outages' \in 0..MaxOutages
  BY StartupAssumption DEF StartInv, StartTypeOK, Outage, Recover
<1>4. StartTypeOK'
  BY <1>1, <1>2, <1>3 DEF StartInv, StartTypeOK, procVars
<1> QED BY <1>1, <1>4 DEF StartInv, OneHandle, InCall, procVars
-----------------------------------------------------------------------------
(***************************************************************************)
(* One upgrade at most: every step moves the tables to the last version or *)
(* leaves them.                                                            *)
(***************************************************************************)
\* Instances that a step leaves alone keep their part of the invariant.
LEMMA OthersUpgrade ==
    ASSUME UpgradeInv, NEW i \in Instances, OthersSame(i), StartInv', VersionTrue',
           schema' \in {schema, Latest}, Upgrades(i)'
    PROVE  UpgradeInv'
<1>1. ASSUME NEW j \in Instances, j # i PROVE Upgrades(j)'
  BY <1>1, StartupAssumption
  DEF UpgradeInv, Upgrades, OthersSame, SameInstance, HasTables, Listening
<1> QED BY <1>1 DEF UpgradeInv
LEMMA DieUpgrade ==
    ASSUME UpgradeInv, NEW i \in Instances, Die(i), UNCHANGED dbVars, StartInv'
    PROVE  UpgradeInv'
<1>1. pc'[i] = "down" /\ at'[i] = 0 /\ OthersSame(i)
  BY DieClears DEF UpgradeInv, StartInv
<1>2. Upgrades(i)'
  BY <1>1 DEF Upgrades, BeforeUpgraders, HasTables, Listening, UpgradeSteps
<1>3. VersionTrue' /\ schema' = schema
  BY DEF UpgradeInv, VersionTrue, dbVars
<1> QED BY <1>1, <1>2, <1>3, OthersUpgrade

LEMMA ConnectUpgrade ==
    ASSUME UpgradeInv, NEW i \in Instances,
           Boot(i) \/ ConnectOk(i) \/ ConnectFails(i) \/ CreateTables(i)
    PROVE  UpgradeInv'
<1>1. StartInv'
  BY StartStepKeeps DEF UpgradeInv, StartStep
<1>2. CASE Boot(i) \/ ConnectOk(i) \/ (ConnectFails(i) /\ ~LastTry(i))
  <2>1. /\ pc'[i] \in {"connect", "tables"} /\ pc[i] \in {"down", "connect"}
        /\ OthersSame(i) /\ UNCHANGED <<dbVars, at>>
    BY <1>2 DEF UpgradeInv, StartInv, StartTypeOK, Boot, ConnectOk, ConnectFails, Publish, Go,
                OthersSame, SameInstance
  <2>2. Upgrades(i)'
    BY <2>1 DEF UpgradeInv, Upgrades, BeforeUpgraders, HasTables, Listening, UpgradeSteps
  <2>3. VersionTrue' /\ schema' = schema
    BY <2>1 DEF UpgradeInv, VersionTrue, dbVars
  <2> QED BY <1>1, <2>1, <2>2, <2>3, OthersUpgrade
<1>3. CASE ConnectFails(i) /\ LastTry(i)
  BY <1>1, <1>3, DieUpgrade DEF ConnectFails
<1>4. CASE CreateTables(i)
  <2>1. /\ pc'[i] = "init" /\ OthersSame(i) /\ UNCHANGED <<at, tx, stat>>
        /\ schema' = IF schema = 0 THEN Latest ELSE schema
    BY <1>4 DEF UpgradeInv, StartInv, StartTypeOK, CreateTables, Go, OthersSame, SameInstance
  <2>2. ~tx[i]
    BY <1>4 DEF UpgradeInv, StartInv, InCall, CreateTables, Calls
  <2>3. schema' > 0 /\ schema' \in {schema, Latest}
    BY <2>1, StartupAssumption DEF UpgradeInv, StartInv, StartTypeOK
  <2>4. Upgrades(i)'
    BY <1>4, <2>1, <2>2, <2>3
    DEF UpgradeInv, Upgrades, BeforeUpgraders, CreateTables, Listening, UpgradeSteps
  <2>5. VersionTrue'
    BY <2>1 DEF UpgradeInv, VersionTrue
  <2> QED BY <1>1, <2>1, <2>3, <2>4, <2>5, OthersUpgrade
<1> QED BY <1>2, <1>3, <1>4

LEMMA StatBeginUpgrade ==
    ASSUME UpgradeInv, NEW i \in Instances, StatBegin(i)
    PROVE  UpgradeInv'
<1> DEFINE old == stat[Key(pc[i])]
<1>1. /\ StartInv' /\ StartTypeOK /\ Upgrades(i) /\ pc[i] \in Calls /\ ~tx[i]
      /\ UNCHANGED <<dbVars, crashes>>
  BY StartStepKeeps DEF UpgradeInv, StartInv, StartStep, StatBegin
<1>2. VersionTrue' /\ schema' = schema
  BY <1>1 DEF UpgradeInv, VersionTrue, dbVars
<1>3. CASE old \in IfOldStat(pc[i]) \union {Absent}
  <2>1. /\ tx' = [tx EXCEPT ![i] = TRUE] /\ snap' = [snap EXCEPT ![i] = old]
        /\ UNCHANGED <<pc, tries, at, dbInstance, open>>
    BY <1>3 DEF StatBegin
  <2>2. pc[i] = "init" => old = Absent
    <3>1. pc[i] = "init" => old \in {0, Absent} /\ old = stat.version
      BY <1>3 DEF IfOldStat, Key
    <3> QED BY <1>1, <3>1 DEF StartTypeOK, Absent
  <2> HIDE DEF old
  <2>3. snap'[i] = old /\ OthersSame(i)
    BY <1>1, <2>1 DEF StartTypeOK, OthersSame, SameInstance
  <2>4. Upgrades(i)'
    BY <1>1, <1>2, <2>1, <2>2, <2>3 DEF Upgrades, BeforeUpgraders, HasTables, Listening
  <2> QED BY <1>1, <1>2, <2>3, <2>4, OthersUpgrade
<1>4. CASE old \notin IfOldStat(pc[i]) \union {Absent} /\ Tolerated(pc[i])
  <2>1. /\ pc' = [pc EXCEPT ![i] = "retrieve"] /\ pc[i] = "init"
        /\ UNCHANGED <<tries, at, tx, snap, dbInstance, open>>
    BY <1>4 DEF StatBegin, Tolerated, Go, After
  <2>2. pc'[i] = "retrieve" /\ OthersSame(i)
    BY <1>1, <2>1 DEF StartTypeOK, OthersSame, SameInstance
  <2>3. Upgrades(i)'
    BY <1>1, <1>2, <2>1, <2>2 DEF Upgrades, BeforeUpgraders, HasTables, Listening, UpgradeSteps
  <2> QED BY <1>1, <1>2, <2>2, <2>3, OthersUpgrade
<1>5. CASE old \notin IfOldStat(pc[i]) \union {Absent} /\ ~Tolerated(pc[i])
  BY <1>1, <1>5, DieUpgrade DEF StatBegin
<1> QED BY <1>3, <1>4, <1>5

\* What a transaction leaves to the steps after it.
LEMMA EndTxUpgrade ==
    ASSUME UpgradeInv, NEW i \in Instances, tx[i], EndTx(i), StartInv', VersionTrue'
    PROVE  UpgradeInv'
<1>1. StartTypeOK /\ pc[i] \in Calls /\ Upgrades(i)
  BY DEF UpgradeInv, StartInv, InCall
<1>2. /\ pc'[i] = After(pc[i]) /\ tx'[i] = FALSE /\ at'[i] = at[i] /\ schema' = schema
      /\ OthersSame(i)
  BY <1>1 DEF EndTx, Go, StartTypeOK, OthersSame, SameInstance
<1>3. Upgrades(i)'
  <2>1. CASE pc[i] = "init"
    BY <1>1, <1>2, <2>1 DEF Upgrades, BeforeUpgraders, After, HasTables, Listening, UpgradeSteps
  <2>2. CASE pc[i] = "phase"
    BY <1>1, <1>2, <2>2 DEF Upgrades, BeforeUpgraders, After, HasTables, Listening, UpgradeSteps
  <2>3. CASE pc[i] = "bump"
    BY <1>1, <1>2, <2>3 DEF Upgrades, BeforeUpgraders, After, HasTables, Listening, UpgradeSteps
  <2>4. CASE pc[i] = "release"
    BY <1>1, <1>2, <2>4 DEF Upgrades, BeforeUpgraders, After, HasTables, Listening, UpgradeSteps
  <2> QED BY <1>1, <2>1, <2>2, <2>3, <2>4 DEF Calls
<1> QED BY <1>2, <1>3, OthersUpgrade
LEMMA CommitUpgrade ==
    ASSUME UpgradeInv, NEW i \in Instances, StatCommit(i)
    PROVE  UpgradeInv'
<1>1. /\ StartInv' /\ StartTypeOK /\ Upgrades(i) /\ pc[i] \in Calls /\ tx[i] /\ EndTx(i)
      /\ VersionTrue /\ ~Duplicate(i) /\ schema' = schema
      /\ stat' = [stat EXCEPT ![Key(pc[i])] = NewStat(i)]
  BY StartStepKeeps DEF UpgradeInv, StartInv, InCall, StartStep, StatCommit, EndTx
<1>2. CASE pc[i] = "init"
  <2>1. snap[i] = Absent /\ stat.version = Absent /\ schema > 0
    BY <1>1, <1>2 DEF Upgrades, Duplicate, Key, HasTables
  <2>2. schema = Latest
    BY <1>1, <2>1 DEF VersionTrue
  <2>3. stat'.version = Latest
    BY <1>1, <1>2 DEF Key, NewStat, StartTypeOK
  <2> QED BY <1>1, <2>2, <2>3, StartupAssumption, EndTxUpgrade DEF VersionTrue, Absent
<1>3. CASE pc[i] = "bump"
  <2>1. schema = Latest /\ at[i] = Latest
    BY <1>1, <1>3 DEF Upgrades, UpgradeSteps
  <2>2. stat'.version = Latest
    BY <1>1, <1>3, <2>1 DEF Key, NewStat, StartTypeOK
  <2> QED BY <1>1, <2>1, <2>2, StartupAssumption, EndTxUpgrade DEF VersionTrue, Absent
<1>4. CASE pc[i] \in {"phase", "release"}
  <2>1. stat'.version = stat.version
    BY <1>1, <1>4 DEF Key, StartTypeOK
  <2> QED BY <1>1, <2>1, EndTxUpgrade DEF VersionTrue
<1> QED BY <1>1, <1>2, <1>3, <1>4 DEF Calls

LEMMA StatStepUpgrade ==
    ASSUME UpgradeInv, NEW i \in Instances, StatCommit(i) \/ StatCollides(i) \/ CommitLost(i)
    PROVE  UpgradeInv'
<1>1. StartInv'
  BY StartStepKeeps DEF UpgradeInv, StartStep
<1>2. CASE StatCollides(i)
  BY <1>1, <1>2, DieUpgrade DEF StatCollides
<1>3. CASE CommitLost(i)
  <2>1. VersionTrue' /\ tx[i] /\ EndTx(i)
    BY <1>3 DEF UpgradeInv, VersionTrue, CommitLost, EndTx
  <2> QED BY <1>1, <2>1, EndTxUpgrade
<1> QED BY <1>2, <1>3, CommitUpgrade

LEMMA CheckVersionUpgrade ==
    ASSUME UpgradeInv, NEW i \in Instances, CheckVersion(i)
    PROVE  UpgradeInv'
<1>1. /\ StartInv' /\ StartTypeOK /\ Upgrades(i) /\ UNCHANGED <<dbVars, at>> /\ OthersSame(i)
      /\ pc'[i] = IF Retrieved = Latest THEN "listen" ELSE "upgrader"
      /\ pc[i] = "retrieve" /\ tx'[i] = tx[i]
  BY StartStepKeeps
  DEF UpgradeInv, StartInv, StartTypeOK, StartStep, CheckVersion, Go, OthersSame, SameInstance
<1>2. VersionTrue' /\ schema' = schema
  BY <1>1 DEF UpgradeInv, VersionTrue, dbVars
<1>3. Retrieved = Latest => schema = Latest
  BY StartupAssumption DEF UpgradeInv, VersionTrue, Retrieved
<1>4. schema > 0
  BY <1>1 DEF Upgrades, HasTables
<1>5. at[i] # Latest
  BY <1>1, StartupAssumption DEF Upgrades, BeforeUpgraders
<1>6. pc'[i] \in {"listen", "upgrader"} /\ at'[i] # Latest
  BY <1>1, <1>5
<1>7. pc'[i] = "listen" => schema' = Latest
  BY <1>1, <1>2, <1>3
<1>8. Upgrades(i)'
  BY <1>2, <1>4, <1>6, <1>7 DEF Upgrades, BeforeUpgraders, HasTables, Listening, UpgradeSteps
<1> QED BY <1>1, <1>2, <1>8, OthersUpgrade

\* With two versions an upgrader whose turn has come is the last one.
LEMMA NextUpgraderUpgrade ==
    ASSUME UpgradeInv, NEW i \in Instances, NextUpgrader(i), Latest <= 2
    PROVE  UpgradeInv'
<1> DEFINE new == at[i] + 1
           current == IF Retrieved = 0 THEN 1 ELSE Retrieved
<1>1. /\ StartInv' /\ StartTypeOK /\ Upgrades(i) /\ UNCHANGED dbVars
      /\ pc[i] = "upgrader" /\ at[i] \in 0..Latest /\ at[i] < Latest
      /\ VersionTrue /\ schema > 0
  BY StartStepKeeps DEF UpgradeInv, StartInv, StartTypeOK, StartStep, NextUpgrader, Upgrades, HasTables
<1>2. VersionTrue' /\ schema' = schema
  BY <1>1 DEF VersionTrue, dbVars
<1>3. current \in 1..Latest /\ new \in 1..Latest
  BY <1>1, StartupAssumption DEF StartTypeOK, Retrieved, Absent
<1>4. CASE Die(i)
  BY <1>1, <1>4, DieUpgrade
<1>5. CASE /\ new <= current
           /\ at' = [at EXCEPT ![i] = new]
           /\ UNCHANGED <<pc, tries, tx, snap, dbInstance, open>>
  <2>1. at'[i] = new /\ pc'[i] = "upgrader" /\ OthersSame(i)
    BY <1>1, <1>5 DEF StartTypeOK, OthersSame, SameInstance
  <2>2. new = Latest => schema = Latest
    <3>1. ASSUME new = Latest PROVE schema = Latest
      <4>1. current = Latest
        BY <1>3, <1>5, <3>1
      <4>2. stat.version = Latest \/ stat.version = Absent
        BY <1>1, <4>1, StartupAssumption DEF StartTypeOK, Retrieved
      <4> QED BY <1>1, <4>2 DEF VersionTrue
    <3> QED BY <3>1
  <2>3. Upgrades(i)'
    BY <1>1, <1>2, <2>1, <2>2 DEF Upgrades, BeforeUpgraders, HasTables, Listening, UpgradeSteps
  <2> QED BY <1>1, <1>2, <2>1, <2>3, OthersUpgrade
<1>6. CASE /\ new = current + 1
           /\ at' = [at EXCEPT ![i] = new]
           /\ Go(i, "phase")
           /\ UNCHANGED <<tries, tx, snap, dbInstance, open>>
  <2>1. at'[i] = new /\ pc'[i] = "phase" /\ OthersSame(i)
    BY <1>1, <1>6 DEF StartTypeOK, Go, OthersSame, SameInstance
  <2>2. new = Latest
    BY <1>3, <1>6, StartupAssumption
  <2>3. Upgrades(i)'
    BY <1>1, <1>2, <2>1, <2>2 DEF Upgrades, BeforeUpgraders, HasTables, Listening
  <2> QED BY <1>1, <1>2, <2>1, <2>3, OthersUpgrade
<1> QED BY <1>4, <1>5, <1>6 DEF NextUpgrader

LEMMA ServingUpgrade ==
    ASSUME UpgradeInv, NEW i \in Instances,
           Alter(i) \/ Listen(i) \/ StartFails(i) \/ PingFails(i) \/ Reopen(i)
    PROVE  UpgradeInv'
<1>1. StartInv' /\ StartTypeOK /\ Upgrades(i)
  BY StartStepKeeps DEF UpgradeInv, StartInv, StartStep
<1>2. CASE Alter(i)
  <2>1. /\ schema' = Latest /\ stat' = stat /\ pc'[i] = "bump" /\ at'[i] = Latest
        /\ OthersSame(i)
    BY <1>1, <1>2
    DEF Alter, After, Go, Upgrades, UpgradeSteps, StartTypeOK, OthersSame, SameInstance
  <2>2. VersionTrue' /\ Upgrades(i)'
    BY <2>1, StartupAssumption DEF VersionTrue, Upgrades, BeforeUpgraders, HasTables, Listening
  <2> QED BY <1>1, <2>1, <2>2, OthersUpgrade
<1>3. CASE Listen(i) \/ PingFails(i) \/ Reopen(i)
  <2>1. /\ UNCHANGED dbVars /\ pc'[i] \in {"listen", "reopen"} /\ schema = Latest
        /\ OthersSame(i)
    BY <1>1, <1>3
    DEF Listen, PingFails, Reopen, Close, Publish, Go, Upgrades, Listening,
        StartTypeOK, OthersSame, SameInstance
  <2>2. VersionTrue' /\ schema' = schema
    BY <2>1 DEF UpgradeInv, VersionTrue, dbVars
  <2>3. Upgrades(i)'
    BY <2>1, <2>2, StartupAssumption DEF Upgrades, BeforeUpgraders, HasTables, Listening, UpgradeSteps
  <2> QED BY <1>1, <2>1, <2>2, <2>3, OthersUpgrade
<1>4. CASE StartFails(i)
  BY <1>1, <1>4, DieUpgrade DEF StartFails
<1> QED BY <1>2, <1>3, <1>4

LEMMA StartStepUpgrade ==
    ASSUME UpgradeInv, NEW i \in Instances, StartStep(i), Latest <= 2
    PROVE  UpgradeInv'
BY ConnectUpgrade, StatBeginUpgrade, StatStepUpgrade, CheckVersionUpgrade,
   NextUpgraderUpgrade, ServingUpgrade DEF StartStep

LEMMA EnvironmentUpgrade ==
    ASSUME UpgradeInv, Outage \/ Recover \/ \E i \in Instances : CrashStart(i)
    PROVE  UpgradeInv'
<1>1. ASSUME NEW i \in Instances, CrashStart(i) PROVE UpgradeInv'
  BY <1>1, CrashKeeps, DieUpgrade DEF UpgradeInv, CrashStart
<1>2. CASE Outage \/ Recover
  <2>1. StartInv' /\ UNCHANGED <<schema, stat, procVars>>
    BY <1>2, DatabaseKeeps DEF UpgradeInv, Outage, Recover
  <2> QED BY <2>1 DEF UpgradeInv, VersionTrue, Upgrades, BeforeUpgraders, HasTables, Listening, procVars
<1> QED BY <1>1, <1>2
-----------------------------------------------------------------------------
(***************************************************************************)
(* The service: a step belongs to the start of an instance, to a request,  *)
(* to the database, or is a crash, which takes requests along.             *)
(***************************************************************************)
ServiceInv == StartInv /\ AnswerInv /\ host \in [Requests -> Instances]

LEMMA InitServiceInv == Init => ServiceInv
<1> SUFFICES ASSUME Init PROVE ServiceInv
  OBVIOUS
<1>1. StartTypeOK
  <2>1. stat \in [version : {Absent} \union 1..Latest, phase : {Absent, Serving, Upgrading}]
    BY DEF Init, StartInit
  <2>2. schema \in 0..Latest /\ 0 \in 0..Latest /\ 0 \in 0..Tries - 1 /\ Absent \in Absent..Latest
        /\ 0 \in 0..MaxOutages /\ 0 \in 0..MaxCrashes
    BY StartupAssumption DEF Init, StartInit, Absent
  <2> QED BY <2>1, <2>2 DEF Init, StartInit, StartTypeOK
<1>2. \A i \in Instances : OneHandle(i) /\ InCall(i)
  BY DEF Init, StartInit, OneHandle, InCall, UpgradeSteps
<1>3. TimeoutTypeOK
  BY DEF Init, TimeoutInit, TimeoutTypeOK
<1>4. \A r \in Requests : Answered(r)
  BY DEF Init, TimeoutInit, Answered, TimesOutLast, Fresh, Sent, Running
<1> QED BY <1>1, <1>2, <1>3, <1>4 DEF Init, ServiceInv, StartInv, AnswerInv

LEMMA StartStutters == ASSUME StartInv, UNCHANGED stVars PROVE StartInv'
  BY DEF StartInv, StartTypeOK, OneHandle, InCall, stVars

LEMMA AnswerStutters == ASSUME AnswerInv, UNCHANGED twVars PROVE AnswerInv'
  BY DEF AnswerInv, TimeoutTypeOK, Answered, TimesOutLast, Fresh, Sent, twVars

LEMMA NextServiceInv == ServiceInv /\ [Next]_vars => ServiceInv'
<1> SUFFICES ASSUME ServiceInv, [Next]_vars PROVE ServiceInv'
  OBVIOUS
<1>1. ASSUME NEW i \in Instances, Start(i) PROVE ServiceInv'
  BY <1>1, StartStepKeeps, AnswerStutters DEF ServiceInv, Start
<1>2. ASSUME NEW i \in Instances, Crash(i) PROVE ServiceInv'
  BY <1>2, CrashKeeps, LoseKeeps DEF ServiceInv, Crash
<1>3. ASSUME NEW r \in Requests, Arrive(r) PROVE ServiceInv'
  BY <1>3, HandleKeeps, StartStutters DEF ServiceInv, Arrive
<1>4. ASSUME NEW r \in Requests, Respond(r) PROVE ServiceInv'
  BY <1>4, WriteHeaderKeeps, WriteKeeps, SignalDoneKeeps, TakeDoneKeeps, TimeoutKeeps,
     StartStutters DEF ServiceInv, Respond, HandlerStep, ServerStep
<1>5. CASE Database
  BY <1>5, DatabaseKeeps, AnswerStutters DEF ServiceInv, Database
<1>6. CASE UNCHANGED vars
  BY <1>6, StartStutters, AnswerStutters DEF ServiceInv, vars
<1> QED BY <1>1, <1>2, <1>3, <1>4, <1>5, <1>6 DEF Next

(***************************************************************************)
(* The inductive invariant of the start of instances (main, initDB,        *)
(* updateDB) and of the requests they answer (TimeoutHandle).              *)
(***************************************************************************)
THEOREM ServiceInvariant == Spec => []ServiceInv
BY InitServiceInv, NextServiceInv, PTL DEF Spec

(***************************************************************************)
(* The variables keep their types; in particular the channel done never    *)
(* holds a second value and an instance never more than one handle.        *)
(***************************************************************************)
THEOREM ServiceTypeOK == Spec => []TypeOK
<1>1. ServiceInv => TypeOK
  BY DEF ServiceInv, StartInv, AnswerInv, TypeOK
<1> QED BY <1>1, ServiceInvariant, PTL

(***************************************************************************)
(* connectDB and updateDB: however connections fail and come back, the     *)
(* published handle is the only one that is open.                          *)
(***************************************************************************)
THEOREM OneHandleOpen == Spec => []NoHandleLeft
<1>1. ServiceInv => NoHandleLeft
  BY DEF ServiceInv, StartInv, OneHandle, NoHandleLeft
<1> QED BY <1>1, ServiceInvariant, PTL

(***************************************************************************)
(* TimeoutHandle: a client gets the handler's answer or the timeout page,  *)
(* never both, however the handler's goroutine and the timer interleave.   *)
(***************************************************************************)
THEOREM AnswersOnce == Spec => []OneAnswer
<1>1. ServiceInv => OneAnswer
  <2> SUFFICES ASSUME ServiceInv, NEW r \in Requests
               PROVE  /\ response[r] \in {<<>>, <<"status">>, <<"status", "body">>,
                                          <<"status", "page">>}
                      /\ response[r] = <<"status", "page">> => timedOut[r]
                      /\ server[r] = "returned" =>
                            \/ response[r] \in {<<"status", "body">>, <<"status", "page">>}
                            \/ response[r] = <<"status">> /\ timedOut[r]
    BY DEF OneAnswer
  <2>1. Answered(r) /\ TimeoutTypeOK
    BY DEF ServiceInv, AnswerInv
  <2>2. handler[r] \in {"idle", "run", "body", "done", "ended", "killed"}
    BY <2>1 DEF TimeoutTypeOK
  <2>3. /\ <<>> # <<"status", "page">> /\ <<"status">> # <<"status", "page">>
        /\ <<"status", "body">> # <<"status", "page">>
    OBVIOUS
  <2>4. CASE timedOut[r]
    BY <2>1, <2>4 DEF Answered, Sent
  <2>5. CASE ~timedOut[r]
    BY <2>1, <2>2, <2>3, <2>5 DEF Answered, Sent, Fresh, TimesOutLast
  <2> QED BY <2>4, <2>5
<1> QED BY <1>1, ServiceInvariant, PTL

(***************************************************************************)
(* timeoutWriter: once the server's goroutine has returned, nothing that   *)
(* the handler still writes reaches the connection.                        *)
(***************************************************************************)
THEOREM NothingAfterReturn == Spec => SilentAfterReturn
<1>1. ServiceInv /\ [Next]_vars =>
        [\A r \in Requests : server[r] # "select" => response'[r] = response[r]]_response
  <2> SUFFICES ASSUME ServiceInv, [Next]_vars, NEW r \in Requests, server[r] # "select"
               PROVE  response'[r] = response[r]
    OBVIOUS
  <2>1. AnswerInv /\ response \in [Requests -> Seq(ResponseParts)]
    BY DEF ServiceInv, AnswerInv, TimeoutTypeOK, ResponseParts
  <2>2. ASSUME NEW q \in Requests, HandlerStep(q) \/ ServerStep(q)
        PROVE  response'[r] = response[r]
    <3>1. CASE q # r
      BY <2>1, <2>2, <3>1 DEF HandlerStep, ServerStep, WriteHeader, Write, SignalDone, TakeDone,
                              Timeout, Send
    <3>2. CASE q = r /\ (WriteHeader(q) \/ Write(q))
      <4>1. handler[r] \in Running
        BY <3>2 DEF WriteHeader, Write, Running
      <4>2. timedOut[r]
        BY <2>1, <4>1 DEF AnswerInv, Answered, TimesOutLast
      <4> QED BY <3>2, <4>2 DEF WriteHeader, Write, Closed
    <3>3. CASE q = r /\ (SignalDone(q) \/ ServerStep(q))
      BY <3>3 DEF SignalDone, ServerStep, TakeDone, Timeout
    <3> QED BY <2>2, <3>1, <3>2, <3>3 DEF HandlerStep
  <2>3. CASE \E q \in Requests : Respond(q)
    BY <2>2, <2>3 DEF Respond
  <2>4. CASE ~\E q \in Requests : Respond(q)
    BY <2>4 DEF Next, Start, Crash, Lose, Arrive, Handle, Database, vars, twVars
  <2> QED BY <2>3, <2>4
<1> QED BY <1>1, ServiceInvariant, PTL DEF Spec, SilentAfterReturn

(***************************************************************************)
(* TryToUpgradeDatabase: whichever instances start, collide, die or lose a *)
(* commit, one that listens works on the tables of the last upgrader.      *)
(* Latest is 1 in the code.  With a third version an instance whose commit *)
(* was lost can run an upgrader again over the tables of another.          *)
(***************************************************************************)
THEOREM ListensUpgraded ==
    ASSUME Latest <= 2
    PROVE  Spec => []ServesUpgraded
<1>1. Init => UpgradeInv
  <2> SUFFICES ASSUME Init PROVE UpgradeInv
    OBVIOUS
  <2>1. VersionTrue
    BY StartupAssumption DEF Init, StartInit, VersionTrue, Absent
  <2>2. \A i \in Instances : Upgrades(i)
    BY StartupAssumption
    DEF Init, StartInit, Upgrades, BeforeUpgraders, HasTables, UpgradeSteps, Listening
  <2> QED BY <2>1, <2>2, InitServiceInv DEF UpgradeInv, ServiceInv
<1>2. UpgradeInv /\ [Next]_vars => UpgradeInv'
  <2>1. ASSUME UpgradeInv, UNCHANGED stVars PROVE UpgradeInv'
    BY <2>1, StartStutters
    DEF UpgradeInv, VersionTrue, Upgrades, HasTables, Listening, stVars
  <2> QED
    BY <2>1, StartStepUpgrade, EnvironmentUpgrade
    DEF Next, Start, Crash, Arrive, Respond, Database, vars
<1>3. UpgradeInv => ServesUpgraded
  BY DEF UpgradeInv, Upgrades, ServesUpgraded
<1> QED BY <1>1, <1>2, <1>3, PTL DEF Spec
=============================================================================
