------------------------------- MODULE Startup -------------------------------
(***************************************************************************)
(* Instances of the service starting on one database: connectDB and its    *)
(* retries, TryToUpgradeDatabase with the version and the phase it keeps   *)
(* in DF_ITEM_STAT, and updateDB, which replaces a broken handle.  A       *)
(* failed start ends the process (main.go), and its container is started   *)
(* again.                                                                  *)
(*                                                                         *)
(* updateOrSetStat is a transaction without a lock: it reads the row in a  *)
(* snapshot, writes it by its key, and ignores the error of Commit.        *)
(***************************************************************************)
EXTENDS Integers

CONSTANTS
    Instances,
    Latest,        \* the version of the last upgrader: 1 in the code
    Tries,         \* connections tried by initDB: 3 in the code
    MaxOutages,    \* bound: times the database becomes unreachable
    MaxCrashes     \* bound: times an instance dies

ASSUME StartupAssumption ==
    /\ {Latest, Tries} \subseteq Nat \ {0}
    /\ {MaxOutages, MaxCrashes} \subseteq Nat

VARIABLES
    db,          \* the database answers
    schema,      \* ghost: the version of the tables, 0 when there are none
    stat,        \* the rows of DF_ITEM_STAT
    pc, tries,
    at,          \* NewVersion of the upgrader an instance has come to
    tx, snap,    \* the open transaction on a row, and what it read there
    dbInstance,  \* the published handle: "nil" | "open" | "closed"
    open,        \* handles opened and not closed
    outages, crashes

stVars == <<db, schema, stat, pc, tries, at, tx, snap, dbInstance, open, outages, crashes>>
dbVars == <<db, schema, stat, outages>>
procVars == <<pc, tries, at, tx, snap, dbInstance, open>>

Absent == -1
Serving == 0
Upgrading == 1

\* The calls of updateOrSetStat, in the order they are made.
Calls == {"init", "phase", "bump", "release"}

Listening(i) == pc[i] \in {"listen", "reopen"}

\* A new database, or one that a release before the last upgrader has served.
StartInit ==
    /\ db = TRUE
    /\ \/ schema = 0 /\ stat = [version |-> Absent, phase |-> Absent]
       \/ /\ schema \in 1..Latest
          /\ stat \in [version : {schema}, phase : {Absent, Serving}]
    /\ pc = [i \in Instances |-> "down"]
    /\ tries = [i \in Instances |-> 0]
    /\ at = [i \in Instances |-> 0]
    /\ tx = [i \in Instances |-> FALSE]
    /\ snap = [i \in Instances |-> Absent]
    /\ dbInstance = [i \in Instances |-> "nil"]
    /\ open = [i \in Instances |-> 0]
    /\ outages = 0
    /\ crashes = 0

-----------------------------------------------------------------------------
\* The process is gone, its connections are closed, its transaction is rolled back.
Die(i) ==
    /\ pc' = [pc EXCEPT ![i] = "down"]
    /\ tries' = [tries EXCEPT ![i] = 0]
    /\ at' = [at EXCEPT ![i] = 0]
    /\ tx' = [tx EXCEPT ![i] = FALSE]
    /\ snap' = [snap EXCEPT ![i] = Absent]
    /\ dbInstance' = [dbInstance EXCEPT ![i] = "nil"]
    /\ open' = [open EXCEPT ![i] = 0]

Go(i, next) == pc' = [pc EXCEPT ![i] = next]

Boot(i) ==
    /\ pc[i] = "down"
    /\ Go(i, "connect")
    /\ UNCHANGED <<dbVars, tries, at, tx, snap, dbInstance, open, crashes>>

Publish(i) ==
    /\ dbInstance' = [dbInstance EXCEPT ![i] = "open"]
    /\ open' = [open EXCEPT ![i] = @ + 1]

ConnectOk(i) ==
    /\ pc[i] = "connect" /\ db
    /\ Publish(i)
    /\ Go(i, "tables")
    /\ UNCHANGED <<dbVars, tries, at, tx, snap, crashes>>

\* Mutant: one try more.
LastTryMutant(i) == tries[i] = Tries

LastTry(i) == tries[i] + 1 = Tries

\* The ping fails: the handle is closed again.
ConnectFails(i) ==
    /\ pc[i] = "connect" /\ ~db
    /\ IF LastTry(i) THEN Die(i)
       ELSE /\ tries' = [tries EXCEPT ![i] = @ + 1]
            /\ UNCHANGED <<pc, at, tx, snap, dbInstance, open>>
    /\ UNCHANGED <<dbVars, crashes>>

\* CREATE TABLE IF NOT EXISTS, with the tables of the last upgrader.
CreateTables(i) ==
    /\ pc[i] = "tables" /\ db
    /\ schema' = IF schema = 0 THEN Latest ELSE schema
    /\ Go(i, "init")
    /\ UNCHANGED <<db, stat, outages, tries, at, tx, snap, dbInstance, open, crashes>>

-----------------------------------------------------------------------------
(***************************************************************************)
(* updateOrSetStat.  When there is no row, SetStatIf inserts one whatever  *)
(* the old value should have been; a row inserted meanwhile is a duplicate *)
(* key.                                                                    *)
(***************************************************************************)
Key(call) == IF call \in {"init", "bump"} THEN "version" ELSE "phase"

NewStat(i) == CASE pc[i] = "init"    -> Latest
                [] pc[i] = "phase"   -> Upgrading
                [] pc[i] = "bump"    -> at[i]
                [] pc[i] = "release" -> Serving

IfOldStat(call) == CASE call = "init"    -> {0}
                     [] call = "phase"   -> {Serving}
                     [] call = "release" -> {Upgrading}
                     [] OTHER            -> Nat

\* Mutant: the version is set before the tables are altered.
AfterMutant(step) == CASE step = "init" -> "retrieve" [] step = "phase" -> "bump"
                       [] step = "bump" -> "alter"    [] step = "alter" -> "release"
                       [] OTHER -> "upgrader"

\* What TryToUpgradeDatabase and _upgradeDatabase do next.
After(step) == CASE step = "init"  -> "retrieve" [] step = "phase" -> "alter"
                 [] step = "alter" -> "bump"     [] step = "bump"  -> "release"
                 [] OTHER -> "upgrader"

\* Mutant: ErrOldStatNotMatch of the first call is an error as well.
ToleratedMutant(call) == FALSE

Tolerated(call) == call = "init"

StatBegin(i) ==
    /\ pc[i] \in Calls /\ ~tx[i] /\ db
    /\ LET old == stat[Key(pc[i])] IN
       IF old \in IfOldStat(pc[i]) \union {Absent}
       THEN /\ tx' = [tx EXCEPT ![i] = TRUE]
            /\ snap' = [snap EXCEPT ![i] = old]
            /\ UNCHANGED <<pc, tries, at, dbInstance, open>>
       ELSE IF Tolerated(pc[i])
            THEN Go(i, After(pc[i])) /\ UNCHANGED <<tries, at, tx, snap, dbInstance, open>>
            ELSE Die(i)
    /\ UNCHANGED <<dbVars, crashes>>

EndTx(i) ==
    /\ tx' = [tx EXCEPT ![i] = FALSE]
    /\ snap' = [snap EXCEPT ![i] = Absent]
    /\ Go(i, After(pc[i]))
    /\ UNCHANGED <<db, schema, outages, tries, at, dbInstance, open, crashes>>

Duplicate(i) == snap[i] = Absent /\ stat[Key(pc[i])] # Absent

StatCommit(i) ==
    /\ tx[i] /\ ~Duplicate(i)
    /\ stat' = [stat EXCEPT ![Key(pc[i])] = NewStat(i)]
    /\ EndTx(i)

StatCollides(i) ==
    /\ tx[i] /\ Duplicate(i)
    /\ Die(i)
    /\ UNCHANGED <<dbVars, crashes>>

\* The connection breaks at the commit, whose error nobody looks at.
CommitLost(i) ==
    /\ tx[i] /\ ~db
    /\ UNCHANGED stat
    /\ EndTx(i)

-----------------------------------------------------------------------------
\* RetrieveStat reads a missing row as 0.
Retrieved == IF stat.version = Absent THEN 0 ELSE stat.version

CheckVersion(i) ==
    /\ pc[i] = "retrieve" /\ db
    /\ Go(i, IF Retrieved = Latest THEN "listen" ELSE "upgrader")
    /\ UNCHANGED <<dbVars, tries, at, tx, snap, dbInstance, open, crashes>>

\* The next upgrader: its turn has come, it is skipped, or it does not fit.
NextUpgrader(i) ==
    /\ pc[i] = "upgrader" /\ db /\ at[i] < Latest
    /\ LET new == at[i] + 1
           current == IF Retrieved = 0 THEN 1 ELSE Retrieved IN
       \/ /\ new <= current
          /\ at' = [at EXCEPT ![i] = new]
          /\ UNCHANGED <<pc, tries, tx, snap, dbInstance, open>>
       \/ /\ new = current + 1
          /\ at' = [at EXCEPT ![i] = new]
          /\ Go(i, "phase")
          /\ UNCHANGED <<tries, tx, snap, dbInstance, open>>
       \/ new > current + 1 /\ Die(i)
    /\ UNCHANGED <<dbVars, crashes>>

Alter(i) ==
    /\ pc[i] = "alter" /\ db
    /\ schema' = at[i]
    /\ Go(i, After("alter"))
    /\ UNCHANGED <<db, stat, outages, tries, at, tx, snap, dbInstance, open, crashes>>

Listen(i) ==
    /\ pc[i] = "upgrader" /\ at[i] = Latest
    /\ Go(i, "listen")
    /\ UNCHANGED <<dbVars, tries, at, tx, snap, dbInstance, open, crashes>>

\* A call of the database fails before the service listens.
StartFails(i) ==
    /\ ~db
    /\ \/ pc[i] \in Calls \union {"tables", "retrieve", "alter"}
       \/ pc[i] = "upgrader" /\ at[i] < Latest
    /\ Die(i)
    /\ UNCHANGED <<dbVars, crashes>>

-----------------------------------------------------------------------------
\* Mutant: the broken handle is dropped without Close.
CloseMutant(i) == UNCHANGED open

Close(i) == open' = [open EXCEPT ![i] = IF dbInstance[i] = "open" THEN @ - 1 ELSE @]

\* updateDB: the handle no longer answers.  It stays published.
PingFails(i) ==
    /\ pc[i] = "listen" /\ (~db \/ dbInstance[i] = "closed")
    /\ Close(i)
    /\ dbInstance' = [dbInstance EXCEPT ![i] = "closed"]
    /\ Go(i, "reopen")
    /\ UNCHANGED <<dbVars, tries, at, tx, snap, crashes>>

Reopen(i) ==
    /\ pc[i] = "reopen"
    /\ IF db THEN Publish(i) ELSE UNCHANGED <<dbInstance, open>>
    /\ Go(i, "listen")
    /\ UNCHANGED <<dbVars, tries, at, tx, snap, crashes>>

\* The environment.
Outage ==
    /\ db /\ outages < MaxOutages
    /\ db' = FALSE
    /\ outages' = outages + 1
    /\ UNCHANGED <<schema, stat, procVars, crashes>>

Recover ==
    /\ ~db
    /\ db' = TRUE
    /\ UNCHANGED <<schema, stat, outages, procVars, crashes>>

CrashStart(i) ==
    /\ pc[i] # "down" /\ crashes < MaxCrashes
    /\ crashes' = crashes + 1
    /\ Die(i)
    /\ UNCHANGED dbVars

StartStep(i) ==
    \/ Boot(i) \/ ConnectOk(i) \/ ConnectFails(i) \/ CreateTables(i)
    \/ StatBegin(i) \/ StatCommit(i) \/ StatCollides(i) \/ CommitLost(i)
    \/ CheckVersion(i) \/ NextUpgrader(i) \/ Alter(i) \/ Listen(i) \/ StartFails(i)
    \/ PingFails(i) \/ Reopen(i)

StartFairness == WF_stVars(Recover) /\ \A i \in Instances : WF_stVars(StartStep(i))

-----------------------------------------------------------------------------
StartTypeOK ==
    /\ db \in BOOLEAN
    /\ schema \in 0..Latest
    /\ stat \in [version : {Absent} \union 1..Latest, phase : {Absent, Serving, Upgrading}]
    /\ pc \in [Instances -> Calls \union {"down", "connect", "tables", "retrieve", "upgrader",
                                          "alter", "listen", "reopen"}]
    /\ tries \in [Instances -> 0..Tries - 1]
    /\ at \in [Instances -> 0..Latest]
    /\ tx \in [Instances -> BOOLEAN]
    /\ snap \in [Instances -> Absent..Latest]
    /\ dbInstance \in [Instances -> {"nil", "open", "closed"}]
    /\ open \in [Instances -> 0..1]
    /\ outages \in 0..MaxOutages
    /\ crashes \in 0..MaxCrashes

(***************************************************************************)
(* An instance that listens works on the tables of the last upgrader,      *)
(* whichever instances started, collided, died or lost a commit before:    *)
(* the version in DF_ITEM_STAT never runs ahead of the tables.             *)
(***************************************************************************)
ServesUpgraded == \A i \in Instances : Listening(i) => schema = Latest

(***************************************************************************)
(* The published handle is the only one an instance holds open, after any  *)
(* sequence of failed connections and reconnections.                       *)
(***************************************************************************)
NoHandleLeft ==
    \A i \in Instances : open[i] = IF dbInstance[i] = "open" THEN 1 ELSE 0

\* An upgrade was cut short: the phase is never reset, and no start passes it.
Stuck == stat.phase = Upgrading /\ stat.version # Latest

(***************************************************************************)
(* In the end every instance listens with an open handle, or an upgrade    *)
(* that died between its two phases locks out whoever starts.  Instances   *)
(* that collide on a row never keep each other from starting for ever.     *)
(***************************************************************************)
ServesAtLast ==
    <>[](\A i \in Instances : Listening(i) /\ dbInstance[i] = "open") \/ <>[]Stuck
=============================================================================
