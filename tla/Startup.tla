------------------------------ MODULE Startup ------------------------------
(***************************************************************************)
(* Stages 3 to 10 of cmd/adc/main.go: the connection to PostgreSQL (store/ *)
(* postgres.go) and the schema migrations (store/migrate.go), in several   *)
(* processes on one database.  Deployments have one replica, but a rolling *)
(* update starts the new release before it stops the old one, and nothing  *)
(* elects a leader.  A supervisor restarts a process that has exited.      *)
(***************************************************************************)
EXTENDS Integers

CONSTANTS
    Process,
    Release,        \* [Process -> the number of migrations it has embedded]
    MaxAttempts,    \* to connect: 30
    MaxFaults       \* bound: outages, failed statements, lost answers, crashes

\* A migration's version is its position in the directory: releases only append.
ASSUME StartupAssumption ==
    /\ Release \in [Process -> Nat]
    /\ MaxAttempts \in Nat \ {0} /\ MaxFaults \in Nat

VARIABLES
    up,             \* PostgreSQL is
    schema,         \* migrations whose statements have been committed
    recorded,       \* adc_schema_version
    stage,             \* [Process -> where it is]
    attempt,        \* [Process -> the attempt to connect]
    version,        \* [Process -> the migration it is at]
    faults

startupVars == <<up, schema, recorded, stage, attempt, version, faults>>

Migrations == UNION {1 .. Release[p] : p \in Process}

StartupTypeOK ==
    /\ up \in BOOLEAN
    /\ schema \subseteq Migrations /\ recorded \subseteq Migrations
    /\ stage \in [Process -> {"down", "connect", "create", "check", "execute", "commit", "run", "stopped"}]
    /\ attempt \in [Process -> 1 .. MaxAttempts]
    /\ \A p \in Process : version[p] \in 1 .. Release[p] + 1
    /\ faults \in 0 .. MaxFaults

StartupInit ==
    /\ up \in BOOLEAN
    /\ schema = {} /\ recorded = {}
    /\ stage = [p \in Process |-> "down"]
    /\ attempt = [p \in Process |-> 1] /\ version = [p \in Process |-> 1]
    /\ faults = 0

Fault == faults < MaxFaults /\ faults' = faults + 1

At(p, here)   == stage[p] = here
Goto(p, next) == stage' = [stage EXCEPT ![p] = next]

-----------------------------------------------------------------------------
(***************************************************************************)
(* The supervisor and PostgreSQL.                                          *)
(***************************************************************************)
StartProcess(p) ==
    /\ At(p, "down") /\ Goto(p, "connect")
    /\ attempt' = [attempt EXCEPT ![p] = 1] /\ version' = [version EXCEPT ![p] = 1]
    /\ UNCHANGED <<up, schema, recorded, faults>>

\* A rollout removes the process for good; before stage 10 no signal is handled.
StopProcess(p) ==
    /\ ~At(p, "stopped") /\ Goto(p, "stopped")
    /\ UNCHANGED <<up, schema, recorded, attempt, version, faults>>

Crash(p) ==
    /\ stage[p] \notin {"down", "stopped"} /\ Goto(p, "down") /\ Fault
    /\ UNCHANGED <<up, schema, recorded, attempt, version>>

InTransaction(p) == stage[p] \in {"execute", "commit"}

\* Open transactions are rolled back, and their processes exit.
GoDown ==
    /\ up /\ up' = FALSE /\ Fault
    /\ stage' = [p \in Process |-> IF InTransaction(p) THEN "down" ELSE stage[p]]
    /\ UNCHANGED <<schema, recorded, attempt, version>>

ComeUp ==
    /\ ~up /\ up' = TRUE
    /\ UNCHANGED <<schema, recorded, stage, attempt, version, faults>>

-----------------------------------------------------------------------------
(***************************************************************************)
(* ConnectWithRetry.                                                       *)
(***************************************************************************)
Connect(p) ==
    /\ At(p, "connect") /\ up /\ Goto(p, "create")
    /\ UNCHANGED <<up, schema, recorded, attempt, version, faults>>

\* After the last attempt the process exits.
ConnectFails(p) ==
    /\ At(p, "connect") /\ ~up
    /\ IF attempt[p] < MaxAttempts
       THEN attempt' = [attempt EXCEPT ![p] = @ + 1] /\ UNCHANGED stage
       ELSE Goto(p, "down") /\ UNCHANGED attempt
    /\ UNCHANGED <<up, schema, recorded, version, faults>>

-----------------------------------------------------------------------------
(***************************************************************************)
(* Migrate.                                                                *)
(***************************************************************************)
\* CREATE TABLE IF NOT EXISTS adc_schema_version
CreateVersionTable(p) ==
    /\ At(p, "create") /\ up /\ Goto(p, "check")
    /\ UNCHANGED <<up, schema, recorded, attempt, version, faults>>

\* Mutant: nobody looks whether the migration has been applied.
NeverApplied(v) == FALSE

Applied(v) == v \in recorded

\* Go on to the next migration, begin the transaction of this one, or run.
Check(p) ==
    /\ At(p, "check") /\ up
    /\ IF version[p] > Release[p]
       THEN Goto(p, "run") /\ UNCHANGED version
       ELSE IF Applied(version[p])
            THEN version' = [version EXCEPT ![p] = @ + 1] /\ UNCHANGED stage
            ELSE Goto(p, "execute") /\ UNCHANGED version
    /\ UNCHANGED <<up, schema, recorded, attempt, faults>>

\* Another transaction has the objects of this migration.
Locked(p) == \E q \in Process \ {p} : At(q, "commit") /\ version[q] = version[p]

\* Mutant: the version is recorded outside of the transaction.
ExecuteRecording(p) ==
    /\ At(p, "execute") /\ up /\ ~Locked(p) /\ Goto(p, "commit")
    /\ recorded' = recorded \cup {version[p]}
    /\ UNCHANGED <<up, schema, attempt, version, faults>>

\* The statements wait for the end of such a transaction.  When it has committed
\* they do nothing (IF NOT EXISTS), or they fail, having looked before.
Execute(p) ==
    /\ At(p, "execute") /\ up /\ ~Locked(p)
    /\ Goto(p, "commit") \/ (version[p] \in schema /\ Goto(p, "down"))
    /\ UNCHANGED <<up, schema, recorded, attempt, version, faults>>

\* The version is recorded in the transaction of the statements.
Committed(p) ==
    /\ schema' = schema \cup {version[p]}
    /\ recorded' = recorded \cup {version[p]}

Commit(p) ==
    /\ At(p, "commit") /\ Goto(p, "check")
    /\ Committed(p)
    /\ version' = [version EXCEPT ![p] = @ + 1]
    /\ UNCHANGED <<up, attempt, faults>>

\* The answer to COMMIT is lost: the transaction may have been committed or not.
LoseCommit(p) ==
    /\ At(p, "commit") /\ Goto(p, "down") /\ Fault
    /\ Committed(p) \/ UNCHANGED <<schema, recorded>>
    /\ UNCHANGED <<up, attempt, version>>

\* Mutant: a migration that fails is left out.
SkipFailed(p) ==
    /\ At(p, "execute") /\ Goto(p, "check") /\ Fault
    /\ version' = [version EXCEPT ![p] = @ + 1]
    /\ UNCHANGED <<up, schema, recorded, attempt>>

\* Any error ends the process, and with it its transaction.
StatementFails(p) ==
    /\ stage[p] \in {"create", "check", "execute"} /\ Goto(p, "down")
    /\ Fault \/ (~up /\ UNCHANGED faults)
    /\ UNCHANGED <<up, schema, recorded, attempt, version>>

-----------------------------------------------------------------------------
Boot(p) ==
    \/ StartProcess(p) \/ Connect(p) \/ ConnectFails(p)
    \/ CreateVersionTable(p) \/ Check(p) \/ Execute(p) \/ Commit(p)

StartupNext ==
    \/ ComeUp \/ GoDown
    \/ \E p \in Process : Boot(p) \/ StopProcess(p) \/ Crash(p) \/ LoseCommit(p) \/ StatementFails(p)

StartupSpec == StartupInit /\ [][StartupNext]_startupVars

\* The database comes back, and processes are scheduled and restarted.
FairStartup == StartupSpec /\ WF_startupVars(ComeUp) /\ \A p \in Process : WF_startupVars(Boot(p))

-----------------------------------------------------------------------------
\* An engine runs only on a schema that has all of its migrations, whoever has
\* applied them and whatever has been interrupted.
RunsOnItsSchema == \A p \in Process : stage[p] = "run" => 1 .. Release[p] \subseteq schema

\* The version table tells the truth: a version that it holds has been applied
\* after all that precede it.
VersionsTellSchema == \A v \in recorded : 1 .. v \subseteq schema

\* Processes that migrate at the same time may make each other fail, but in the
\* end every one of them runs.
AllRun == <>[](\A p \in Process : stage[p] \in {"run", "stopped"})
=============================================================================
