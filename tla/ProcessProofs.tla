---------------------------- MODULE ProcessProofs ----------------------------
(***************************************************************************)
(* Theorems about a process: its engine (Engine), for every threshold,     *)
(* interval and set of configured phases, and with any phase failing at    *)
(* any time; and how it comes to run one (Startup), for any number of      *)
(* processes, releases, attempts and faults.                               *)
(***************************************************************************)
EXTENDS Engine, Startup, TLAPS

-----------------------------------------------------------------------------
(***************************************************************************)
(* Breakers.  How long a backoff lasts does not matter to what is proved   *)
(* here, so nothing is said of retryIn.                                    *)
(***************************************************************************)
Sound(b) ==
    /\ b = [state |-> b.state, failures |-> b.failures, retryIn |-> b.retryIn]
    /\ b.state \in {"closed", "open", "half-open"}
    /\ b.failures \in 0 .. MaxFailures
    /\ b.state # "closed" => b.failures >= Threshold

\* A new breaker, or one that has just recorded a success, is closed.
LEMMA NewIsSound == Sound(NewCircuitBreaker) /\ NewCircuitBreaker.state = "closed"
BY CircuitBreakerAssumption DEF Sound, NewCircuitBreaker

\* Asking a breaker keeps its count, and makes it half-open at most.
LEMMA ShouldAttemptSound ==
    ASSUME NEW b, Sound(b)
    PROVE  /\ Sound(ShouldAttempt(b))
           /\ ShouldAttempt(b).failures = b.failures
           /\ ShouldAttempt(b).state = "closed" <=> b.state = "closed"
<1>1. \/ ShouldAttempt(b) = b
      \/ b.state = "open" /\ ShouldAttempt(b) = [b EXCEPT !.state = "half-open"]
    BY DEF ShouldAttempt
<1>2. [b EXCEPT !.state = "half-open"]
        = [state |-> "half-open", failures |-> b.failures, retryIn |-> b.retryIn]
    BY DEF Sound
<1> QED BY <1>1, <1>2 DEF Sound

\* A failure never leaves a breaker half-open, and is counted.
LEMMA RecordFailureSound ==
    ASSUME NEW b, Sound(b)
    PROVE  /\ Sound(RecordFailure(b))
           /\ RecordFailure(b).failures > 0
           /\ RecordFailure(b).state # "half-open"
<1> DEFINE n == IF b.failures < MaxFailures THEN b.failures + 1 ELSE MaxFailures
<1>1. n \in 1 .. MaxFailures /\ (b.failures >= Threshold => n >= Threshold)
    BY CircuitBreakerAssumption DEF Sound
<1>2. [b EXCEPT !.failures = n] = [state |-> b.state, failures |-> n, retryIn |-> b.retryIn]
    BY DEF Sound
<1> HIDE DEF n
<1>3. RecordFailure(b) = IF n >= Threshold
                         THEN [state |-> "open", failures |-> n, retryIn |-> Backoff(n)]
                         ELSE [state |-> b.state, failures |-> n, retryIn |-> b.retryIn]
    BY <1>2 DEF RecordFailure, n
<1> HIDE DEF RecordFailure
<1> QED BY <1>1, <1>3 DEF Sound

\* The passage of time changes nothing but the backoff that is left.
LEMMA ElapseSound ==
    ASSUME NEW b, Sound(b)
    PROVE  Sound(Elapse(b)) /\ Elapse(b).state = b.state /\ Elapse(b).failures = b.failures
<1>1. [b EXCEPT !.retryIn = @ - 1]
        = [state |-> b.state, failures |-> b.failures, retryIn |-> b.retryIn - 1]
    BY DEF Sound
<1>2. \/ Elapse(b) = b
      \/ Elapse(b) = [state |-> b.state, failures |-> b.failures, retryIn |-> b.retryIn - 1]
    BY <1>1 DEF Elapse
<1> QED BY <1>2 DEF Sound

-----------------------------------------------------------------------------
(***************************************************************************)
(* The inductive invariant.                                                *)
(***************************************************************************)
BreakersSound ==
    /\ breakers = [p \in Guarded |-> breakers[p]]
    /\ \A p \in Guarded : Sound(breakers[p])

\* Both timestamps of phase 2 are set together.
ManagedAges ==
    /\ managedRun \in AgeUpTo(StaleAfter)
    /\ managedSuccess = managedRun

\* A phase that has failed, or is running, has been started.
StartedRan ==
    /\ \A p \in Guarded : breakers[p].failures > 0 => p \in ran
    /\ running => pc \in Steps /\ pc \in ran
    /\ managedRun # Never => "managed" \in ran

\* Once runCycle is past a phase that has no condition of its own, the phase has run.
PastRan ==
    /\ pc \in {"managed", "comparison", "specgen", "catalog", "cleanup"} /\ "discovery" \in Configured
        => "discovery" \in ran
    /\ pc \in {"catalog", "cleanup"} /\ "specgen" \in Configured => "specgen" \in ran
    /\ pc = "cleanup" /\ "catalog" \in Configured => "catalog" \in ran

\* The first comparison follows the first success of phase 2 in the same cycle.
ComparisonRan ==
    managedRun # Never /\ "comparison" \in Configured /\ "comparison" \notin ran
        => pc = "comparison" /\ ~running /\ Phase2Fresh

EngineInv ==
    /\ BreakersSound /\ HalfOpenOnlyWhileRunning
    /\ ManagedAges /\ StaleOnlyAfterFailure
    /\ StartedRan /\ PastRan /\ ComparisonRan /\ FullCycleMeansAllRan

\* The engine starts with closed breakers and nothing run.
LEMMA InitEngineInv == Init => EngineInv
<1> SUFFICES ASSUME Init PROVE EngineInv
    OBVIOUS
<1>1. \A p \in Guarded : breakers[p] = NewCircuitBreaker
    BY DEF Init
<1>2. BreakersSound /\ HalfOpenOnlyWhileRunning
    BY <1>1, NewIsSound DEF Init, BreakersSound, HalfOpenOnlyWhileRunning
<1>3. StartedRan
    BY <1>1 DEF Init, StartedRan, NewCircuitBreaker
<1> QED BY <1>2, <1>3 DEF Init, EngineInv, ManagedAges, AgeUpTo, Never, StaleOnlyAfterFailure,
                    PastRan, ComparisonRan, FullCycleMeansAllRan

\* Time passes.
LEMMA PassEngineInv == EngineInv /\ Pass => EngineInv'
<1> SUFFICES ASSUME EngineInv, Pass PROVE EngineInv'
    OBVIOUS
<1>1. /\ \A p \in Guarded : /\ Sound(breakers'[p])
                            /\ breakers'[p].state = breakers[p].state
                            /\ breakers'[p].failures = breakers[p].failures
      /\ breakers' = [p \in Guarded |-> breakers'[p]]
    BY ElapseSound DEF Pass, EngineInv, BreakersSound
<1>2. /\ managedRun' \in AgeUpTo(StaleAfter) /\ managedSuccess' = managedRun'
      /\ managedRun' # Never <=> managedRun # Never
    BY EngineAssumption DEF Pass, EngineInv, ManagedAges, Older, AgeUpTo, Never, StaleAfter
<1>3. UNCHANGED <<pc, running, firstFullCycleComplete, ran>> /\ (running \/ pc = "waiting")
    BY DEF Pass
<1>4. BreakersSound' /\ HalfOpenOnlyWhileRunning' /\ ManagedAges'
    BY <1>1, <1>2, <1>3 DEF EngineInv, BreakersSound, HalfOpenOnlyWhileRunning, ManagedAges
<1>5. StaleOnlyAfterFailure'
    BY <1>3 DEF StaleOnlyAfterFailure
<1>6. StartedRan' /\ PastRan' /\ ComparisonRan' /\ FullCycleMeansAllRan'
    BY <1>1, <1>2, <1>3 DEF EngineInv, StartedRan, PastRan, ComparisonRan, FullCycleMeansAllRan
<1> QED BY <1>4, <1>5, <1>6 DEF EngineInv

\* Ticks and signals, and stuttering.
LEMMA LoopEngineInv == EngineInv /\ (StartCycle \/ Stop \/ Cancel \/ UNCHANGED vars) => EngineInv'
<1> SUFFICES ASSUME EngineInv, StartCycle \/ Stop \/ Cancel \/ UNCHANGED vars PROVE EngineInv'
    OBVIOUS
<1>1. /\ UNCHANGED <<breakers, running, managedRun, managedSuccess, firstFullCycleComplete, ran>>
      /\ UNCHANGED pc \/ (pc = "waiting" /\ pc' \in {"discovery", "stopped"})
    BY DEF StartCycle, Stop, Cancel, vars, clock, ages
<1>2. ~ (pc = "waiting" /\ running)
    BY DEF EngineInv, StartedRan, Steps
<1> QED BY <1>1, <1>2 DEF EngineInv, BreakersSound, HalfOpenOnlyWhileRunning, ManagedAges, Guarded,
        StaleOnlyAfterFailure, Phase2Fresh, StartedRan, PastRan, ComparisonRan, FullCycleMeansAllRan

\* A phase is started: its breaker may become half-open, and then it is running.
LEMMA StartEngineInv ==
    ASSUME EngineInv, NEW p \in Steps, Start(p)
    PROVE  EngineInv'
<1>1. /\ pc = p /\ ~running /\ running' /\ ran' = ran \cup {p} /\ Attempted(p)
      /\ UNCHANGED <<pc, managedRun, managedSuccess>>
      /\ firstFullCycleComplete' = IF p = "cleanup" THEN FullCycle ELSE firstFullCycleComplete
    BY DEF Start, ages
<1>2. \A q \in Guarded : q # p => breakers'[q] = breakers[q]
    BY DEF Start, EngineInv, BreakersSound
<1>3. p \in Guarded => breakers'[p] = ShouldAttempt(breakers[p])
    BY DEF Start, EngineInv, BreakersSound
<1>4. /\ breakers' = [q \in Guarded |-> breakers'[q]]
      /\ \A q \in Guarded : Sound(breakers'[q]) /\ breakers'[q].failures = breakers[q].failures
    <2>1. breakers' = [q \in Guarded |-> breakers'[q]]
        BY DEF Start, EngineInv, BreakersSound
    <2> QED BY <1>2, <1>3, <2>1, ShouldAttemptSound DEF EngineInv, BreakersSound
<1>5. BreakersSound' /\ HalfOpenOnlyWhileRunning' /\ ManagedAges'
    BY <1>1, <1>2, <1>4 DEF EngineInv, BreakersSound, HalfOpenOnlyWhileRunning, ManagedAges
<1>6. StaleOnlyAfterFailure'
    BY <1>1 DEF StaleOnlyAfterFailure
<1>7. StartedRan' /\ PastRan' /\ ComparisonRan'
    BY <1>1, <1>4 DEF EngineInv, StartedRan, PastRan, ComparisonRan, Guarded
<1>8. FullCycleMeansAllRan'
    BY <1>1, EngineAssumption DEF EngineInv, FullCycle, FullCycleMeansAllRan, StartedRan, PastRan, ComparisonRan, Steps
<1> QED BY <1>5, <1>6, <1>7, <1>8 DEF EngineInv

\* A phase is passed over: it is not due, or its breaker, which has counted
\* failures, does not let it.
LEMMA SkipEngineInv ==
    ASSUME EngineInv, NEW p \in Steps, Skip(p)
    PROVE  EngineInv'
<1>1. /\ pc = p /\ ~running /\ ~running' /\ pc' = After(p) /\ ~Attempted(p)
      /\ UNCHANGED <<breakers, managedRun, managedSuccess, ran>>
      /\ firstFullCycleComplete' = IF p = "cleanup" THEN FullCycle ELSE firstFullCycleComplete
    BY DEF Skip, ages
<1>2. ASSUME p \in Guarded, Due(p) PROVE breakers[p].failures > 0
    BY <1>1, <1>2, CircuitBreakerAssumption DEF Attempted, MayAttempt, EngineInv, BreakersSound, Sound
<1>3. BreakersSound' /\ HalfOpenOnlyWhileRunning' /\ ManagedAges'
    BY <1>1 DEF EngineInv, BreakersSound, HalfOpenOnlyWhileRunning, ManagedAges
<1>4. StaleOnlyAfterFailure'
    <2> SUFFICES ASSUME "managed" \in Configured, pc' = "comparison", ~Phase2Fresh
                 PROVE  breakers["managed"].failures > 0
        BY <1>1 DEF StaleOnlyAfterFailure, Phase2Fresh
    <2>1. p = "managed"
        BY <1>1 DEF After, Steps
    <2>2. ShouldRunPhase2
        BY EngineAssumption DEF EngineInv, ManagedAges, AgeUpTo, ShouldRunPhase2, Phase2Fresh, StaleAfter, Never
    <2> QED BY <1>2, <2>1, <2>2 DEF Due, Guarded
<1>5. StartedRan'
    BY <1>1 DEF EngineInv, StartedRan
<1>6. PastRan'
    <2>1. ASSUME p \in {"discovery", "specgen", "catalog"}, p \in Configured PROVE p \in ran
        <3>1. Due(p)
            BY <2>1 DEF Due
        <3>2. p \in Guarded
            BY <1>1, <3>1 DEF Attempted
        <3> QED BY <1>2, <3>1, <3>2 DEF EngineInv, StartedRan
    <2> QED BY <1>1, <2>1 DEF EngineInv, PastRan, After, Steps
<1>7. ComparisonRan'
    <2>1. ~ (p = "comparison" /\ "comparison" \in Configured /\ Phase2Fresh)
        BY <1>1 DEF Attempted, Due, Guarded
    <2>2. p = "managed" => pc' = "comparison"
        BY <1>1 DEF After
    <2> QED BY <1>1, <2>1, <2>2 DEF EngineInv, ComparisonRan
<1>8. FullCycleMeansAllRan'
    BY <1>1, EngineAssumption DEF EngineInv, FullCycle, FullCycleMeansAllRan, StartedRan, PastRan, ComparisonRan, Steps
<1> QED BY <1>3, <1>4, <1>5, <1>6, <1>7, <1>8 DEF EngineInv

\* A phase returns nil: its breaker is closed, and a success of phase 2 makes its
\* data fresh.
LEMMA SucceedEngineInv ==
    ASSUME EngineInv, NEW p \in Steps, Succeed(p)
    PROVE  EngineInv'
<1>1. /\ pc = p /\ running /\ ~running' /\ pc' = After(p)
      /\ managedRun' = IF p = "managed" THEN 0 ELSE managedRun
      /\ managedSuccess' = IF p = "managed" THEN 0 ELSE managedSuccess
      /\ UNCHANGED <<ran, firstFullCycleComplete>>
    BY DEF Succeed
<1>2. \A q \in Guarded : q # p => breakers'[q] = breakers[q]
    BY DEF Succeed, EngineInv, BreakersSound
<1>3. p \in Guarded => breakers'[p] = NewCircuitBreaker
    BY DEF Succeed, EngineInv, BreakersSound, RecordSuccess
<1>4. BreakersSound'
    <2>1. breakers' = [q \in Guarded |-> breakers'[q]]
        BY DEF Succeed, EngineInv, BreakersSound
    <2> QED BY <1>2, <1>3, <2>1, NewIsSound DEF EngineInv, BreakersSound
<1>5. HalfOpenOnlyWhileRunning'
    BY <1>1, <1>2, <1>3, NewIsSound DEF EngineInv, HalfOpenOnlyWhileRunning
<1>6. ManagedAges'
    BY <1>1, EngineAssumption DEF EngineInv, ManagedAges, AgeUpTo, StaleAfter
<1>7. StaleOnlyAfterFailure'
    <2>1. pc' = "comparison" => p = "managed"
        BY <1>1 DEF After, Steps
    <2> QED BY <1>1, <2>1, EngineAssumption DEF StaleOnlyAfterFailure, Phase2Fresh, Never, StaleAfter
<1>8. StartedRan'
    <2>1. \A q \in Guarded : breakers'[q].failures > 0 => q \in ran'
        BY <1>1, <1>2, <1>3 DEF EngineInv, StartedRan, NewCircuitBreaker
    <2> QED BY <1>1, <2>1 DEF EngineInv, StartedRan
<1>9. PastRan'
    BY <1>1 DEF EngineInv, StartedRan, PastRan, After, Steps
<1>10. ComparisonRan'
    <2>1. p = "managed" => pc' = "comparison" /\ Phase2Fresh'
        BY <1>1, EngineAssumption DEF After, Phase2Fresh, Never, StaleAfter
    <2> QED BY <1>1, <2>1 DEF EngineInv, ComparisonRan
<1> QED BY <1>1, <1>4, <1>5, <1>6, <1>7, <1>8, <1>9, <1>10 DEF EngineInv, FullCycleMeansAllRan

\* A phase returns an error, and its breaker counts it.
LEMMA FailEngineInv ==
    ASSUME EngineInv, NEW p \in Steps, Fail(p)
    PROVE  EngineInv'
<1>1. /\ pc = p /\ running /\ ~running' /\ pc' = After(p)
      /\ UNCHANGED <<managedRun, managedSuccess, ran, firstFullCycleComplete>>
    BY DEF Fail
<1>2. \A q \in Guarded : q # p => breakers'[q] = breakers[q]
    BY DEF Fail, EngineInv, BreakersSound
<1>3. p \in Guarded => breakers'[p] = RecordFailure(breakers[p])
    BY DEF Fail, EngineInv, BreakersSound
<1>4. BreakersSound'
    <2>1. breakers' = [q \in Guarded |-> breakers'[q]]
        BY DEF Fail, EngineInv, BreakersSound
    <2> QED BY <1>2, <1>3, <2>1, RecordFailureSound DEF EngineInv, BreakersSound
<1>5. HalfOpenOnlyWhileRunning'
    BY <1>1, <1>2, <1>3, RecordFailureSound DEF EngineInv, HalfOpenOnlyWhileRunning, BreakersSound
<1>6. ManagedAges'
    BY <1>1 DEF EngineInv, ManagedAges
<1>7. StaleOnlyAfterFailure'
    <2>1. pc' = "comparison" => p = "managed"
        BY <1>1 DEF After, Steps
    <2> QED BY <1>1, <1>3, <2>1, RecordFailureSound
            DEF EngineInv, BreakersSound, StaleOnlyAfterFailure, Phase2Fresh, Guarded
<1>8. StartedRan'
    <2>1. \A q \in Guarded : breakers'[q].failures > 0 => q \in ran'
        BY <1>1, <1>2 DEF EngineInv, StartedRan
    <2> QED BY <1>1, <2>1 DEF EngineInv, StartedRan
<1>9. PastRan'
    BY <1>1 DEF EngineInv, StartedRan, PastRan, After, Steps
<1>10. ComparisonRan'
    BY <1>1 DEF EngineInv, ComparisonRan
<1> QED BY <1>1, <1>4, <1>5, <1>6, <1>7, <1>8, <1>9, <1>10 DEF EngineInv, FullCycleMeansAllRan

\* The invariant holds in every state.
THEOREM EngineInvHolds == Spec => []EngineInv
<1>1. EngineInv /\ [Next]_vars => EngineInv'
    BY PassEngineInv, LoopEngineInv, StartEngineInv, SkipEngineInv, SucceedEngineInv, FailEngineInv
       DEF Next, RunCycle
<1> QED BY <1>1, InitEngineInv, PTL DEF Spec

\* circuit.go:45-58: no breaker is ever stuck half-open.
THEOREM HalfOpenOnlyWhileRunningHolds == Spec => []HalfOpenOnlyWhileRunning
BY EngineInvHolds, PTL DEF EngineInv

\* engine.go:107-126: whatever the two intervals and however long the phases
\* take, the comparison is left out only when phase 2 has been failing.
THEOREM StaleOnlyAfterFailureHolds == Spec => []StaleOnlyAfterFailure
BY EngineInvHolds, PTL DEF EngineInv

\* engine.go:153-156: looking at phase 2 alone is enough.
THEOREM FullCycleMeansAllRanHolds == Spec => []FullCycleMeansAllRan
BY EngineInvHolds, PTL DEF EngineInv

-----------------------------------------------------------------------------
(***************************************************************************)
(* The start of the processes on one database.                             *)
(***************************************************************************)
\* The migrations that a process has passed have been committed.
PassedAreApplied == \A p \in Process : 1 .. version[p] - 1 \subseteq schema

\* A transaction is one of a migration that the process has.
TransactionsAreOwn == \A p \in Process : InTransaction(p) => version[p] <= Release[p]

\* A process runs when it has passed all of its migrations.
RunsAtTheEnd == \A p \in Process : stage[p] = "run" => version[p] > Release[p]

\* The inductive invariant.  A migration and its version are committed together,
\* and a process comes to a migration only after those that precede it.
StartupInv ==
    /\ StartupTypeOK /\ version \in [Process -> Nat]
    /\ schema = recorded
    /\ PassedAreApplied /\ TransactionsAreOwn /\ RunsAtTheEnd
    /\ VersionsTellSchema

-----------------------------------------------------------------------------
\* Nothing has been applied at first, and every process is down.
LEMMA StartupInitGood == ASSUME StartupInit PROVE StartupInv
<1> USE StartupAssumption
<1>1. StartupTypeOK /\ version \in [Process -> Nat]
  BY DEF StartupInit, StartupTypeOK
<1>2. PassedAreApplied
  <2>1. \A p \in Process : version[p] = 1
    BY DEF StartupInit
  <2>2. 1 .. 1 - 1 = {}
    OBVIOUS
  <2> QED BY <2>1, <2>2 DEF PassedAreApplied
<1>3. TransactionsAreOwn /\ RunsAtTheEnd /\ VersionsTellSchema /\ schema = recorded
  BY DEF StartupInit, TransactionsAreOwn, InTransaction, RunsAtTheEnd, VersionsTellSchema
<1> QED BY <1>1, <1>2, <1>3 DEF StartupInv

\* A step of a process that leaves the tables and every version alone keeps the
\* invariant if it does not take the process into a transaction or to the engine.
LEMMA MovingKeepsInv ==
    ASSUME StartupInv, StartupTypeOK', UNCHANGED <<schema, recorded, version>>,
           \A p \in Process : /\ InTransaction(p)' => InTransaction(p) \/ version[p] <= Release[p]
                              /\ (stage[p] = "run")' => stage[p] = "run" \/ version[p] > Release[p]
    PROVE  StartupInv'
<1>1. TransactionsAreOwn' /\ RunsAtTheEnd'
  BY DEF StartupInv, TransactionsAreOwn, RunsAtTheEnd
<1> QED
  BY <1>1 DEF StartupInv, PassedAreApplied, VersionsTellSchema

\* When a process commits its migration, the table has it and all before it.
LEMMA CommittingKeepsTables ==
    ASSUME StartupInv, NEW p \in Process, InTransaction(p), Committed(p)
    PROVE  /\ schema' \subseteq Migrations /\ recorded' \subseteq Migrations
           /\ schema' = recorded' /\ VersionsTellSchema'
           /\ schema \subseteq schema' /\ version[p] \in schema'
<1> USE StartupAssumption DEF StartupInv, Committed
<1>1. version[p] \in Nat /\ version[p] >= 1 /\ version[p] <= Release[p]
  BY DEF StartupTypeOK, TransactionsAreOwn
<1>2. version[p] \in Migrations
  BY <1>1 DEF Migrations
<1>3. 1 .. version[p] \subseteq schema'
  <2>1. 1 .. version[p] - 1 \subseteq schema
    BY DEF PassedAreApplied
  <2> QED BY <1>1, <2>1
<1>4. VersionsTellSchema'
  BY <1>3 DEF VersionsTellSchema
<1> QED BY <1>2, <1>4 DEF StartupTypeOK

-----------------------------------------------------------------------------
\* Every step keeps the invariant.
LEMMA StartupStepKeeps == ASSUME StartupInv, [StartupNext]_startupVars PROVE StartupInv'
<1> USE StartupAssumption DEF At, Goto
<1>t. StartupTypeOK /\ version \in [Process -> Nat]
  BY DEF StartupInv
<1>f. Fault => faults' \in 0 .. MaxFaults
  BY <1>t DEF StartupTypeOK, Fault
<1>1. CASE ComeUp
  <2>1. StartupTypeOK'
    BY <1>1, <1>t DEF ComeUp, StartupTypeOK
  <2> QED BY <1>1, <2>1, MovingKeepsInv DEF ComeUp, InTransaction
<1>2. CASE GoDown
  <2>1. StartupTypeOK'
    BY <1>2, <1>t, <1>f DEF GoDown, StartupTypeOK
  <2>2. \A q \in Process : stage'[q] = stage[q] \/ stage'[q] = "down"
    BY <1>2 DEF GoDown
  <2> QED BY <1>2, <2>1, <2>2, MovingKeepsInv DEF GoDown, InTransaction
<1>3. ASSUME NEW p \in Process, StartProcess(p) PROVE StartupInv'
  <2>1. version' \in [Process -> Nat] /\ version'[p] = 1
        /\ \A q \in Process \ {p} : version'[q] = version[q]
    BY <1>3, <1>t DEF StartProcess
  <2>2. stage'[p] = "connect" /\ \A q \in Process \ {p} : stage'[q] = stage[q]
    BY <1>3, <1>t DEF StartProcess, StartupTypeOK
  <2>3. StartupTypeOK'
    BY <1>3, <1>t, <2>1 DEF StartProcess, StartupTypeOK
  <2>4. PassedAreApplied'
    BY <1>3, <2>1 DEF StartProcess, StartupInv, PassedAreApplied
  <2>5. TransactionsAreOwn' /\ RunsAtTheEnd'
    BY <2>1, <2>2 DEF StartupInv, TransactionsAreOwn, InTransaction, RunsAtTheEnd
  <2> QED
    BY <1>3, <2>1, <2>3, <2>4, <2>5 DEF StartProcess, StartupInv, VersionsTellSchema
<1>4. ASSUME NEW p \in Process, StopProcess(p) \/ Crash(p) \/ StatementFails(p) PROVE StartupInv'
  <2>1. StartupTypeOK'
    BY <1>4, <1>t, <1>f DEF StopProcess, Crash, StatementFails, StartupTypeOK
  <2>2. \A q \in Process : stage'[q] = stage[q] \/ stage'[q] \in {"down", "stopped"}
    BY <1>4, <1>t DEF StopProcess, Crash, StatementFails, StartupTypeOK
  <2> QED
    BY <1>4, <2>1, <2>2, MovingKeepsInv DEF StopProcess, Crash, StatementFails, InTransaction
<1>5. ASSUME NEW p \in Process, Connect(p) \/ ConnectFails(p) \/ CreateVersionTable(p)
      PROVE  StartupInv'
  <2>1. StartupTypeOK'
    BY <1>5, <1>t DEF Connect, ConnectFails, CreateVersionTable, StartupTypeOK
  <2>2. \A q \in Process : stage'[q] = stage[q] \/ stage'[q] \in {"create", "check", "down"}
    BY <1>5, <1>t DEF Connect, ConnectFails, CreateVersionTable, StartupTypeOK
  <2> QED
    BY <1>5, <2>1, <2>2, MovingKeepsInv
    DEF Connect, ConnectFails, CreateVersionTable, InTransaction
<1>6. ASSUME NEW p \in Process, Check(p) PROVE StartupInv'
  <2>0. UNCHANGED <<up, schema, recorded, attempt, faults>>
    BY <1>6 DEF Check
  <2>1. CASE version[p] > Release[p]
    <3>1. stage' = [stage EXCEPT ![p] = "run"] /\ version' = version
      BY <1>6, <2>1 DEF Check
    <3>2. StartupTypeOK'
      BY <1>t, <2>0, <3>1 DEF StartupTypeOK
    <3> QED BY <2>0, <2>1, <3>1, <3>2, <1>t, MovingKeepsInv DEF InTransaction, StartupTypeOK
  <2>2. CASE ~(version[p] > Release[p]) /\ Applied(version[p])
    <3>1. version' = [version EXCEPT ![p] = version[p] + 1] /\ stage' = stage
      BY <1>6, <2>2 DEF Check
    <3>2. version[p] \in Nat /\ version[p] >= 1 /\ version[p] + 1 <= Release[p] + 1
      BY <1>t, <2>2 DEF StartupTypeOK
    <3>3. StartupTypeOK' /\ version' \in [Process -> Nat]
      BY <1>t, <2>0, <3>1, <3>2 DEF StartupTypeOK
    <3>4. stage[p] = "check"
      BY <1>6 DEF Check
    <3>5. 1 .. version[p] \subseteq schema
      BY <2>2 DEF Applied, StartupInv, VersionsTellSchema
    <3>6. PassedAreApplied'
      BY <1>t, <2>0, <3>1, <3>2, <3>5 DEF StartupInv, PassedAreApplied
    <3>7. TransactionsAreOwn' /\ RunsAtTheEnd'
      BY <1>t, <3>1, <3>4 DEF StartupInv, TransactionsAreOwn, InTransaction, RunsAtTheEnd
    <3> QED BY <2>0, <3>3, <3>6, <3>7 DEF StartupInv, VersionsTellSchema
  <2>3. CASE ~(version[p] > Release[p]) /\ ~Applied(version[p])
    <3>1. stage' = [stage EXCEPT ![p] = "execute"] /\ version' = version
      BY <1>6, <2>3 DEF Check
    <3>2. StartupTypeOK' /\ version[p] <= Release[p]
      BY <1>t, <2>0, <2>3, <3>1 DEF StartupTypeOK
    <3> QED BY <2>0, <3>1, <3>2, <1>t, MovingKeepsInv DEF InTransaction, StartupTypeOK
  <2> QED BY <2>1, <2>2, <2>3
<1>7. ASSUME NEW p \in Process, Execute(p) PROVE StartupInv'
  <2>1. StartupTypeOK'
    BY <1>7, <1>t DEF Execute, StartupTypeOK
  <2>2. stage[p] = "execute"
        /\ \A q \in Process : stage'[q] = stage[q] \/ (q = p /\ stage'[q] \in {"commit", "down"})
    BY <1>7, <1>t DEF Execute, StartupTypeOK
  <2> QED BY <1>7, <2>1, <2>2, MovingKeepsInv DEF Execute, InTransaction
<1>8. ASSUME NEW p \in Process, Commit(p) PROVE StartupInv'
  <2>1. /\ InTransaction(p) /\ Committed(p) /\ UNCHANGED <<up, attempt, faults>>
        /\ stage' = [stage EXCEPT ![p] = "check"]
        /\ version' = [version EXCEPT ![p] = version[p] + 1]
    BY <1>8 DEF Commit, InTransaction
  <2>2. /\ schema' \subseteq Migrations /\ recorded' \subseteq Migrations
        /\ schema' = recorded' /\ VersionsTellSchema'
        /\ schema \subseteq schema' /\ version[p] \in schema'
    BY <2>1, CommittingKeepsTables
  <2>3. version[p] \in Nat /\ version[p] >= 1 /\ version[p] <= Release[p]
    BY <1>t, <2>1 DEF StartupTypeOK, StartupInv, TransactionsAreOwn
  <2>4. StartupTypeOK' /\ version' \in [Process -> Nat]
    BY <1>t, <2>1, <2>2, <2>3 DEF StartupTypeOK
  <2>5. 1 .. version[p] \subseteq schema'
    BY <2>2, <2>3 DEF StartupInv, PassedAreApplied
  <2>6. PassedAreApplied'
    BY <1>t, <2>1, <2>2, <2>3, <2>5 DEF StartupInv, PassedAreApplied
  <2>7. TransactionsAreOwn' /\ RunsAtTheEnd'
    BY <1>t, <2>1 DEF StartupInv, TransactionsAreOwn, InTransaction, RunsAtTheEnd, StartupTypeOK
  <2> QED BY <2>2, <2>4, <2>6, <2>7 DEF StartupInv
<1>9. ASSUME NEW p \in Process, LoseCommit(p) PROVE StartupInv'
  <2>1. /\ InTransaction(p) /\ Fault /\ UNCHANGED <<up, attempt, version>>
        /\ stage' = [stage EXCEPT ![p] = "down"]
        /\ Committed(p) \/ UNCHANGED <<schema, recorded>>
    BY <1>9 DEF LoseCommit, InTransaction
  <2>2. /\ schema' \subseteq Migrations /\ recorded' \subseteq Migrations
        /\ schema' = recorded' /\ VersionsTellSchema' /\ schema \subseteq schema'
    BY <2>1, <1>t, CommittingKeepsTables DEF StartupTypeOK, StartupInv, VersionsTellSchema
  <2>3. StartupTypeOK' /\ version' \in [Process -> Nat]
    BY <1>t, <1>f, <2>1, <2>2 DEF StartupTypeOK
  <2>4. PassedAreApplied' /\ TransactionsAreOwn' /\ RunsAtTheEnd'
    BY <1>t, <2>1, <2>2
    DEF StartupInv, PassedAreApplied, TransactionsAreOwn, InTransaction, RunsAtTheEnd, StartupTypeOK
  <2> QED BY <2>2, <2>3, <2>4 DEF StartupInv
<1>10. CASE UNCHANGED startupVars
  <2>1. StartupTypeOK'
    BY <1>10, <1>t DEF startupVars, StartupTypeOK
  <2> QED BY <1>10, <2>1, MovingKeepsInv DEF startupVars, InTransaction
<1> QED
  BY <1>1, <1>2, <1>3, <1>4, <1>5, <1>6, <1>7, <1>8, <1>9, <1>10 DEF StartupNext, Boot

\* The invariant holds for ever.
THEOREM StartupInvariant == StartupSpec => []StartupInv
<1>1. StartupInit => StartupInv
  BY StartupInitGood
<1>2. StartupInv /\ [StartupNext]_startupVars => StartupInv'
  BY StartupStepKeeps
<1> QED BY <1>1, <1>2, PTL DEF StartupSpec

\* The variables keep their types.
THEOREM StartupTypeCorrect == StartupSpec => []StartupTypeOK
<1>1. StartupInv => StartupTypeOK
  BY DEF StartupInv
<1> QED BY <1>1, StartupInvariant, PTL

\* Whatever is interrupted, and whoever migrates at the same time, the version
\* table never runs ahead of the schema and has no hole (Migrate).
THEOREM VersionsTellSchemaHolds == StartupSpec => []VersionsTellSchema
<1>1. StartupInv => VersionsTellSchema
  BY DEF StartupInv
<1> QED BY <1>1, StartupInvariant, PTL

\* An engine never runs on a schema that lacks one of its migrations (main).
THEOREM RunsOnItsSchemaHolds == StartupSpec => []RunsOnItsSchema
<1>1. StartupInv => RunsOnItsSchema
  <2> SUFFICES ASSUME StartupInv, NEW p \in Process, stage[p] = "run"
               PROVE  1 .. Release[p] \subseteq schema
    BY DEF RunsOnItsSchema
  <2>1. version[p] \in Nat /\ Release[p] \in Nat /\ version[p] > Release[p]
    BY StartupAssumption DEF StartupInv, RunsAtTheEnd
  <2>2. 1 .. version[p] - 1 \subseteq schema
    BY DEF StartupInv, PassedAreApplied
  <2> QED BY <2>1, <2>2
<1> QED BY <1>1, StartupInvariant, PTL
=============================================================================
