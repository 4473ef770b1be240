------------------------------- MODULE Engine -------------------------------
(***************************************************************************)
(* internal/engine/engine.go: the cycle loop.  A single goroutine runs the *)
(* phases one after the other; each phase may be skipped by its circuit    *)
(* breaker, its own interval or the freshness of the managed data.  What a *)
(* phase does is in Pipeline; here it takes time and returns nil or an     *)
(* error.  Time is discrete and passes only while a phase runs or the      *)
(* engine waits for its ticker; a timestamp is kept as its age, which      *)
(* stops growing once every comparison with it has been decided.           *)
(***************************************************************************)
EXTENDS CircuitBreaker

CONSTANTS
    Configured,         \* phases that are not nil and enabled
    Failing,            \* phases whose services may be down
    PollInterval,       \* discovery.schedule.poll_interval, the ticker's period
    ManagedInterval,    \* managed.schedule.poll_interval
    Day                 \* 24 hours

Guarded == {"discovery", "managed", "catalog"}
Steps   == {"discovery", "managed", "comparison", "specgen", "catalog", "cleanup", "reconciliation"}

Never      == -1        \* time.Time.IsZero
StaleAfter == 3 * ManagedInterval

ASSUME EngineAssumption ==
    /\ Configured \subseteq Steps /\ "cleanup" \in Configured
    /\ Failing \subseteq Steps
    /\ PollInterval \in Nat \ {0}
    /\ ManagedInterval \in Nat \ {0}
    /\ Day \in Nat \ {0}

VARIABLES
    pc,                 \* "waiting", "stopped", or the step of runCycle that comes next
    running,            \* that step's phase has been started and has not returned
    breakers,           \* [Guarded -> Breaker]
    sinceTick,          \* phase of the ticker
    tick,               \* ticker.C holds a tick
    managedRun,         \* age of phase2LastRun
    managedSuccess,     \* age of phase2LastSuccess
    cleanupRun,         \* age of cleanupLastRun
    reconcileRun,       \* age of reconcileLastRun
    firstFullCycleComplete,
    cancelled,          \* SIGTERM or SIGINT has cancelled the context
    ran                 \* history: phases that have been started

clock == <<sinceTick, tick>>
ages  == <<managedRun, managedSuccess, cleanupRun, reconcileRun>>
vars  == <<pc, running, breakers, sinceTick, tick, managedRun, managedSuccess, cleanupRun,
           reconcileRun, firstFullCycleComplete, cancelled, ran>>

AgeUpTo(n) == {Never} \cup 0 .. n

TypeOK ==
    /\ pc \in Steps \cup {"waiting", "stopped"}
    /\ running \in BOOLEAN
    /\ breakers \in [Guarded -> Breaker]
    /\ sinceTick \in 0 .. PollInterval - 1 /\ tick \in BOOLEAN
    /\ managedRun \in AgeUpTo(StaleAfter) /\ managedSuccess \in AgeUpTo(StaleAfter)
    /\ cleanupRun \in AgeUpTo(Day) /\ reconcileRun \in AgeUpTo(Day)
    /\ firstFullCycleComplete \in BOOLEAN /\ cancelled \in BOOLEAN
    /\ ran \subseteq Steps

\* Run: the first cycle comes at once.
Init ==
    /\ pc = "discovery" /\ running = FALSE
    /\ breakers = [p \in Guarded |-> NewCircuitBreaker]
    /\ sinceTick = 0 /\ tick = FALSE
    /\ managedRun = Never /\ managedSuccess = Never
    /\ cleanupRun = Never /\ reconcileRun = Never
    /\ firstFullCycleComplete = FALSE
    /\ cancelled = FALSE
    /\ ran = {}

\* The order of runCycle.
After(p) ==
    CASE p = "discovery"      -> "managed"
      [] p = "managed"        -> "comparison"
      [] p = "comparison"     -> "specgen"
      [] p = "specgen"        -> "catalog"
      [] p = "catalog"        -> "cleanup"
      [] p = "cleanup"        -> "reconciliation"
      [] p = "reconciliation" -> "waiting"

-----------------------------------------------------------------------------
Older(age, n) == IF age = Never \/ age = n THEN age ELSE age + 1

\* Time passes: a phase is running, or the engine waits for the next tick.  A
\* tick that comes while the last one has not been taken is dropped.
Pass ==
    /\ running \/ (pc = "waiting" /\ ~tick)
    /\ sinceTick' = (sinceTick + 1) % PollInterval
    /\ tick' = (tick \/ sinceTick' = 0)
    /\ breakers' = [p \in Guarded |-> Elapse(breakers[p])]
    /\ managedRun' = Older(managedRun, StaleAfter)
    /\ managedSuccess' = Older(managedSuccess, StaleAfter)
    /\ cleanupRun' = Older(cleanupRun, Day)
    /\ reconcileRun' = Older(reconcileRun, Day)
    /\ UNCHANGED <<pc, running, firstFullCycleComplete, cancelled, ran>>

StartCycle ==
    /\ pc = "waiting" /\ tick
    /\ tick' = FALSE
    /\ pc' = "discovery"
    /\ UNCHANGED <<running, breakers, sinceTick, ages, firstFullCycleComplete, cancelled, ran>>

\* select takes ctx.Done() or the tick, whichever it likes when both are ready.
Stop ==
    /\ pc = "waiting" /\ cancelled
    /\ pc' = "stopped"
    /\ UNCHANGED <<running, breakers, clock, ages, firstFullCycleComplete, cancelled, ran>>

Cancel ==
    /\ ~cancelled /\ pc # "stopped"
    /\ cancelled' = TRUE
    /\ UNCHANGED <<pc, running, breakers, clock, ages, firstFullCycleComplete, ran>>

-----------------------------------------------------------------------------
ShouldRunPhase2 == managedRun = Never \/ managedRun >= ManagedInterval

Phase2Fresh == managedSuccess # Never /\ managedSuccess < StaleAfter

DailyDue(age) == age = Never \/ age >= Day

\* Mutant: the test of phase2LastRun is missing.
FullCycleAtOnce == TRUE

\* firstFullCycleComplete, as it is set between the catalog phase and the cleanup.
FullCycle == firstFullCycleComplete \/ managedRun # Never

\* The condition of the step's own "if", before its breaker is asked.
Due(p) ==
    /\ p \in Configured
    /\ p = "managed" => ShouldRunPhase2
    /\ p = "comparison" => Phase2Fresh
    /\ p = "cleanup" => DailyDue(cleanupRun)
    /\ p = "reconciliation" => firstFullCycleComplete /\ DailyDue(reconcileRun)

Attempted(p) == Due(p) /\ (p \in Guarded => MayAttempt(breakers[p]))

\* The engine comes to step p and starts its phase.
Start(p) ==
    /\ pc = p /\ ~running /\ Attempted(p)
    /\ running' = TRUE
    /\ ran' = ran \cup {p}
    /\ breakers' = IF p \in Guarded THEN [breakers EXCEPT ![p] = ShouldAttempt(@)] ELSE breakers
    /\ firstFullCycleComplete' = IF p = "cleanup" THEN FullCycle ELSE firstFullCycleComplete
    /\ UNCHANGED <<pc, clock, ages, cancelled>>

Skip(p) ==
    /\ pc = p /\ ~running /\ ~Attempted(p)
    /\ pc' = After(p)
    /\ firstFullCycleComplete' = IF p = "cleanup" THEN FullCycle ELSE firstFullCycleComplete
    /\ UNCHANGED <<running, breakers, clock, ages, cancelled, ran>>

\* Mutant: phase2LastSuccess is not set.
SucceedUnrecorded(p) ==
    /\ pc = p /\ running
    /\ running' = FALSE /\ pc' = After(p)
    /\ breakers' = IF p \in Guarded THEN [breakers EXCEPT ![p] = RecordSuccess(@)] ELSE breakers
    /\ managedRun' = IF p = "managed" THEN 0 ELSE managedRun
    /\ cleanupRun' = IF p = "cleanup" THEN 0 ELSE cleanupRun
    /\ reconcileRun' = IF p = "reconciliation" THEN 0 ELSE reconcileRun
    /\ UNCHANGED <<managedSuccess, clock, firstFullCycleComplete, cancelled, ran>>

\* The phase returns nil.
Succeed(p) ==
    /\ pc = p /\ running
    /\ running' = FALSE /\ pc' = After(p)
    /\ breakers' = IF p \in Guarded THEN [breakers EXCEPT ![p] = RecordSuccess(@)] ELSE breakers
    /\ managedRun' = IF p = "managed" THEN 0 ELSE managedRun
    /\ managedSuccess' = IF p = "managed" THEN 0 ELSE managedSuccess
    /\ cleanupRun' = IF p = "cleanup" THEN 0 ELSE cleanupRun
    /\ reconcileRun' = IF p = "reconciliation" THEN 0 ELSE reconcileRun
    /\ UNCHANGED <<clock, firstFullCycleComplete, cancelled, ran>>

\* The phase returns an error.  Cleanup returns none.
Fail(p) ==
    /\ pc = p /\ running /\ p # "cleanup"
    /\ p \in Failing \/ cancelled
    /\ running' = FALSE /\ pc' = After(p)
    /\ breakers' = IF p \in Guarded THEN [breakers EXCEPT ![p] = RecordFailure(@)] ELSE breakers
    /\ reconcileRun' = IF p = "reconciliation" THEN 0 ELSE reconcileRun
    /\ UNCHANGED <<managedRun, managedSuccess, cleanupRun, clock, firstFullCycleComplete, cancelled, ran>>

RunCycle == \E p \in Steps : Start(p) \/ Skip(p) \/ Succeed(p) \/ Fail(p)

Next == Pass \/ StartCycle \/ Stop \/ Cancel \/ RunCycle

Spec == Init /\ [][Next]_vars

\* Ticks keep coming, and a phase returns, for its HTTP calls have timeouts and
\* its statements are short.  Cancel and Fail need not happen.
Fairness ==
    /\ WF_vars(Pass) /\ WF_vars(StartCycle) /\ WF_vars(RunCycle)

FairSpec == Spec /\ Fairness

-----------------------------------------------------------------------------
(***************************************************************************)
(* Safety.                                                                 *)
(***************************************************************************)

\* ShouldAttempt answers false to a half-open breaker, so one that stayed
\* half-open with no phase running would never be asked again: whoever makes a
\* breaker half-open also reports back to it (circuit.go:45-58, engine.go:94-151).
HalfOpenOnlyWhileRunning ==
    \A p \in Guarded : breakers[p].state = "half-open" => running /\ pc = p

\* Comparison is left out only because the managed sync is failing: when the
\* engine finds phase 2's data stale, that breaker has counted a failure
\* since the last success.  A long phase, a missed tick or the two intervals
\* alone never make it so (engine.go:107-126).
StaleOnlyAfterFailure ==
    /\ "managed" \in Configured
    /\ pc = "comparison" /\ ~running /\ ~Phase2Fresh
    => breakers["managed"].failures > 0

\* engine.go:153, "all 5 phases have run at least once": the flag that opens
\* the way for the reconciliation looks only at phase 2.
FullCycleMeansAllRan ==
    firstFullCycleComplete => Configured \ {"cleanup", "reconciliation"} \subseteq ran

-----------------------------------------------------------------------------
(***************************************************************************)
(* Liveness, as long as no signal comes.                                   *)
(***************************************************************************)

\* No backoff lasts for ever: discovery, sync and push are tried again and again.
RetriesForEver ==
    \A p \in Guarded \cap Configured : []<>(cancelled \/ (running /\ pc = p))

\* Once a service is up for good, its breaker closes and stays closed.
RecoversWhenHealthy ==
    \A p \in Guarded \cap Configured :
        <>[][~Fail(p)]_vars => <>[](cancelled \/ breakers[p].state = "closed")
=============================================================================
