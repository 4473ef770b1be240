----------------------------- MODULE Discovery -----------------------------
(***************************************************************************)
(* Phase 1: internal/discovery/discovery.go reads the requests that        *)
(* DeepFlow has recorded in a window that ends safety_lag ago and adds     *)
(* them to the hit counts of adc_discovered_apis; the end of the window is *)
(* the watermark where the next one starts.  The window is kept with the   *)
(* clock's resolution (ticks), but queried in whole seconds.               *)
(*                                                                         *)
(* hit_count is kept as the number of times each request has been added to *)
(* one.  Enrichment (step 5) only adds columns, and never fails the phase. *)
(***************************************************************************)
EXTENDS Integers, FiniteSets

CONSTANTS
    Request,        \* requests observed by DeepFlow
    Signature,      \* [Request -> signatures]: method, endpoint, port and agent
    Resource,       \* [signatures -> resources]: what normalisation makes of it
    Noise,          \* signatures that the noise filter removes
    Second,         \* ticks in a second
    PollInterval,   \* discovery.schedule, in ticks
    SafetyLag,
    MaxSignatures,  \* max_signatures_per_cycle
    MaxTime,        \* bound: the end of time, in ticks
    MaxFaults       \* bound: failed calls, crashes and steps of the clock

ASSUME DiscoveryAssumption ==
    /\ Second \in Nat \ {0} /\ MaxSignatures \in Nat \ {0}
    /\ PollInterval \in Nat \ {0} /\ SafetyLag \in Nat
    /\ MaxTime \in Nat /\ MaxFaults \in Nat

VARIABLES
    time,           \* the time by which DeepFlow stamps requests
    skew,           \* how much the controller's clock is behind
    startTime,      \* [Request -> its start_time, or NotYet]
    recorded,       \* requests that a query can see
    hits,           \* [Request -> how often it has been added to a hit_count]
    dropped,        \* history: requests that the LIMIT or a failed upsert left out
    watermark,      \* last_watermark_end, or None: no row in adc_pipeline_state
    origin,         \* history: the start of the first window that was completed
    pc,
    window,         \* [start, end] of the running cycle
    batch,          \* requests behind the records still to be upserted
    faults

world == <<time, skew, startTime, recorded>>
vars  == <<time, skew, startTime, recorded, hits, dropped, watermark, origin, pc, window, batch, faults>>

NotYet == -1
None   == -1000     \* earlier than any window

Seconds(t) == t \div Second

TypeOK ==
    /\ time \in 0 .. MaxTime /\ skew \in Nat
    /\ startTime \in [Request -> NotYet .. MaxTime]
    /\ recorded \subseteq {r \in Request : startTime[r] # NotYet}
    /\ hits \in [Request -> Nat]
    /\ dropped \subseteq Request
    /\ watermark \in Int /\ origin \in Int
    /\ pc \in {"idle", "query", "upsert", "advance"}
    /\ window \in [start : Int, end : Int]
    /\ pc # "idle" => window.start < window.end
    /\ batch \subseteq recorded
    /\ faults \in Nat

Init ==
    /\ time = 0 /\ skew = 0
    /\ startTime = [r \in Request |-> NotYet]
    /\ recorded = {}
    /\ hits = [r \in Request |-> 0] /\ dropped = {}
    /\ watermark = None /\ origin = None
    /\ pc = "idle" /\ window = [start |-> 0, end |-> 0] /\ batch = {}
    /\ faults = 0

Fault   == faults < MaxFaults /\ faults' = faults + 1
NoFault == UNCHANGED faults

-----------------------------------------------------------------------------
(***************************************************************************)
(* DeepFlow and the clocks.  A request can be queried at most safety_lag   *)
(* after it was made: that is what the lag is for.                         *)
(***************************************************************************)
Tick ==
    /\ time < MaxTime /\ time' = time + 1
    /\ \A r \in Request \ recorded : startTime[r] = NotYet \/ time < startTime[r] + SafetyLag
    /\ UNCHANGED <<skew, startTime, recorded, hits, dropped, watermark, origin, pc, window, batch, faults>>

Observe(r) ==
    /\ startTime[r] = NotYet
    /\ startTime' = [startTime EXCEPT ![r] = time]
    /\ UNCHANGED <<time, skew, recorded, hits, dropped, watermark, origin, pc, window, batch, faults>>

Record(r) ==
    /\ startTime[r] # NotYet /\ r \notin recorded
    /\ recorded' = recorded \cup {r}
    /\ UNCHANGED <<time, skew, startTime, hits, dropped, watermark, origin, pc, window, batch, faults>>

\* The controller's clock is set back by a tick.
ClockBack ==
    /\ Fault /\ skew' = skew + 1
    /\ UNCHANGED <<time, startTime, recorded, hits, dropped, watermark, origin, pc, window, batch>>

-----------------------------------------------------------------------------
(***************************************************************************)
(* The phase.                                                              *)
(***************************************************************************)
Now == time - skew

\* calculateWindow
CalculateWindow ==
    [start |-> IF watermark = None THEN Now - (PollInterval + SafetyLag) ELSE watermark,
     end   |-> Now - SafetyLag]

\* Step 0.  Without new data, or when the watermark cannot be read, nothing happens.
BeginCycle ==
    /\ pc = "idle" /\ pc' = "query"
    /\ CalculateWindow.start < CalculateWindow.end
    /\ window' = CalculateWindow
    /\ NoFault /\ UNCHANGED <<world, hits, dropped, watermark, origin, batch>>

\* Mutant: the query includes the end of the window.
InClosedWindow(r) ==
    Seconds(window.start) <= Seconds(startTime[r]) /\ Seconds(startTime[r]) <= Seconds(window.end)

InWindow(r) ==
    Seconds(window.start) <= Seconds(startTime[r]) /\ Seconds(startTime[r]) < Seconds(window.end)

HitCount(S, s) == Cardinality({r \in S : Signature[r] = s})

\* ORDER BY hit_count DESC LIMIT max_signatures_per_cycle
TopSignatures(S, K) ==
    LET all == {Signature[r] : r \in S}
    IN  /\ K \subseteq all
        /\ Cardinality(K) = IF Cardinality(all) < MaxSignatures THEN Cardinality(all) ELSE MaxSignatures
        /\ \A s \in K, t \in all \ K : HitCount(S, s) >= HitCount(S, t)

\* Step 2, the noise filter.
Apply(K) == K \ Noise

\* Steps 1 to 4.  With nothing left, the watermark is advanced at once, and so it is
\* when the answer cannot be read.
QuerySignatures ==
    /\ pc = "query"
    /\ LET S == {r \in recorded : InWindow(r)}
       IN  \/ \E K \in SUBSET {Signature[r] : r \in S} :
                  /\ TopSignatures(S, K)
                  /\ batch' = {r \in S : Signature[r] \in Apply(K)}
                  /\ dropped' = dropped \cup {r \in S : Signature[r] \notin K}
                  /\ pc' = IF batch' = {} THEN "advance" ELSE "upsert"
                  /\ NoFault
           \/ Fault /\ pc' = "idle" /\ UNCHANGED <<batch, dropped>>
           \/ /\ Fault /\ pc' = "advance"    \* convertResult: neither rows nor an error
              /\ batch' = {} /\ dropped' = dropped \cup S
    /\ UNCHANGED <<world, hits, watermark, origin, window>>

SameRecord(r) == {q \in batch : Resource[Signature[q]] = Resource[Signature[r]]}

\* One record of BatchUpsert; a record that fails is skipped.
UpsertOne(r) ==
    /\ pc = "upsert" /\ r \in batch
    /\ batch' = batch \ SameRecord(r)
    /\ pc' = IF batch' = {} THEN "advance" ELSE "upsert"
    /\ \/ /\ hits' = [q \in Request |-> IF q \in SameRecord(r) THEN hits[q] + 1 ELSE hits[q]]
          /\ NoFault /\ UNCHANGED dropped
       \/ Fault /\ dropped' = dropped \cup SameRecord(r) /\ UNCHANGED hits
    /\ UNCHANGED <<world, watermark, origin, window>>

\* PipelineStateRepo.Advance creates or updates the row.
SetWatermark(end) ==
    /\ watermark' = end
    /\ origin' = IF watermark = None THEN window.start ELSE origin

\* Mutant: the watermark is the time at which the cycle ends.
AdvanceToNow ==
    /\ pc = "advance" /\ pc' = "idle"
    /\ SetWatermark(Now - SafetyLag)
    /\ NoFault /\ UNCHANGED <<world, hits, dropped, window, batch>>

\* Step 6.  When it fails, the next cycle does the window again.
Advance ==
    /\ pc = "advance" /\ pc' = "idle"
    /\ \/ SetWatermark(window.end) /\ NoFault
       \/ Fault /\ UNCHANGED <<watermark, origin>>
    /\ UNCHANGED <<world, hits, dropped, window, batch>>

Crash ==
    /\ pc # "idle" /\ Fault /\ pc' = "idle" /\ batch' = {}
    /\ UNCHANGED <<world, hits, dropped, watermark, origin, window>>

-----------------------------------------------------------------------------
Next ==
    \/ Tick \/ ClockBack \/ \E r \in Request : Observe(r) \/ Record(r)
    \/ BeginCycle \/ QuerySignatures \/ (\E r \in batch : UpsertOne(r)) \/ Advance \/ Crash

Spec == Init /\ [][Next]_vars

-----------------------------------------------------------------------------
\* Consecutive windows share no second: a request is added to its hit count
\* once, and once more only for each cycle that failed after it had done so.
CountedOnce == \A r \in Request : hits[r] <= 1 + faults

\* Consecutive windows leave no second out: what lies behind the watermark has
\* been counted, was noise, or fell to the LIMIT, to a failed upsert or to an answer
\* that could not be read (querier.go:108, discovery.go:66).
\* Neither the lag, nor rounding, nor a repeated cycle loses anything.
NothingSkipped ==
    \A r \in Request :
        /\ watermark # None
        /\ startTime[r] # NotYet
        /\ Seconds(origin) <= Seconds(startTime[r])
        /\ Seconds(startTime[r]) < Seconds(watermark)
        => hits[r] > 0 \/ Signature[r] \in Noise \/ r \in dropped
=============================================================================
