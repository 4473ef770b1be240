-------------------------- MODULE DiscoveryProofs --------------------------
(***************************************************************************)
(* Theorems about Discovery, for any set of requests, every resolution of  *)
(* the clock, interval, lag and LIMIT, and any number of failures, crashes *)
(* and steps of the clock.                                                 *)
(***************************************************************************)
EXTENDS Discovery, TLAPS

-----------------------------------------------------------------------------
(***************************************************************************)
(* The inductive invariant.                                                *)
(***************************************************************************)

\* A request that no query can see yet was made no longer than the lag ago; it
\* cannot have been counted.
UnrecordedIsRecent ==
    /\ \A r \in Request : startTime[r] <= time
    /\ \A r \in Request \ recorded :
          hits[r] = 0 /\ (startTime[r] = NotYet \/ time <= startTime[r] + SafetyLag)

\* A window ends at least the lag ago, and starts at the watermark if there is one.
WindowsFollow ==
    /\ watermark <= time
    /\ pc # "idle" => /\ window.end <= time - SafetyLag
                      /\ watermark # None => window.start = watermark

\* What is left to upsert is of the window, and is left only while upserting.
BatchOfWindow ==
    /\ pc # "upsert" => batch = {}
    /\ \A r \in batch : InWindow(r)

\* The cycles have left a request's second behind; this cycle is done with it.
Behind(r)   == watermark # None /\ startTime[r] # NotYet /\ Seconds(startTime[r]) < Seconds(watermark)
DoneWith(r) == pc \in {"upsert", "advance"} /\ startTime[r] # NotYet /\ InWindow(r) /\ r \notin batch

\* Each failure may have cost a request one more hit.  One hit more than that is
\* its due, which it gets when a cycle is done with it.
HitsAreDue ==
    \A r \in Request :
        /\ hits[r] <= 1 + faults
        /\ ~Behind(r) /\ ~DoneWith(r) => hits[r] <= faults

Accounted(r) == hits[r] > 0 \/ Signature[r] \in Noise \/ r \in dropped

\* What a cycle is done with is accounted for.
DoneIsAccounted == \A r \in Request : DoneWith(r) => Accounted(r)

Bounds == UnrecordedIsRecent /\ WindowsFollow /\ BatchOfWindow

Accounts == HitsAreDue /\ DoneIsAccounted /\ NothingSkipped

DiscoveryInv == TypeOK /\ Bounds /\ Accounts

-----------------------------------------------------------------------------
(***************************************************************************)
(* Lemmas.                                                                 *)
(***************************************************************************)

\* Rounding down to seconds keeps the order.
LEMMA SecondsMonotone ==
    ASSUME NEW s \in Int, NEW t \in Int, s <= t
    PROVE  Seconds(s) \in Int /\ Seconds(t) \in Int /\ Seconds(s) <= Seconds(t)
BY DiscoveryAssumption DEF Seconds

\* Only what was made before the window ends can be in it.
LEMMA InWindowIsBefore ==
    ASSUME TypeOK, NEW r \in Request, InWindow(r)
    PROVE  startTime[r] < window.end
<1>1. startTime[r] \in Int /\ window.end \in Int
  BY DEF TypeOK
<1> QED BY <1>1, SecondsMonotone DEF InWindow

\* The types that the steps below need, one by one.
LEMMA Types ==
    ASSUME TypeOK
    PROVE  /\ time \in Nat /\ skew \in Nat /\ faults \in Nat
           /\ startTime \in [Request -> Int] /\ hits \in [Request -> Nat]
           /\ watermark \in Int /\ origin \in Int
           /\ window.start \in Int /\ window.end \in Int
           /\ pc # "idle" => window.start < window.end
           /\ CalculateWindow.start \in Int /\ CalculateWindow.end = time - skew - SafetyLag
<1> USE DiscoveryAssumption
<1>1. NotYet .. MaxTime \subseteq Int /\ 0 .. MaxTime \subseteq Nat
  BY DEF NotYet
<1>2. /\ time \in Nat /\ skew \in Nat /\ faults \in Nat
      /\ startTime \in [Request -> Int] /\ hits \in [Request -> Nat]
      /\ watermark \in Int /\ origin \in Int
      /\ window.start \in Int /\ window.end \in Int
      /\ pc # "idle" => window.start < window.end
  BY <1>1 DEF TypeOK
<1> QED BY <1>2 DEF CalculateWindow, Now

-----------------------------------------------------------------------------
(***************************************************************************)
(* Types.                                                                  *)
(***************************************************************************)
LEMMA InitTyped == ASSUME Init PROVE TypeOK
BY DiscoveryAssumption DEF Init, TypeOK, NotYet, None

LEMMA StepTyped == ASSUME TypeOK, [Next]_vars PROVE TypeOK'
<1> USE DiscoveryAssumption
<1>t. /\ time \in Nat /\ skew \in Nat /\ faults \in Nat
      /\ watermark \in Int /\ origin \in Int /\ window.start \in Int /\ window.end \in Int
      /\ CalculateWindow.start \in Int /\ CalculateWindow.end \in Int
  BY Types
<1>f. (Fault => faults' \in Nat) /\ (NoFault => faults' \in Nat)
  BY <1>t DEF Fault, NoFault
<1>1. CASE Tick
  BY <1>1, <1>t DEF Tick, TypeOK
<1>2. CASE ClockBack
  BY <1>2, <1>t, <1>f DEF ClockBack, TypeOK
<1>3. ASSUME NEW r \in Request, Observe(r) PROVE TypeOK'
  <2>1. time \in NotYet .. MaxTime /\ time # NotYet
    BY <1>t DEF NotYet, TypeOK
  <2> QED BY <1>3, <2>1 DEF Observe, TypeOK
<1>4. ASSUME NEW r \in Request, Record(r) PROVE TypeOK'
  BY <1>4 DEF Record, TypeOK
<1>5. CASE BeginCycle
  <2>1. window' \in [start : Int, end : Int] /\ window'.start < window'.end
    BY <1>5, <1>t DEF BeginCycle, CalculateWindow
  <2> QED BY <1>5, <1>f, <2>1 DEF BeginCycle, world, TypeOK
<1>6. CASE QuerySignatures
  <2>1. batch' \subseteq recorded \/ batch' = batch
    BY <1>6 DEF QuerySignatures
  <2>2. dropped' \subseteq Request
    BY <1>6 DEF QuerySignatures, TypeOK
  <2>3. pc' \in {"idle", "upsert", "advance"} /\ pc # "idle" /\ faults' \in Nat
    BY <1>6, <1>f DEF QuerySignatures
  <2> QED BY <1>6, <2>1, <2>2, <2>3 DEF QuerySignatures, world, TypeOK
<1>7. ASSUME NEW r \in batch, UpsertOne(r) PROVE TypeOK'
  <2>1. batch' \subseteq recorded /\ SameRecord(r) \subseteq Request
    BY <1>7 DEF UpsertOne, SameRecord, TypeOK
  <2>2. hits' \in [Request -> Nat]
    BY <1>7 DEF UpsertOne, TypeOK
  <2>3. dropped' \subseteq Request /\ faults' \in Nat
    BY <1>7, <1>f, <2>1 DEF UpsertOne, TypeOK
  <2>4. pc' \in {"upsert", "advance"} /\ pc # "idle"
    BY <1>7 DEF UpsertOne
  <2> QED BY <1>7, <2>1, <2>2, <2>3, <2>4 DEF UpsertOne, world, TypeOK
<1>8. CASE Advance
  BY <1>8, <1>t, <1>f DEF Advance, SetWatermark, world, TypeOK
<1>9. CASE Crash
  BY <1>9, <1>f DEF Crash, world, TypeOK
<1>10. CASE UNCHANGED vars
  BY <1>10 DEF vars, TypeOK
<1> QED
  BY <1>1, <1>2, <1>3, <1>4, <1>5, <1>6, <1>7, <1>8, <1>9, <1>10 DEF Next

\* The variables keep their types; no cycle has an empty window, and what a cycle
\* upserts can be seen by a query.
THEOREM TypeCorrect == Spec => []TypeOK
BY InitTyped, StepTyped, PTL DEF Spec

-----------------------------------------------------------------------------
(***************************************************************************)
(* Bounds: what is recorded when, and where windows lie.                   *)
(***************************************************************************)

\* Nothing but the next cycle moves its window, and nothing but its end the watermark.
LEMMA StepKeepsBounds ==
    ASSUME TypeOK, Bounds, [Next]_vars
    PROVE  Bounds'
<1> USE DiscoveryAssumption
<1>t. /\ time \in Nat /\ skew \in Nat
      /\ startTime \in [Request -> Int] /\ hits \in [Request -> Nat]
      /\ watermark \in Int /\ window.start \in Int /\ window.end \in Int
      /\ pc # "idle" => window.start < window.end
      /\ CalculateWindow.start \in Int /\ CalculateWindow.end = time - skew - SafetyLag
  BY Types
<1>q. /\ pc \in {"idle", "query", "upsert", "advance"} /\ batch \subseteq recorded
      /\ recorded \subseteq Request
  BY DEF TypeOK
<1>b. UnrecordedIsRecent /\ WindowsFollow /\ BatchOfWindow
  BY DEF Bounds
<1>1. CASE Tick
  <2>1. UnrecordedIsRecent'
    BY <1>1, <1>t, <1>b DEF Tick, UnrecordedIsRecent
  <2>2. WindowsFollow'
    BY <1>1, <1>t, <1>b DEF Tick, WindowsFollow
  <2>3. BatchOfWindow'
    BY <1>1, <1>b DEF Tick, BatchOfWindow, InWindow
  <2> QED BY <2>1, <2>2, <2>3 DEF Bounds
<1>2. CASE ClockBack
  BY <1>2, <1>b
  DEF ClockBack, Bounds, UnrecordedIsRecent, WindowsFollow, BatchOfWindow, InWindow
<1>3. ASSUME NEW r \in Request, Observe(r) PROVE Bounds'
  <2>1. startTime' = [startTime EXCEPT ![r] = time] /\ startTime[r] = NotYet
    BY <1>3 DEF Observe
  <2>2. r \notin recorded
    BY <2>1 DEF TypeOK
  <2>3. UnrecordedIsRecent'
    BY <1>3, <1>t, <1>b, <2>1 DEF Observe, UnrecordedIsRecent
  <2>4. WindowsFollow'
    BY <1>3, <1>b DEF Observe, WindowsFollow
  <2>5. BatchOfWindow'
    BY <1>3, <1>q, <1>b, <1>t, <2>1, <2>2 DEF Observe, BatchOfWindow, InWindow
  <2> QED BY <2>3, <2>4, <2>5 DEF Bounds
<1>4. ASSUME NEW r \in Request, Record(r) PROVE Bounds'
  BY <1>4, <1>b DEF Record, Bounds, UnrecordedIsRecent, WindowsFollow, BatchOfWindow, InWindow
<1>5. CASE BeginCycle
  <2>1. batch' = {} /\ UnrecordedIsRecent'
    BY <1>5, <1>b DEF BeginCycle, world, BatchOfWindow, UnrecordedIsRecent
  <2>2. window'.end = time - skew - SafetyLag /\ (watermark # None => window'.start = watermark)
    BY <1>5, <1>t DEF BeginCycle, CalculateWindow
  <2>3. WindowsFollow'
    BY <1>5, <1>t, <1>b, <2>2 DEF BeginCycle, world, WindowsFollow
  <2> QED BY <2>1, <2>3 DEF Bounds, BatchOfWindow
<1>6. CASE QuerySignatures
  <2>1. UnrecordedIsRecent'
    BY <1>6, <1>b DEF QuerySignatures, world, UnrecordedIsRecent
  <2>2. WindowsFollow'
    BY <1>6, <1>b DEF QuerySignatures, world, WindowsFollow
  <2>3. (pc' # "upsert" => batch' = {}) /\ \A r \in batch' : InWindow(r)
    BY <1>6, <1>b DEF QuerySignatures, BatchOfWindow
  <2>4. \A r \in batch' : InWindow(r)'
    BY <1>6, <2>3 DEF QuerySignatures, world, InWindow
  <2> QED BY <2>1, <2>2, <2>3, <2>4 DEF Bounds, BatchOfWindow
<1>7. ASSUME NEW r \in batch, UpsertOne(r) PROVE Bounds'
  <2>1. SameRecord(r) \subseteq recorded
    BY <1>q DEF SameRecord
  <2>2. UnrecordedIsRecent'
    BY <1>7, <1>b, <2>1 DEF UpsertOne, world, UnrecordedIsRecent
  <2>3. WindowsFollow'
    BY <1>7, <1>b DEF UpsertOne, world, WindowsFollow
  <2>4. BatchOfWindow'
    BY <1>7, <1>b DEF UpsertOne, world, BatchOfWindow, InWindow
  <2> QED BY <2>2, <2>3, <2>4 DEF Bounds
<1>8. CASE Advance
  <2>1. UnrecordedIsRecent' /\ BatchOfWindow'
    BY <1>8, <1>b DEF Advance, world, UnrecordedIsRecent, BatchOfWindow
  <2>2. WindowsFollow'
    BY <1>8, <1>t, <1>b DEF Advance, SetWatermark, world, WindowsFollow
  <2> QED BY <2>1, <2>2 DEF Bounds
<1>9. CASE Crash
  BY <1>9, <1>b DEF Crash, world, Bounds, UnrecordedIsRecent, WindowsFollow, BatchOfWindow
<1>10. CASE UNCHANGED vars
  BY <1>10, <1>b DEF vars, Bounds, UnrecordedIsRecent, WindowsFollow, BatchOfWindow, InWindow
<1> QED
  BY <1>1, <1>2, <1>3, <1>4, <1>5, <1>6, <1>7, <1>8, <1>9, <1>10 DEF Next

-----------------------------------------------------------------------------
(***************************************************************************)
(* Accounts: what becomes of a request.                                    *)
(***************************************************************************)
\* When neither hits nor windows change, the accounts stay good.
LEMMA FrameKeepsAccounts ==
    ASSUME TypeOK, Accounts, faults' \in Nat, faults <= faults',
           UNCHANGED <<startTime, hits, dropped, watermark, origin>>,
           \A r \in Request : DoneWith(r)' => DoneWith(r),
           \A r \in Request : DoneWith(r) => DoneWith(r)' \/ faults < faults'
    PROVE  Accounts'
<1>1. HitsAreDue'
  BY Types DEF Accounts, HitsAreDue, Behind
<1>2. DoneIsAccounted' /\ NothingSkipped'
  BY DEF Accounts, DoneIsAccounted, Accounted, NothingSkipped
<1> QED BY <1>1, <1>2 DEF Accounts

\* A request made now is in no window, and behind no watermark.
LEMMA ObserveKeepsAccounts ==
    ASSUME TypeOK, Bounds, Accounts, NEW r \in Request, Observe(r)
    PROVE  Accounts'
<1> USE DiscoveryAssumption
<1>t. /\ time \in Nat /\ faults \in Nat /\ startTime \in [Request -> Int] /\ hits \in [Request -> Nat]
      /\ watermark \in Int /\ window.end \in Int
  BY Types
<1>1. UNCHANGED <<hits, dropped, watermark, origin, pc, window, batch, faults>>
      /\ startTime' = [startTime EXCEPT ![r] = time]
  BY DEF Observe
<1>2. r \notin recorded /\ hits[r] = 0
  BY DEF Observe, TypeOK, Bounds, UnrecordedIsRecent
<1>3. Seconds(watermark) <= Seconds(time) /\ (pc # "idle" => Seconds(window.end) <= Seconds(time))
      /\ Seconds(watermark) \in Int /\ Seconds(time) \in Int /\ Seconds(window.end) \in Int
  <2>1. watermark <= time /\ (pc # "idle" => window.end <= time)
    BY <1>t DEF Bounds, WindowsFollow
  <2>2. Seconds(window.end) \in Int
    BY <1>t, SecondsMonotone
  <2> QED BY <1>t, <2>1, <2>2, SecondsMonotone
<1>4. startTime'[r] = time /\ \A q \in Request \ {r} : startTime'[q] = startTime[q]
  BY <1>t, <1>1
<1>5. ~Behind(r)' /\ ~DoneWith(r)'
  BY <1>1, <1>3, <1>4 DEF Behind, DoneWith, InWindow
<1>6. \A q \in Request \ {r} : Behind(q)' = Behind(q) /\ DoneWith(q)' = DoneWith(q)
  BY <1>1, <1>4 DEF Behind, DoneWith, InWindow
<1>7. HitsAreDue'
  BY <1>t, <1>1, <1>2, <1>5, <1>6 DEF Accounts, HitsAreDue
<1>8. DoneIsAccounted'
  BY <1>1, <1>5, <1>6 DEF Accounts, DoneIsAccounted, Accounted
<1>9. NothingSkipped'
  <2>1. ~(Seconds(startTime'[r]) < Seconds(watermark'))
    BY <1>1, <1>3, <1>4
  <2> QED BY <1>1, <1>4, <2>1 DEF Accounts, NothingSkipped
<1> QED BY <1>7, <1>8, <1>9 DEF Accounts

\* The query sees every request of its window, for the lag has passed.
LEMMA QueryKeepsAccounts ==
    ASSUME TypeOK, Bounds, Accounts, QuerySignatures
    PROVE  Accounts'
<1> USE DiscoveryAssumption
<1>t. /\ time \in Nat /\ faults \in Nat /\ startTime \in [Request -> Int] /\ hits \in [Request -> Nat]
      /\ window.end \in Int
  BY Types
<1>1. UNCHANGED <<startTime, recorded, hits, watermark, origin, window>> /\ pc = "query"
  BY DEF QuerySignatures, world
<1>2. \A r \in Request : ~DoneWith(r)
  BY <1>1 DEF DoneWith
<1>3. CASE Fault /\ pc' = "idle" /\ UNCHANGED <<batch, dropped>>
  <2>1. \A r \in Request : ~DoneWith(r)'
    BY <1>3 DEF DoneWith
  <2> QED BY <1>t, <1>1, <1>2, <1>3, <2>1, FrameKeepsAccounts DEF Fault
<1>v. \A r \in Request : startTime[r] # NotYet /\ InWindow(r) => r \in recorded
  <2> SUFFICES ASSUME NEW r \in Request \ recorded, startTime[r] # NotYet, InWindow(r)
               PROVE  FALSE
    OBVIOUS
  <2>1. startTime[r] < window.end
    BY InWindowIsBefore
  <2>2. window.end <= time - SafetyLag
    BY <1>1 DEF Bounds, WindowsFollow
  <2>3. time <= startTime[r] + SafetyLag
    BY DEF Bounds, UnrecordedIsRecent
  <2>4. startTime[r] \in Int
    BY <1>t
  <2> QED BY <1>t, <2>1, <2>2, <2>3, <2>4
<1>4. CASE \E K \in SUBSET {Signature[r] : r \in {q \in recorded : InWindow(q)}} :
              /\ batch' = {r \in {q \in recorded : InWindow(q)} : Signature[r] \in Apply(K)}
              /\ dropped' = dropped \cup {r \in {q \in recorded : InWindow(q)} : Signature[r] \notin K}
              /\ NoFault
  <2>2. \A r \in Request : DoneWith(r)' => Signature[r] \in Noise \/ r \in dropped'
    BY <1>1, <1>4, <1>v DEF DoneWith, InWindow, Apply
  <2>3. HitsAreDue'
    BY <1>1, <1>2, <1>4 DEF NoFault, Accounts, HitsAreDue, Behind
  <2>4. DoneIsAccounted'
    BY <2>2 DEF DoneIsAccounted, Accounted
  <2>5. NothingSkipped'
    BY <1>1, <1>4 DEF Accounts, NothingSkipped
  <2> QED BY <2>3, <2>4, <2>5 DEF Accounts
<1>5. CASE Fault /\ pc' = "advance" /\ batch' = {}
           /\ dropped' = dropped \cup {r \in recorded : InWindow(r)}
  <2>1. \A r \in Request : DoneWith(r)' => r \in dropped'
    BY <1>1, <1>5, <1>v DEF DoneWith, InWindow
  <2>2. HitsAreDue'
    BY <1>t, <1>1, <1>2, <1>5 DEF Fault, Accounts, HitsAreDue, Behind
  <2>3. DoneIsAccounted'
    BY <2>1 DEF DoneIsAccounted, Accounted
  <2>4. NothingSkipped'
    BY <1>1, <1>5 DEF Accounts, NothingSkipped
  <2> QED BY <2>2, <2>3, <2>4 DEF Accounts
<1> QED BY <1>3, <1>4, <1>5 DEF QuerySignatures

\* A request that is upserted has not been behind a watermark, nor done with.
LEMMA UpsertKeepsAccounts ==
    ASSUME TypeOK, Bounds, Accounts, NEW r \in batch, UpsertOne(r)
    PROVE  Accounts'
<1> USE DiscoveryAssumption
<1>t. /\ faults \in Nat /\ startTime \in [Request -> Int] /\ hits \in [Request -> Nat]
      /\ watermark \in Int /\ window.start \in Int
  BY Types
<1>1. /\ UNCHANGED <<startTime, watermark, origin, window>> /\ pc = "upsert"
      /\ pc' \in {"upsert", "advance"} /\ batch' = batch \ SameRecord(r)
  BY DEF UpsertOne, world
<1>2. SameRecord(r) \subseteq batch /\ batch \subseteq Request
  BY DEF SameRecord, TypeOK
<1>3. \A q \in SameRecord(r) : ~Behind(q) /\ ~DoneWith(q)
  <2>1. \A q \in batch : Seconds(window.start) <= Seconds(startTime[q])
    BY DEF Bounds, BatchOfWindow, InWindow
  <2>2. watermark # None => window.start = watermark
    BY <1>1 DEF Bounds, WindowsFollow
  <2>3. \A q \in batch : Seconds(window.start) \in Int /\ Seconds(startTime[q]) \in Int
    BY <1>t, <1>2, SecondsMonotone
  <2> QED BY <1>2, <2>1, <2>2, <2>3 DEF Behind, DoneWith
<1>4. \A q \in Request : Behind(q)' = Behind(q)
  BY <1>1 DEF Behind
<1>5. \A q \in Request : DoneWith(q)' => DoneWith(q) \/ q \in SameRecord(r)
  BY <1>1 DEF DoneWith, InWindow
<1>6. \A q \in Request : DoneWith(q) => DoneWith(q)'
  BY <1>1 DEF DoneWith, InWindow
<1>7. CASE /\ hits' = [q \in Request |-> IF q \in SameRecord(r) THEN hits[q] + 1 ELSE hits[q]]
           /\ NoFault /\ UNCHANGED dropped
  <2>1. \A q \in SameRecord(r) : DoneWith(q)'
    BY <1>1, <1>2, <1>7, <1>3 DEF DoneWith, InWindow, Bounds, BatchOfWindow, TypeOK
  <2>2. HitsAreDue'
    BY <1>t, <1>2, <1>3, <1>4, <1>6, <1>7, <2>1 DEF NoFault, Accounts, HitsAreDue
  <2>3. \A q \in Request : Accounted(q) => Accounted(q)'
    BY <1>t, <1>7 DEF Accounted
  <2>4. \A q \in SameRecord(r) : Accounted(q)'
    BY <1>t, <1>2, <1>7 DEF Accounted
  <2>5. DoneIsAccounted'
    BY <1>5, <2>3, <2>4 DEF Accounts, DoneIsAccounted
  <2>6. NothingSkipped'
    BY <1>1, <2>3 DEF Accounts, NothingSkipped, Accounted
  <2> QED BY <2>2, <2>5, <2>6 DEF Accounts
<1>8. CASE Fault /\ dropped' = dropped \cup SameRecord(r) /\ UNCHANGED hits
  <2>1. HitsAreDue'
    BY <1>t, <1>8 DEF Fault, Accounts, HitsAreDue
  <2>2. DoneIsAccounted'
    BY <1>5, <1>8 DEF Accounts, DoneIsAccounted, Accounted
  <2>3. NothingSkipped'
    BY <1>1, <1>8 DEF Accounts, NothingSkipped
  <2> QED BY <2>1, <2>2, <2>3 DEF Accounts
<1> QED BY <1>7, <1>8 DEF UpsertOne

\* The window joins what is behind the watermark, without a gap.
LEMMA AdvanceKeepsAccounts ==
    ASSUME TypeOK, Bounds, Accounts, Advance
    PROVE  Accounts'
<1> USE DiscoveryAssumption
<1>t. /\ faults \in Nat /\ startTime \in [Request -> Int] /\ hits \in [Request -> Nat]
      /\ watermark \in Int /\ origin \in Int /\ window.start \in Int /\ window.end \in Int
      /\ pc # "idle" => window.start < window.end
  BY Types
<1>1. /\ UNCHANGED <<startTime, hits, dropped, window>> /\ pc = "advance" /\ pc' = "idle"
      /\ batch = {} /\ (watermark # None => window.start = watermark)
  BY DEF Advance, world, Bounds, WindowsFollow, BatchOfWindow
<1>2. \A r \in Request : ~DoneWith(r)'
  BY <1>1 DEF DoneWith
<1>3. CASE Fault /\ UNCHANGED <<watermark, origin>>
  BY <1>t, <1>1, <1>2, <1>3, FrameKeepsAccounts DEF Fault
<1>4. CASE watermark' = window.end /\ origin' = (IF watermark = None THEN window.start ELSE origin)
           /\ NoFault
  <2>1. \A r \in Request : /\ Seconds(startTime[r]) \in Int
                           /\ Seconds(window.start) \in Int /\ Seconds(window.end) \in Int
                           /\ Seconds(window.start) <= Seconds(window.end)
    BY <1>t, <1>1, SecondsMonotone
  <2>2. ASSUME NEW r \in Request, startTime[r] # NotYet, Seconds(startTime[r]) < Seconds(window.end)
        PROVE  DoneWith(r) \/ Seconds(startTime[r]) < Seconds(window.start)
    BY <1>1, <2>1, <2>2 DEF DoneWith, InWindow
  <2>3. ASSUME NEW r \in Request, watermark' # None, ~Behind(r)' PROVE ~Behind(r) /\ ~DoneWith(r)
    BY <1>1, <1>4, <2>1, <2>3 DEF Behind, DoneWith, InWindow
  <2>4. CASE watermark' = None
    \* The clock was set back so far that the window lies before all requests.
    <3>1. ASSUME NEW r \in Request, startTime[r] # NotYet
          PROVE  startTime[r] \in Nat
      BY <3>1 DEF TypeOK, NotYet
    <3>2. window.end < 0 /\ window.start < 0 /\ (watermark # None => watermark < 0)
      BY <1>t, <1>1, <1>4, <2>4 DEF None
    <3>3. ASSUME NEW r \in Request PROVE ~Behind(r) /\ ~DoneWith(r)
      <4>1. ASSUME startTime[r] # NotYet, watermark # None PROVE ~Behind(r)
        <5>1. startTime[r] \in Int /\ watermark <= startTime[r]
          BY <1>t, <3>1, <3>2, <4>1
        <5> QED BY <1>t, <5>1, SecondsMonotone DEF Behind
      <4>2. ASSUME startTime[r] # NotYet, InWindow(r) PROVE FALSE
        <5>1. startTime[r] < window.end /\ startTime[r] \in Nat
          BY <3>1, <4>2, InWindowIsBefore
        <5> QED BY <1>t, <3>2, <5>1
      <4> QED BY <4>1, <4>2 DEF Behind, DoneWith
    <3>4. HitsAreDue'
      BY <1>t, <1>1, <1>4, <3>3 DEF NoFault, Accounts, HitsAreDue
    <3>5. DoneIsAccounted' /\ NothingSkipped'
      BY <1>2, <2>4 DEF DoneIsAccounted, NothingSkipped
    <3> QED BY <3>4, <3>5 DEF Accounts
  <2>5. CASE watermark' # None
    <3>1. HitsAreDue'
      BY <1>t, <1>1, <1>4, <2>3, <2>5 DEF NoFault, Accounts, HitsAreDue
    <3>2. DoneIsAccounted'
      BY <1>2 DEF DoneIsAccounted
    <3>3. ASSUME NEW r \in Request, startTime[r] # NotYet,
                 Seconds(origin') <= Seconds(startTime[r]), Seconds(startTime[r]) < Seconds(window.end)
          PROVE  Accounted(r)
      <4>1. CASE DoneWith(r)
        BY <4>1 DEF Accounts, DoneIsAccounted
      <4>2. CASE Seconds(startTime[r]) < Seconds(window.start)
        <5>1. watermark # None
          BY <1>4, <2>1, <3>3, <4>2
        <5> QED BY <1>1, <1>4, <3>3, <4>2, <5>1 DEF Accounts, NothingSkipped, Accounted
      <4> QED BY <2>2, <3>3, <4>1, <4>2
    <3>4. NothingSkipped'
      BY <1>1, <1>4, <3>3 DEF NothingSkipped, Accounted
    <3> QED BY <3>1, <3>2, <3>4 DEF Accounts
  <2> QED BY <2>4, <2>5
<1> QED BY <1>3, <1>4 DEF Advance, SetWatermark

LEMMA StepKeepsAccounts ==
    ASSUME TypeOK, Bounds, Accounts, [Next]_vars
    PROVE  Accounts'
<1>t. faults \in Nat
  BY Types
<1>f. (Fault => faults' \in Nat /\ faults < faults') /\ (NoFault => faults' = faults)
  BY <1>t DEF Fault, NoFault
<1>1. CASE Tick
  BY <1>1, <1>t, FrameKeepsAccounts DEF Tick, DoneWith, InWindow
<1>2. CASE ClockBack
  <2>1. UNCHANGED <<startTime, hits, dropped, watermark, origin, pc, window, batch>>
        /\ faults' \in Nat /\ faults <= faults'
    BY <1>2, <1>t, <1>f DEF ClockBack
  <2>2. \A r \in Request : DoneWith(r)' = DoneWith(r)
    BY <2>1 DEF DoneWith, InWindow
  <2> QED BY <2>1, <2>2, FrameKeepsAccounts
<1>3. CASE \E r \in Request : Record(r)
  BY <1>3, <1>t, FrameKeepsAccounts DEF Record, DoneWith, InWindow
<1>4. CASE BeginCycle
  <2>1. \A r \in Request : ~DoneWith(r) /\ ~DoneWith(r)'
    BY <1>4 DEF BeginCycle, DoneWith
  <2> QED BY <1>4, <1>t, <1>f, <2>1, FrameKeepsAccounts DEF BeginCycle, world
<1>5. CASE Crash
  <2>1. \A r \in Request : ~DoneWith(r)'
    BY <1>5 DEF Crash, DoneWith
  <2>2. UNCHANGED <<startTime, hits, dropped, watermark, origin>>
        /\ faults' \in Nat /\ faults <= faults' /\ faults < faults'
    BY <1>5, <1>t, <1>f DEF Crash, world
  <2> QED BY <2>1, <2>2, FrameKeepsAccounts
<1>6. CASE UNCHANGED vars
  BY <1>6, <1>t, FrameKeepsAccounts DEF vars, DoneWith, InWindow
<1> QED
  BY <1>1, <1>2, <1>3, <1>4, <1>5, <1>6,
     ObserveKeepsAccounts, QueryKeepsAccounts, UpsertKeepsAccounts, AdvanceKeepsAccounts
  DEF Next

-----------------------------------------------------------------------------
(***************************************************************************)
(* The theorems.                                                           *)
(***************************************************************************)
LEMMA InitGood == ASSUME Init PROVE Bounds /\ Accounts
<1> USE DiscoveryAssumption
<1>1. UnrecordedIsRecent
  BY DEF Init, UnrecordedIsRecent, NotYet
<1>2. WindowsFollow /\ BatchOfWindow
  BY DEF Init, WindowsFollow, BatchOfWindow, None
<1>3. Accounts
  BY DEF Init, Accounts, HitsAreDue, DoneIsAccounted, NothingSkipped, DoneWith
<1> QED BY <1>1, <1>2, <1>3 DEF Bounds

\* The books of phase 1 balance: requests become visible within the lag, a window
\* starts where the watermark is and ends the lag ago, and a cycle owes a hit to
\* what no earlier window held.
THEOREM DiscoveryInvariant == Spec => []DiscoveryInv
<1>1. Init => DiscoveryInv
  BY InitTyped, InitGood DEF DiscoveryInv
<1>2. DiscoveryInv /\ [Next]_vars => DiscoveryInv'
  BY StepTyped, StepKeepsBounds, StepKeepsAccounts DEF DiscoveryInv
<1> QED BY <1>1, <1>2, PTL DEF Spec

\* Whatever the windows, a request is added to its hit count at most once more than
\* calls failed, cycles crashed or the clock stepped back.
THEOREM CountedOnceHolds == Spec => []CountedOnce
<1>1. DiscoveryInv => CountedOnce
  BY DEF DiscoveryInv, Accounts, HitsAreDue, CountedOnce
<1> QED BY <1>1, DiscoveryInvariant, PTL

\* Whatever the lag, the rounding and the failures, nothing behind the watermark is
\* missing from the hit counts but noise and what the LIMIT, a failed upsert or an
\* unreadable answer took.
THEOREM NothingSkippedHolds == Spec => []NothingSkipped
<1>1. DiscoveryInv => NothingSkipped
  BY DEF DiscoveryInv, Accounts
<1> QED BY <1>1, DiscoveryInvariant, PTL
=============================================================================
