----------------------------- MODULE Retention -----------------------------
(***************************************************************************)
(* The daily cleanup (internal/engine/cleanup.go) against phase 3, which   *)
(* keeps touching the rows that are to grow old, and against the foreign   *)
(* keys of adc_unmanaged_apis.  Time passes in days; a timestamp is kept   *)
(* as its age, up to one day more than the longest age it is compared      *)
(* with.  The steps inside a comparison are in Pipeline; here the phase    *)
(* takes two, one that reads and one that writes.                          *)
(***************************************************************************)
EXTENDS UnmanagedStore

CONSTANTS
    Operations,             \* [Api -> SUBSET Endpoints], while the API is published
    StaleAfter,             \* unmanaged.schedule.stale_after, in days
    DiscoveredRetention,    \* server.retention, in days
    ManagedRetention,
    UnmanagedRetention,
    MaxEdits,               \* bound: APIs that come and go
    MaxFaults               \* bound: failures, also of whole comparisons

ASSUME RetentionAssumption ==
    /\ Operations \in [Api -> SUBSET Endpoints]
    /\ {DiscoveredRetention, ManagedRetention, UnmanagedRetention} \subseteq Nat \ {0}
    /\ StaleAfter \in 0 .. DiscoveredRetention
    /\ MaxEdits \in Nat /\ MaxFaults \in Nat

VARIABLES
    lastSeen,       \* age of last_seen_at, or NoAge: no row in adc_discovered_apis
    apiDeleted,     \* age of deleted_at, NoAge: it IS NULL, or Purged: no row in adc_managed_apis
    table,          \* adc_unmanaged_apis
    updated,        \* age of updated_at in adc_unmanaged_apis
    verdict,        \* the classification of the last comparison
    confirmed,      \* findings that the last comparison upserted
    compared,       \* a comparison has been due today
    pc,             \* the next statement of the cleanup
    cleaned,        \* cleanupLastRun is less than 24 hours ago
    edits, faults

retentionVars == <<lastSeen, apiDeleted, table, updated, verdict, confirmed, compared, pc, cleaned, edits, faults>>

NoAge  == -1
Purged == -2

Later(age, last) == IF age < 0 \/ age > last THEN age ELSE age + 1

RetentionTypeOK ==
    /\ lastSeen \in [Discovered -> NoAge .. DiscoveredRetention + 1]
    /\ apiDeleted \in [Api -> Purged .. ManagedRetention + 1]
    /\ table \in [Discovered -> Row]
    /\ updated \in [Discovered -> 0 .. UnmanagedRetention + 1]
    /\ verdict \in [Discovered -> Verdict]
    /\ confirmed \subseteq Discovered
    /\ compared \in BOOLEAN /\ cleaned \in BOOLEAN
    /\ pc \in {"idle", "confirm", "managed", "unmanaged"}
    /\ edits \in Nat /\ faults \in Nat

RetentionInit ==
    /\ lastSeen = [d \in Discovered |-> NoAge]
    /\ apiDeleted = [a \in Api |-> Purged]
    /\ table = [d \in Discovered |-> NoRow]
    /\ updated = [d \in Discovered |-> 0]
    /\ verdict = Verdicts({}, Operations)
    /\ confirmed = {} /\ compared = FALSE
    /\ pc = "idle" /\ cleaned = FALSE
    /\ edits = 0 /\ faults = 0

Fault   == faults < MaxFaults /\ faults' = faults + 1
NoFault == UNCHANGED faults
Edit    == edits < MaxEdits /\ edits' = edits + 1

Seen    == {d \in Discovered : lastSeen[d] # NoAge}
Quiet   == {d \in Seen : lastSeen[d] > StaleAfter}
Managed == [a \in Api |-> IF apiDeleted[a] = NoAge THEN Operations[a] ELSE {}]

-----------------------------------------------------------------------------
\* Phase 1 stores an operation with traffic: last_seen_at = NOW().
Traffic(d) ==
    /\ pc = "idle" /\ lastSeen[d] # 0
    /\ lastSeen' = [lastSeen EXCEPT ![d] = 0]
    /\ UNCHANGED <<apiDeleted, table, updated, verdict, confirmed, compared, pc, cleaned, edits, faults>>

\* Phase 2 finds an API published, or finds it gone.
PublishApi(a) ==
    /\ pc = "idle" /\ apiDeleted[a] # NoAge /\ Edit
    /\ apiDeleted' = [apiDeleted EXCEPT ![a] = NoAge]
    /\ UNCHANGED <<lastSeen, table, updated, verdict, confirmed, compared, pc, cleaned, faults>>

RemoveApi(a) ==
    /\ pc = "idle" /\ apiDeleted[a] = NoAge /\ Edit
    /\ apiDeleted' = [apiDeleted EXCEPT ![a] = 0]
    /\ UNCHANGED <<lastSeen, table, updated, verdict, confirmed, compared, pc, cleaned, faults>>

\* The operator dismisses a finding at any moment.
Dismiss(d) ==
    /\ table[d].status \notin {"NONE", "DISMISSED"}
    /\ table' = [table EXCEPT ![d].status = "DISMISSED"]
    /\ UNCHANGED <<lastSeen, apiDeleted, updated, verdict, confirmed, compared, pc, cleaned, edits, faults>>

\* The engine does not let a day go by without its cycles.
NextDay ==
    /\ pc = "idle" /\ compared /\ cleaned
    /\ compared' = FALSE /\ cleaned' = FALSE
    /\ lastSeen' = [d \in Discovered |-> Later(lastSeen[d], DiscoveredRetention)]
    /\ apiDeleted' = [a \in Api |-> Later(apiDeleted[a], ManagedRetention)]
    /\ updated' = [d \in Discovered |-> IF table[d].status = "NONE" THEN 0
                                        ELSE Later(updated[d], UnmanagedRetention)]
    /\ UNCHANGED <<table, verdict, confirmed, pc, edits, faults>>

-----------------------------------------------------------------------------
UpsertAll(S) == [d \in Discovered |-> IF d \in S THEN Upsert(table, d, verdict[d])[d] ELSE table[d]]

\* Mutants: the upsert leaves the updated_at of a row that keeps its status alone;
\* the rows that are closed already are closed again.
TouchedIfReopened(S) == {d \in Discovered : Active(table[d])} \cup {d \in S : table[d].status # "DISMISSED"}
TouchedAgain(S) == S \cup {d \in Discovered : table[d].status \notin {"NONE", "DISMISSED"}}

\* The rows whose updated_at becomes NOW(): upserted, or closed for not being so.
Touched(S) == S \cup {d \in Discovered : Active(table[d])}

\* Phase 3 classifies; with nothing discovered it returns, and it may fail.
CompareApis ==
    /\ pc = "idle"
    /\ \/ /\ Seen # {} /\ NoFault
          /\ verdict' = Verdicts(Seen, Managed)
          /\ pc' = "confirm" /\ UNCHANGED compared
       \/ /\ (Seen = {} /\ NoFault) \/ Fault
          /\ compared' = TRUE /\ UNCHANGED <<verdict, pc>>
    /\ UNCHANGED <<lastSeen, apiDeleted, table, updated, confirmed, cleaned, edits>>

\* The upserts, one of which may fail, MarkResolved and MarkStale.
Confirm ==
    /\ pc = "confirm" /\ pc' = "idle" /\ compared' = TRUE
    /\ \/ confirmed' = Unmanaged(verdict) /\ NoFault
       \/ Fault /\ \E d \in Unmanaged(verdict) : confirmed' = Unmanaged(verdict) \ {d}
    /\ table' = MarkStale(MarkResolved(UpsertAll(confirmed'), confirmed'), Quiet)
    /\ updated' = [d \in Discovered |-> IF d \in Touched(confirmed') THEN 0 ELSE updated[d]]
    /\ UNCHANGED <<lastSeen, apiDeleted, verdict, cleaned, edits>>

-----------------------------------------------------------------------------
(***************************************************************************)
(* Cleanup.Run: each statement may fail, and the next one follows anyhow.  *)
(* A DELETE that meets a foreign key fails as a whole.  The statement for  *)
(* the operations of managed APIs is in ManagedSync.                       *)
(***************************************************************************)
ExpiredDiscovered == {d \in Seen : lastSeen[d] > DiscoveredRetention /\ ~Active(table[d])}

Referenced(S) == {d \in S : table[d].status # "NONE"}

PurgeDiscovered ==
    /\ pc = "idle" /\ ~cleaned /\ pc' = "managed"
    /\ \/ /\ Referenced(ExpiredDiscovered) = {} /\ NoFault
          /\ lastSeen' = [d \in Discovered |-> IF d \in ExpiredDiscovered THEN NoAge ELSE lastSeen[d]]
       \/ Referenced(ExpiredDiscovered) # {} /\ NoFault /\ UNCHANGED lastSeen
       \/ Fault /\ UNCHANGED lastSeen
    /\ UNCHANGED <<apiDeleted, table, updated, verdict, confirmed, compared, cleaned, edits>>

ExpiredApis == {a \in Api : apiDeleted[a] > ManagedRetention}

PurgeManaged ==
    /\ pc = "managed" /\ pc' = "unmanaged"
    /\ LET blocked == \E d \in Discovered : table[d].mid \in ExpiredApis
       IN  \/ /\ ~blocked /\ NoFault
              /\ apiDeleted' = [a \in Api |-> IF a \in ExpiredApis THEN Purged ELSE apiDeleted[a]]
           \/ blocked /\ NoFault /\ UNCHANGED apiDeleted
           \/ Fault /\ UNCHANGED apiDeleted
    /\ UNCHANGED <<lastSeen, table, updated, verdict, confirmed, compared, cleaned, edits>>

ExpiredFindings == {d \in Discovered : table[d].status \in Inactive /\ updated[d] > UnmanagedRetention}

PurgeUnmanaged ==
    /\ pc = "unmanaged" /\ pc' = "idle" /\ cleaned' = TRUE
    /\ \/ /\ table' = [d \in Discovered |-> IF d \in ExpiredFindings THEN NoRow ELSE table[d]]
          /\ confirmed' = confirmed \ ExpiredFindings /\ NoFault
       \/ Fault /\ UNCHANGED <<table, confirmed>>
    /\ UNCHANGED <<lastSeen, apiDeleted, updated, verdict, compared, edits>>

\* The process restarts and knows of no cleanup.
Restart ==
    /\ Fault /\ pc' = "idle" /\ cleaned' = FALSE
    /\ UNCHANGED <<lastSeen, apiDeleted, table, updated, verdict, confirmed, compared, edits>>

-----------------------------------------------------------------------------
Compare == CompareApis \/ Confirm

Cleanup == PurgeDiscovered \/ PurgeManaged \/ PurgeUnmanaged

RetentionNext ==
    \/ \E d \in Discovered : Traffic(d) \/ Dismiss(d)
    \/ \E a \in Api : PublishApi(a) \/ RemoveApi(a)
    \/ NextDay \/ Compare \/ Cleanup \/ Restart

RetentionSpec == RetentionInit /\ [][RetentionNext]_retentionVars

\* The engine's ticker goes on and so do the days; a cycle that finds the cleanup
\* due runs it, however often comparisons run.
FairRetention == RetentionSpec /\ SF_retentionVars(NextDay) /\ WF_retentionVars(Compare) /\ SF_retentionVars(Cleanup)

-----------------------------------------------------------------------------
\* A dismissal lasts as long as its finding: the cleanup, which deletes
\* DISMISSED rows by age, never takes one that the last comparison confirmed,
\* although comparisons may fail on fewer days than the retention.
DismissalSurvivesCleanup ==
    [][\A d \in confirmed : table[d].status = "DISMISSED" => table'[d].status # "NONE"]_retentionVars

\* The finding of an operation that has become managed for good is eventually
\* forgotten: nothing keeps its row young.
ManagedIsForgotten ==
    \A d \in Discovered :
        <>[](d \in Seen /\ verdict[d].class = "MANAGED") => <>[](table[d].status = "NONE")

\* A managed API that stays deleted is eventually purged, although findings
\* that drifted from it refer to its row.
DeletedApiIsPurged ==
    \A a \in Api : <>[](apiDeleted[a] # NoAge) => <>[](apiDeleted[a] = Purged)

-----------------------------------------------------------------------------
\* engine/cleanup.go:36, "Purge stale discovered APIs (no active unmanaged
\* references)": no operation stays expired without an active reference for ever.
StaleIsPurged == \A d \in Discovered : []<>(d \notin ExpiredDiscovered)
=============================================================================
