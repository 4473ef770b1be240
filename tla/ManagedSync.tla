---------------------------- MODULE ManagedSync ----------------------------
(***************************************************************************)
(* Phase 2: internal/managed/managed.go copies the published APIs of the   *)
(* APIM Publisher into adc_managed_apis and adc_managed_api_operations,    *)
(* the baseline that phase 3 compares traffic with.  One HTTP request, one *)
(* transaction or one statement is one step; APIM changes between any two  *)
(* of them.                                                                *)
(*                                                                         *)
(* lastUpdatedTime and the operations of an API change together, so both   *)
(* are its version.  APIs are numbered in the order the Publisher lists    *)
(* them.  An API that two pages list is handled once, at any time.         *)
(***************************************************************************)
EXTENDS Integers, FiniteSets

CONSTANTS
    Api,            \* the APIs of APIM, in listing order
    Included,       \* those whose type is in sync.include_api_types
    PageSize,       \* managed.schedule.page_size
    MaxEdits,       \* bound: changes made in APIM
    MaxFaults       \* bound: failed calls and crashes

ASSUME ManagedSyncAssumption ==
    /\ Api \subseteq Nat /\ IsFiniteSet(Api)
    /\ Included \subseteq Api
    /\ PageSize \in Nat \ {0}
    /\ MaxEdits \in Nat /\ MaxFaults \in Nat

VARIABLES
    apim,           \* [Api -> published, version]: what the Publisher has
    apis,           \* adc_managed_apis
    ops,            \* adc_managed_api_operations: the operations of a version of an API
    pc,             \* where the phase is
    offset,         \* offset of the next page
    listed,         \* summaries so far; currentAPIIDs once the list is complete
    todo,           \* summaries whose detail is still to be fetched
    cur,            \* the API whose detail has been fetched, and its version
    synced,         \* the APIs that this run counts as synced
    toDelete,       \* MarkDeleted's local variable
    began,          \* history: the versions APIM had when the run began
    edits, faults

tables == <<apis, ops>>
local  == <<offset, listed, todo, cur, synced, toDelete, began>>
vars   == <<apim, apis, ops, pc, offset, listed, todo, cur, synced, toDelete, began, edits, faults>>

Version == Nat

\* A row of adc_managed_apis, with apim_last_updated_at; "none" is no row.
ApiRow == [state : {"none", "active", "deleted"}, version : Version]
OpsRow == [api : Api, version : Version, deleted : BOOLEAN]
NoRow  == [state |-> "none", version |-> 0]

NoDetail == [api |-> -1, version |-> 0]

TypeOK ==
    /\ apim \in [Api -> [published : BOOLEAN, version : Version]]
    /\ apis \in [Api -> ApiRow]
    /\ ops \subseteq OpsRow
    /\ pc \in {"idle", "list", "sync", "store", "deleteApis", "deleteOps", "advance"}
    /\ offset \in Nat
    /\ listed \subseteq Included /\ todo \subseteq listed /\ synced \subseteq listed
    /\ cur \in [api : Included, version : Version] \cup {NoDetail}
    /\ pc = "store" => cur # NoDetail /\ cur.api \in listed
    /\ toDelete \subseteq Api
    /\ began \in [Api -> Version]
    /\ edits \in Nat /\ faults \in Nat

Init ==
    /\ apim = [a \in Api |-> [published |-> FALSE, version |-> 0]]
    /\ apis = [a \in Api |-> NoRow]
    /\ ops = {}
    /\ pc = "idle" /\ offset = 0
    /\ listed = {} /\ todo = {} /\ cur = NoDetail /\ synced = {} /\ toDelete = {}
    /\ began = [a \in Api |-> 0]
    /\ edits = 0 /\ faults = 0

Fault   == faults < MaxFaults /\ faults' = faults + 1
NoFault == UNCHANGED faults

PublishedApis == {a \in Api : apim[a].published}
IsActive(a)   == apis[a].state = "active"
ActiveApis    == {a \in Api : IsActive(a)}

-----------------------------------------------------------------------------
(***************************************************************************)
(* APIM: an API is published or updated, and gets a new lastUpdatedTime,   *)
(* or leaves the PUBLISHED state.                                          *)
(***************************************************************************)
Publish(a) ==
    /\ edits < MaxEdits /\ edits' = edits + 1
    /\ apim' = [apim EXCEPT ![a] = [published |-> TRUE, version |-> @.version + 1]]
    /\ UNCHANGED <<tables, pc, local, faults>>

Unpublish(a) ==
    /\ apim[a].published
    /\ edits < MaxEdits /\ edits' = edits + 1
    /\ apim' = [apim EXCEPT ![a].published = FALSE]
    /\ UNCHANGED <<tables, pc, local, faults>>

-----------------------------------------------------------------------------
(***************************************************************************)
(* The phase.                                                              *)
(***************************************************************************)
\* Mutant: currentAPIIDs outlives the run.
BeginSyncKeepingList ==
    /\ pc = "idle" /\ pc' = "list"
    /\ offset' = 0 /\ todo' = {} /\ synced' = {} /\ toDelete' = {}
    /\ began' = [a \in Api |-> apim[a].version]
    /\ NoFault /\ UNCHANGED <<apim, tables, listed, cur, edits>>

BeginSync ==
    /\ pc = "idle" /\ pc' = "list"
    /\ offset' = 0 /\ listed' = {} /\ todo' = {} /\ synced' = {} /\ toDelete' = {}
    /\ began' = [a \in Api |-> apim[a].version]
    /\ NoFault /\ UNCHANGED <<apim, tables, cur, edits>>

\* The published APIs number from + 1 to from + PageSize.
Page(from) ==
    {a \in PublishedApis :
        LET before == Cardinality({b \in PublishedApis : b < a})
        IN  from <= before /\ before < from + PageSize}

\* ListPublishedAPIs, one page.  An error ends the phase.
ListPage ==
    /\ pc = "list"
    /\ \/ /\ listed' = listed \cup (Page(offset) \cap Included)
          /\ todo' = listed'
          /\ IF Cardinality(PublishedApis) <= offset + PageSize
             THEN pc' = "sync" /\ UNCHANGED offset
             ELSE offset' = offset + PageSize /\ UNCHANGED pc
          /\ NoFault
       \/ Fault /\ pc' = "idle" /\ UNCHANGED <<offset, listed, todo>>
    /\ UNCHANGED <<apim, tables, cur, synced, toDelete, began, edits>>

\* GetAPIDetail, also of an API that is no longer PUBLISHED.  On an error,
\* such as the 404 of an API that is gone, the API is skipped.
FetchDetail(a) ==
    /\ pc = "sync" /\ a \in todo
    /\ todo' = todo \ {a}
    /\ \/ /\ cur' = [api |-> a, version |-> apim[a].version]
          /\ pc' = "store" /\ NoFault
       \/ ~apim[a].published /\ NoFault /\ UNCHANGED <<cur, pc>>
       \/ Fault /\ UNCHANGED <<cur, pc>>
    /\ UNCHANGED <<apim, tables, offset, listed, synced, toDelete, began, edits>>

\* The comparison of lastUpdatedTime with the row, which may be a soft-deleted one.
\* Mutant: any row that exists counts as unchanged.
AnyRowUnchanged(d) == apis[d.api].state # "none"
Unchanged(d) == apis[d.api].state # "none" /\ apis[d.api].version = d.version

OpsOf(d) == [api |-> d.api, version |-> d.version, deleted |-> FALSE]

\* Mutant: the operations that were there are not deleted.
UpsertApiKeepingOps(d) ==
    /\ apis' = [apis EXCEPT ![d.api] = [state |-> "active", version |-> d.version]]
    /\ ops' = ops \cup {OpsOf(d)}

\* One transaction: the row with deleted_at = NULL, and its operations anew.
UpsertAPI(d) ==
    /\ apis' = [apis EXCEPT ![d.api] = [state |-> "active", version |-> d.version]]
    /\ ops' = {o \in ops : o.api # d.api} \cup {OpsOf(d)}

\* Change detection, then UpdateLastSynced or UpsertAPI.  When the lookup of
\* the row fails it is taken for a new one.
StoreDetail ==
    /\ pc = "store" /\ pc' = "sync" /\ cur' = NoDetail
    /\ \/ Unchanged(cur) /\ synced' = synced \cup {cur.api} /\ NoFault /\ UNCHANGED tables
       \/ ~Unchanged(cur) /\ UpsertAPI(cur) /\ synced' = synced \cup {cur.api} /\ NoFault
       \/ Fault /\ UpsertAPI(cur) /\ synced' = synced \cup {cur.api}
       \/ Fault /\ UNCHANGED <<tables, synced>>
    /\ UNCHANGED <<apim, offset, listed, todo, toDelete, began, edits>>

\* Step 5.  Nothing is deleted when the list is empty.
DetectDeletions ==
    /\ pc = "sync" /\ todo = {}
    /\ \/ /\ toDelete' = IF listed = {} THEN {} ELSE ActiveApis \ listed
          /\ pc' = IF toDelete' = {} THEN "advance" ELSE "deleteApis"
          /\ NoFault
       \/ Fault /\ pc' = "advance" /\ UNCHANGED toDelete
    /\ UNCHANGED <<apim, tables, offset, listed, todo, cur, synced, began, edits>>

\* Mutant: the operations go first.
MarkOperationsFirst ==
    /\ pc = "deleteApis"
    /\ ops' = {IF o.api \in toDelete THEN [o EXCEPT !.deleted = TRUE] ELSE o : o \in ops}
    /\ pc' = "deleteOps" /\ NoFault
    /\ UNCHANGED <<apim, apis, local, edits>>

\* MarkDeleted: two statements, no transaction.
MarkApisDeleted ==
    /\ pc = "deleteApis"
    /\ \/ /\ apis' = [a \in Api |-> IF a \in toDelete /\ IsActive(a)
                                    THEN [apis[a] EXCEPT !.state = "deleted"] ELSE apis[a]]
          /\ pc' = "deleteOps" /\ NoFault
       \/ Fault /\ pc' = "advance" /\ UNCHANGED apis
    /\ UNCHANGED <<apim, ops, local, edits>>

MarkOpsDeleted ==
    /\ pc = "deleteOps" /\ pc' = "advance"
    /\ \/ /\ ops' = {IF o.api \in toDelete THEN [o EXCEPT !.deleted = TRUE] ELSE o : o \in ops}
          /\ NoFault
       \/ Fault /\ UNCHANGED ops
    /\ UNCHANGED <<apim, apis, local, edits>>

\* Step 6.  Nobody reads this watermark; the phase ends, with or without an error.
FinishSync ==
    /\ pc = "advance" /\ pc' = "idle"
    /\ NoFault /\ UNCHANGED <<apim, tables, local, edits>>

\* The process ends and restarts.
Crash ==
    /\ pc # "idle" /\ Fault /\ pc' = "idle" /\ cur' = NoDetail
    /\ UNCHANGED <<apim, tables, offset, listed, todo, synced, toDelete, began, edits>>

\* The daily cleanup deletes what was soft-deleted long enough ago: the
\* operations, then the APIs.  There is no foreign key between the tables.
PurgeManagedOps ==
    /\ pc = "idle"
    /\ \E old \in SUBSET {o \in ops : o.deleted} : old # {} /\ ops' = ops \ old
    /\ NoFault /\ UNCHANGED <<apim, apis, pc, local, edits>>

PurgeManaged(a) ==
    /\ pc = "idle" /\ apis[a].state = "deleted"
    /\ apis' = [apis EXCEPT ![a] = NoRow]
    /\ NoFault /\ UNCHANGED <<apim, ops, pc, local, edits>>

-----------------------------------------------------------------------------
Sync ==
    \/ BeginSync \/ ListPage \/ (\E a \in todo : FetchDetail(a)) \/ StoreDetail
    \/ DetectDeletions \/ MarkApisDeleted \/ MarkOpsDeleted \/ FinishSync

Next ==
    \/ Sync
    \/ \E a \in Api : Publish(a) \/ Unpublish(a)
    \/ Crash
    \/ PurgeManagedOps \/ (\E a \in Api : PurgeManaged(a))

Spec == Init /\ [][Next]_vars

\* The engine runs the phase again and again.
FairSpec == Spec /\ WF_vars(Sync)

-----------------------------------------------------------------------------
\* Phase 3 sees the operations of an active API as those of exactly the
\* version recorded for it, after any mixture of upserts, half-done deletions,
\* purges and crashes.  Were it otherwise, change detection would take the API
\* for unchanged and never repair it.
BaselineIsOneVersion ==
    \A a \in ActiveApis : {o \in ops : o.api = a} = {OpsOf([api |-> a, version |-> apis[a].version])}

\* What ManagedOpsRepo.GetAllActive returns: the operations joined with their active API.
GetAllActive(a) == {o.version : o \in {p \in ops : p.api = a /\ ~p.deleted /\ IsActive(a)}}

Baseline == INSTANCE ManagedBaseline WITH
                newest   <- [a \in Api |-> apim[a].version],
                baseline <- [a \in Api |-> GetAllActive(a)]

\* Through the join of GetAllActive, the non-atomic MarkDeleted, the purge and
\* the interrupted runs look like whole APIs coming, going and moving forward.
ImplementsBaseline == Baseline!Spec

\* Every API that a run counts as synced is stored with a version at least as
\* new as the one APIM had when the run began.
SyncedIsFresh ==
    pc = "advance" => \A a \in synced : apis[a].version >= began[a]

\* What leaves the PUBLISHED state for good leaves the baseline for good, as
\* long as some other API remains (with none, deletion is suspended).
UnpublishedLeaves ==
    \A a \in Api :
        <>[](~apim[a].published /\ PublishedApis \cap Included # {}) => <>[]~IsActive(a)

\* The stored version of an API that stays in the baseline catches up.
UpdatesArrive ==
    \A a \in Included :
        <>[](apim[a].published /\ IsActive(a)) => <>[](apis[a].version = apim[a].version)
=============================================================================
