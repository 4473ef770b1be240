------------------------- MODULE ManagedSyncProofs -------------------------
(***************************************************************************)
(* Theorems about ManagedSync, for every set of APIs, every page size and  *)
(* any number of changes in APIM and of failures: types, whole versions,   *)
(* freshness, and the implementation of ManagedBaseline.                   *)
(***************************************************************************)
EXTENDS ManagedSync, TLAPS

-----------------------------------------------------------------------------
(***************************************************************************)
(* Types.                                                                  *)
(***************************************************************************)

\* The initial state is well typed.
LEMMA InitTypeOK == Init => TypeOK
BY ManagedSyncAssumption DEF Init, TypeOK, Version, ApiRow, NoRow, NoDetail, OpsRow

\* UpsertAPI writes well-typed tables.
LEMMA UpsertApiType ==
    ASSUME TypeOK, NEW d \in [api : Api, version : Version], UpsertAPI(d)
    PROVE  apis' \in [Api -> ApiRow] /\ ops' \subseteq OpsRow
<1>1. [state |-> "active", version |-> d.version] \in ApiRow
    BY DEF ApiRow
<1>2. OpsOf(d) \in OpsRow
    BY DEF OpsOf, OpsRow
<1>3. apis' \in [Api -> ApiRow]
    BY <1>1 DEF UpsertAPI, TypeOK
<1>4. ops' \subseteq OpsRow
    BY <1>2 DEF UpsertAPI, TypeOK
<1> QED BY <1>3, <1>4

\* A detail that has been fetched is not NoDetail, and is one of an API of the list.
LEMMA CurIsDetail ==
    ASSUME TypeOK, pc = "store"
    PROVE  /\ cur \in [api : Included, version : Version]
           /\ cur.api \in listed /\ cur.api \in Included /\ cur.api \in Api
           /\ cur.version \in Nat
BY ManagedSyncAssumption DEF TypeOK, Version

\* APIM's changes keep the types.
LEMMA EditTypeOK ==
    ASSUME TypeOK, NEW a \in Api, Publish(a) \/ Unpublish(a)
    PROVE  TypeOK'
<1>1. CASE Publish(a)
    BY <1>1 DEF Publish, TypeOK, tables, local, Version
<1>2. CASE Unpublish(a)
    <2>1. [apim[a] EXCEPT !.published = FALSE] \in [published : BOOLEAN, version : Version]
        BY DEF TypeOK
    <2> QED BY <1>2, <2>1 DEF Unpublish, TypeOK, tables, local, Version
<1> QED BY <1>1, <1>2

\* The steps of the phase keep the types.
LEMMA SyncTypeOK == TypeOK /\ Sync => TypeOK'
<1> SUFFICES ASSUME TypeOK, Sync PROVE TypeOK'
    OBVIOUS
<1> USE ManagedSyncAssumption DEF Fault, NoFault
<1>1. CASE BeginSync
    BY <1>1 DEF BeginSync, TypeOK, tables, Version
<1>2. CASE ListPage
    <2>1. offset' \in Nat
        BY <1>2 DEF ListPage, TypeOK
    <2>2. listed' \subseteq Included /\ todo' \subseteq listed' /\ listed \subseteq listed'
        BY <1>2 DEF ListPage, TypeOK
    <2>3. pc' \in {"list", "sync", "idle"} /\ faults' \in Nat
        BY <1>2 DEF ListPage, TypeOK
    <2> QED BY <1>2, <2>1, <2>2, <2>3 DEF ListPage, TypeOK, tables
<1>3. ASSUME NEW a \in todo, FetchDetail(a)
      PROVE  TypeOK'
    <2>1. a \in listed /\ a \in Included /\ a \in Api
        BY DEF TypeOK
    <2>2. apim[a].version \in Version
        BY <2>1 DEF TypeOK
    <2>3. [api |-> a, version |-> apim[a].version] \in [api : Included, version : Version]
        BY <2>1, <2>2
    <2>4. [api |-> a, version |-> apim[a].version] # NoDetail
        BY <2>1, <2>2 DEF NoDetail
    <2>5. CASE cur' = [api |-> a, version |-> apim[a].version] /\ pc' = "store" /\ NoFault
        BY <1>3, <2>1, <2>3, <2>4, <2>5 DEF FetchDetail, TypeOK, tables
    <2>6. CASE UNCHANGED <<cur, pc>> /\ faults' \in Nat
        BY <1>3, <2>1, <2>6 DEF FetchDetail, TypeOK, tables
    <2> QED BY <1>3, <2>5, <2>6 DEF FetchDetail, TypeOK
<1>4. CASE StoreDetail
    <2>1. cur \in [api : Api, version : Version] /\ cur.api \in listed
        BY <1>4, CurIsDetail DEF StoreDetail, TypeOK
    <2>2. apis' \in [Api -> ApiRow] /\ ops' \subseteq OpsRow
        <3>1. CASE UpsertAPI(cur)
            BY <2>1, <3>1, UpsertApiType
        <3>2. CASE UNCHANGED tables
            BY <3>2 DEF tables, TypeOK
        <3> QED BY <1>4, <3>1, <3>2 DEF StoreDetail
    <2>3. synced' \in {synced, synced \cup {cur.api}} /\ faults' \in {faults, faults + 1}
        BY <1>4 DEF StoreDetail
    <2>4. synced' \subseteq listed
        BY <2>1, <2>3 DEF TypeOK
    <2>5. faults' \in Nat
        BY <2>3 DEF TypeOK
    <2> QED BY <1>4, <2>2, <2>4, <2>5 DEF StoreDetail, TypeOK
<1>5. CASE DetectDeletions
    <2>1. toDelete' \subseteq Api
        <3>1. ActiveApis \ listed \subseteq Api
            BY DEF ActiveApis
        <3> QED BY <1>5, <3>1 DEF DetectDeletions, TypeOK
    <2>2. pc' \in {"advance", "deleteApis"} /\ faults' \in Nat
        BY <1>5 DEF DetectDeletions, TypeOK
    <2> QED BY <1>5, <2>1, <2>2 DEF DetectDeletions, TypeOK, tables
<1>6. CASE MarkApisDeleted
    <2>1. apis' \in [Api -> ApiRow]
        BY <1>6 DEF MarkApisDeleted, TypeOK, ApiRow
    <2> QED BY <1>6, <2>1 DEF MarkApisDeleted, TypeOK, local
<1>7. CASE MarkOpsDeleted
    <2>1. \A o \in OpsRow : [o EXCEPT !.deleted = TRUE] \in OpsRow
        BY DEF OpsRow
    <2>2. ops' \subseteq OpsRow
        BY <1>7, <2>1 DEF MarkOpsDeleted, TypeOK
    <2> QED BY <1>7, <2>2 DEF MarkOpsDeleted, TypeOK, local
<1>8. CASE FinishSync
    BY <1>8 DEF FinishSync, TypeOK, tables, local
<1> QED BY <1>1, <1>2, <1>3, <1>4, <1>5, <1>6, <1>7, <1>8 DEF Sync

\* So do a crash and the cleanup.
LEMMA OtherTypeOK ==
    ASSUME TypeOK, Crash \/ PurgeManagedOps \/ (\E a \in Api : PurgeManaged(a)) \/ UNCHANGED vars
    PROVE  TypeOK'
<1>1. CASE Crash
    BY <1>1 DEF Crash, Fault, TypeOK, tables
<1>2. CASE PurgeManagedOps
    BY <1>2 DEF PurgeManagedOps, NoFault, TypeOK, local
<1>3. CASE \E a \in Api : PurgeManaged(a)
    BY <1>3 DEF PurgeManaged, NoFault, TypeOK, local, ApiRow, NoRow, Version
<1>4. CASE UNCHANGED vars
    BY <1>4 DEF vars, TypeOK
<1> QED BY <1>1, <1>2, <1>3, <1>4

\* Hence every step does.
LEMMA NextTypeOK == TypeOK /\ [Next]_vars => TypeOK'
BY EditTypeOK, SyncTypeOK, OtherTypeOK DEF Next

\* The type invariant of phase 2 holds in every reachable state.
THEOREM TypeCorrect == Spec => []TypeOK
BY InitTypeOK, NextTypeOK, PTL DEF Spec

-----------------------------------------------------------------------------
(***************************************************************************)
(* Whole versions.  By the time MarkDeleted comes to the operations, none  *)
(* of the APIs it means is active, so that no active API loses any.        *)
(***************************************************************************)
MarkedAreDeleted == pc = "deleteOps" => \A a \in toDelete : ~IsActive(a)

BaselineInv == TypeOK /\ MarkedAreDeleted /\ BaselineIsOneVersion

\* Both hold as long as no API becomes active, none changes its version, and
\* the operations of the active ones stay.
LEMMA OpsOfActiveStay ==
    ASSUME TypeOK, BaselineIsOneVersion,
           \A a \in Api : IsActive(a)' => IsActive(a) /\ apis'[a] = apis[a],
           \A a \in Api : IsActive(a)' => {o \in ops' : o.api = a} = {o \in ops : o.api = a}
    PROVE  BaselineIsOneVersion'
BY DEF BaselineIsOneVersion, ActiveApis, OpsOf, IsActive

\* UpsertAPI leaves one version of the API.
LEMMA UpsertOneVersion ==
    ASSUME TypeOK, BaselineIsOneVersion, NEW d \in [api : Api, version : Version], UpsertAPI(d)
    PROVE  BaselineIsOneVersion'
<1> SUFFICES ASSUME NEW a \in Api, IsActive(a)'
             PROVE  {o \in ops' : o.api = a} = {OpsOf([api |-> a, version |-> apis'[a].version])}
    BY DEF BaselineIsOneVersion, ActiveApis, OpsOf
<1>1. CASE a = d.api
    <2>1. apis'[a].version = d.version
        BY <1>1 DEF UpsertAPI, TypeOK
    <2>2. OpsOf([api |-> a, version |-> apis'[a].version]) = OpsOf(d) /\ OpsOf(d).api = a
        BY <1>1, <2>1 DEF OpsOf
    <2> QED BY <1>1, <2>2 DEF UpsertAPI
<1>2. CASE a # d.api
    <2>1. apis'[a] = apis[a] /\ IsActive(a)
        BY <1>2 DEF UpsertAPI, TypeOK, IsActive
    <2>2. {o \in ops' : o.api = a} = {o \in ops : o.api = a}
        BY <1>2 DEF UpsertAPI, OpsOf
    <2> QED BY <2>1, <2>2 DEF BaselineIsOneVersion, ActiveApis
<1> QED BY <1>1, <1>2

\* Every step keeps whole versions.
LEMMA NextBaselineInv == BaselineInv /\ [Next]_vars => BaselineInv'
<1> SUFFICES ASSUME TypeOK, MarkedAreDeleted, BaselineIsOneVersion, [Next]_vars
             PROVE  MarkedAreDeleted' /\ BaselineIsOneVersion'
    BY NextTypeOK DEF BaselineInv
<1>1. ASSUME UNCHANGED tables, pc' # "deleteOps" \/ UNCHANGED <<pc, toDelete>>
      PROVE  MarkedAreDeleted' /\ BaselineIsOneVersion'
    <2>1. BaselineIsOneVersion'
        BY <1>1, OpsOfActiveStay DEF tables, IsActive
    <2> QED BY <1>1, <2>1 DEF tables, MarkedAreDeleted, IsActive
<1>2. CASE StoreDetail
    <2>1. cur \in [api : Api, version : Version]
        BY <1>2, CurIsDetail DEF StoreDetail, Version
    <2>2. pc' = "sync"
        BY <1>2 DEF StoreDetail
    <2>3. CASE UpsertAPI(cur)
        BY <2>1, <2>2, <2>3, UpsertOneVersion DEF MarkedAreDeleted
    <2>4. CASE UNCHANGED tables
        BY <1>1, <2>2, <2>4
    <2> QED BY <1>2, <2>3, <2>4 DEF StoreDetail
<1>3. CASE MarkApisDeleted
    <2>1. CASE pc' = "advance" /\ UNCHANGED apis
        BY <1>1, <1>3, <2>1 DEF MarkApisDeleted, tables
    <2>2. CASE /\ pc' = "deleteOps"
               /\ apis' = [a \in Api |-> IF a \in toDelete /\ IsActive(a)
                                         THEN [apis[a] EXCEPT !.state = "deleted"] ELSE apis[a]]
        <3>1. \A a \in toDelete : ~IsActive(a)'
            BY <2>2 DEF IsActive, TypeOK, ApiRow
        <3>2. \A a \in Api : IsActive(a)' => IsActive(a) /\ apis'[a] = apis[a]
            BY <2>2 DEF IsActive, TypeOK, ApiRow
        <3>3. UNCHANGED <<ops, toDelete>>
            BY <1>3 DEF MarkApisDeleted, local
        <3> QED BY <3>1, <3>2, <3>3, OpsOfActiveStay DEF MarkedAreDeleted
    <2> QED BY <1>3, <2>1, <2>2 DEF MarkApisDeleted
<1>4. CASE MarkOpsDeleted
    <2>1. pc' = "advance" /\ UNCHANGED apis /\ pc = "deleteOps"
        BY <1>4 DEF MarkOpsDeleted
    <2>2. ASSUME NEW a \in Api, IsActive(a)
          PROVE  {o \in ops' : o.api = a} = {o \in ops : o.api = a}
        <3>1. a \notin toDelete
            BY <2>1, <2>2 DEF MarkedAreDeleted
        <3>2. CASE UNCHANGED ops
            BY <3>2
        <3>3. CASE ops' = {IF o.api \in toDelete THEN [o EXCEPT !.deleted = TRUE] ELSE o : o \in ops}
            <4>1. \A o \in OpsRow : [o EXCEPT !.deleted = TRUE].api = o.api
                BY DEF OpsRow
            <4>2. ops \subseteq OpsRow
                BY DEF TypeOK
            <4> QED BY <3>1, <3>3, <4>1, <4>2
        <3> QED BY <1>4, <3>2, <3>3 DEF MarkOpsDeleted
    <2>3. \A a \in Api : IsActive(a)' => IsActive(a) /\ apis'[a] = apis[a]
        BY <2>1 DEF IsActive
    <2> QED BY <2>1, <2>2, <2>3, OpsOfActiveStay DEF MarkedAreDeleted
<1>5. CASE PurgeManagedOps
    <2>1. pc' = "idle" /\ UNCHANGED apis
        BY <1>5 DEF PurgeManagedOps
    <2>2. ASSUME NEW a \in Api, IsActive(a)
          PROVE  {o \in ops' : o.api = a} = {o \in ops : o.api = a}
        <3>1. \A o \in ops : o.api = a => ~o.deleted
            BY <2>2 DEF BaselineIsOneVersion, ActiveApis, OpsOf
        <3> QED BY <1>5, <3>1 DEF PurgeManagedOps
    <2>3. \A a \in Api : IsActive(a)' => IsActive(a) /\ apis'[a] = apis[a]
        BY <2>1 DEF IsActive
    <2> QED BY <2>1, <2>2, <2>3, OpsOfActiveStay DEF MarkedAreDeleted
<1>6. ASSUME NEW a \in Api, PurgeManaged(a)
      PROVE  MarkedAreDeleted' /\ BaselineIsOneVersion'
    <2>1. \A b \in Api : IsActive(b)' => IsActive(b) /\ apis'[b] = apis[b]
        BY <1>6 DEF PurgeManaged, IsActive, TypeOK, NoRow
    <2>2. pc' = "idle" /\ UNCHANGED ops
        BY <1>6 DEF PurgeManaged
    <2> QED BY <2>1, <2>2, OpsOfActiveStay DEF MarkedAreDeleted
<1>7. CASE BeginSync \/ ListPage \/ (\E a \in todo : FetchDetail(a)) \/ DetectDeletions \/ FinishSync
    <2>1. UNCHANGED tables
        BY <1>7 DEF BeginSync, ListPage, FetchDetail, DetectDeletions, FinishSync
    <2>2. pc' # "deleteOps"
        BY <1>7 DEF BeginSync, ListPage, FetchDetail, DetectDeletions, FinishSync
    <2> QED BY <1>1, <2>1, <2>2
<1>8. CASE Crash \/ (\E a \in Api : Publish(a) \/ Unpublish(a)) \/ UNCHANGED vars
    <2>1. UNCHANGED tables /\ (pc' # "deleteOps" \/ UNCHANGED <<pc, toDelete>>)
        BY <1>8 DEF Crash, Publish, Unpublish, vars, tables, local
    <2> QED BY <1>1, <2>1
<1> QED BY <1>2, <1>3, <1>4, <1>5, <1>6, <1>7, <1>8 DEF Next, Sync

\* An empty baseline satisfies the invariant.
LEMMA InitBaselineInv == Init => BaselineInv
BY InitTypeOK DEF Init, BaselineInv, MarkedAreDeleted, BaselineIsOneVersion, ActiveApis, IsActive, NoRow

\* The invariant holds in every reachable state.
LEMMA BaselineInvHolds == Spec => []BaselineInv
BY InitBaselineInv, NextBaselineInv, PTL DEF Spec

\* Phase 3 sees the operations of exactly the recorded version of an active API.
THEOREM BaselineCorrect == Spec => []BaselineIsOneVersion
<1>1. BaselineInv => BaselineIsOneVersion
    BY DEF BaselineInv
<1> QED BY <1>1, BaselineInvHolds, PTL

-----------------------------------------------------------------------------
(***************************************************************************)
(* Versions.  A detail is fetched after the run began and before it is     *)
(* stored, and APIM's versions only grow: what the tables have is never    *)
(* newer than what is about to be stored, nor that newer than APIM.        *)
(***************************************************************************)
ReadInOrder ==
    pc = "store" =>
        /\ began[cur.api] <= cur.version /\ cur.version <= apim[cur.api].version
        /\ apis[cur.api].version <= cur.version

VersionsInOrder ==
    /\ \A a \in Api : began[a] <= apim[a].version /\ apis[a].version <= apim[a].version
    /\ pc # "idle" => \A a \in synced : began[a] <= apis[a].version
    /\ ReadInOrder

VersionInv == TypeOK /\ VersionsInOrder

\* At first every version is 0.
LEMMA InitVersionInv == Init => VersionInv
BY InitTypeOK DEF Init, VersionInv, VersionsInOrder, ReadInOrder, NoRow

\* What is stored is what was fetched: newer than the run, not newer than APIM.
LEMMA StoreVersions == TypeOK /\ VersionsInOrder /\ StoreDetail => VersionsInOrder'
<1> SUFFICES ASSUME TypeOK, VersionsInOrder, StoreDetail PROVE VersionsInOrder'
    OBVIOUS
<1>1. /\ cur.api \in Api /\ cur.version \in Nat /\ cur.api \in listed
      /\ began[cur.api] <= cur.version /\ cur.version <= apim[cur.api].version
    BY CurIsDetail DEF StoreDetail, VersionsInOrder, ReadInOrder
<1>2. pc = "store" /\ pc' = "sync" /\ UNCHANGED <<apim, began>>
    BY DEF StoreDetail
<1>3. synced \subseteq Api /\ began \in [Api -> Nat]
    BY ManagedSyncAssumption DEF TypeOK, Version
<1>4. \A a \in Api : apis[a].version \in Nat /\ apim[a].version \in Nat
    BY DEF TypeOK, Version, ApiRow
<1>5. CASE UpsertAPI(cur)
    <2>1. apis'[cur.api].version = cur.version
        BY <1>1, <1>5 DEF UpsertAPI, TypeOK
    <2>2. \A a \in Api : a # cur.api => apis'[a] = apis[a]
        BY <1>5 DEF UpsertAPI, TypeOK
    <2>3. synced' \in {synced, synced \cup {cur.api}}
        BY DEF StoreDetail
    <2> QED BY <1>1, <1>2, <1>3, <2>1, <2>2, <2>3 DEF VersionsInOrder, ReadInOrder
<1>6. CASE Unchanged(cur) /\ synced' = synced \cup {cur.api} /\ UNCHANGED tables
    <2>1. apis'[cur.api].version = cur.version
        BY <1>6 DEF Unchanged, tables
    <2> QED BY <1>1, <1>2, <1>3, <1>6, <2>1 DEF VersionsInOrder, ReadInOrder, tables
<1>7. CASE UNCHANGED <<tables, synced>>
    BY <1>2, <1>7 DEF VersionsInOrder, ReadInOrder, tables
<1> QED BY <1>5, <1>6, <1>7 DEF StoreDetail

\* Every step keeps the order of versions.
LEMMA NextVersionInv == VersionInv /\ [Next]_vars => VersionInv'
<1> SUFFICES ASSUME TypeOK, VersionsInOrder, [Next]_vars PROVE VersionsInOrder'
    BY NextTypeOK DEF VersionInv
<1>1. \A a \in Api : apis[a].version \in Nat /\ apim[a].version \in Nat /\ began[a] \in Nat
    BY DEF TypeOK, Version, ApiRow
<1>2. synced \subseteq Api
    BY ManagedSyncAssumption DEF TypeOK
<1>3. ASSUME UNCHANGED <<apim, began>>, pc # "idle" \/ pc' = "idle" \/ synced' = {},
             \A a \in Api : apis'[a].version = apis[a].version \/ (apis'[a].version = 0 /\ pc' = "idle"),
             pc' # "store" \/ UNCHANGED <<pc, cur>>, synced' = synced \/ synced' = {}
      PROVE  VersionsInOrder'
    <2>1. \A a \in Api : began'[a] <= apim'[a].version /\ apis'[a].version <= apim'[a].version
        BY <1>1, <1>3 DEF VersionsInOrder
    <2>2. pc' # "idle" => \A a \in synced' : began'[a] <= apis'[a].version
        BY <1>1, <1>2, <1>3 DEF VersionsInOrder
    <2>3. ReadInOrder'
        BY <1>3, CurIsDetail DEF VersionsInOrder, ReadInOrder
    <2> QED BY <2>1, <2>2, <2>3 DEF VersionsInOrder
<1>4. ASSUME NEW a \in Api, Publish(a) \/ Unpublish(a)
      PROVE  VersionsInOrder'
    <2>1. \A b \in Api : apim[b].version <= apim'[b].version
        BY <1>1, <1>4 DEF Publish, Unpublish, TypeOK
    <2>2. UNCHANGED <<apis, pc, cur, synced, began>>
        BY <1>4 DEF Publish, Unpublish, tables, local
    <2>3. \A b \in Api : apim'[b].version \in Nat
        BY <1>4, EditTypeOK DEF TypeOK, Version
    <2>4. ReadInOrder'
        BY <1>1, <2>1, <2>2, <2>3, CurIsDetail DEF VersionsInOrder, ReadInOrder
    <2>5. \A b \in Api : began'[b] <= apim'[b].version /\ apis'[b].version <= apim'[b].version
        BY <1>1, <2>1, <2>2, <2>3 DEF VersionsInOrder
    <2> QED BY <2>2, <2>4, <2>5 DEF VersionsInOrder
<1>5. CASE BeginSync
    <2>1. /\ UNCHANGED <<apim, apis>> /\ synced' = {} /\ pc' = "list"
          /\ \A a \in Api : began'[a] = apim[a].version
        BY <1>5 DEF BeginSync, tables
    <2> QED BY <1>1, <2>1 DEF VersionsInOrder, ReadInOrder
<1>6. CASE StoreDetail
    BY <1>6, StoreVersions
<1>7. ASSUME NEW a \in todo, FetchDetail(a)
      PROVE  VersionsInOrder'
    <2>1. CASE cur' = [api |-> a, version |-> apim[a].version]
        <3>1. a \in Api
            BY ManagedSyncAssumption DEF TypeOK
        <3> QED BY <1>1, <1>7, <2>1, <3>1 DEF FetchDetail, VersionsInOrder, ReadInOrder, tables
    <2>2. CASE UNCHANGED <<cur, pc>>
        BY <1>3, <1>7, <2>2 DEF FetchDetail, tables
    <2> QED BY <1>7, <2>1, <2>2 DEF FetchDetail
<1>8. CASE ListPage \/ DetectDeletions \/ MarkOpsDeleted \/ FinishSync \/ Crash \/ PurgeManagedOps \/ UNCHANGED vars
    <2>1. UNCHANGED <<apim, apis, began, synced>>
        BY <1>8 DEF ListPage, DetectDeletions, MarkOpsDeleted, FinishSync, Crash, PurgeManagedOps, vars, tables, local
    <2>2. pc # "idle" \/ pc' = "idle"
        BY <1>8 DEF ListPage, DetectDeletions, MarkOpsDeleted, FinishSync, Crash, PurgeManagedOps, vars
    <2>3. pc' # "store" \/ UNCHANGED <<pc, cur>>
        BY <1>8 DEF ListPage, DetectDeletions, MarkOpsDeleted, FinishSync, Crash, PurgeManagedOps, vars
    <2> QED BY <1>3, <2>1, <2>2, <2>3
<1>9. CASE MarkApisDeleted
    <2>1. \A a \in Api : apis'[a].version = apis[a].version
        BY <1>9 DEF MarkApisDeleted, TypeOK, ApiRow
    <2>2. UNCHANGED <<apim, began, synced>> /\ pc # "idle" /\ pc' # "store"
        BY <1>9 DEF MarkApisDeleted, local
    <2> QED BY <1>3, <2>1, <2>2
<1>10. ASSUME NEW a \in Api, PurgeManaged(a)
       PROVE  VersionsInOrder'
    <2>1. \A b \in Api : apis'[b].version = apis[b].version \/ apis'[b].version = 0
        BY <1>10 DEF PurgeManaged, TypeOK, NoRow
    <2>2. UNCHANGED <<apim, began, synced, pc>> /\ pc = "idle"
        BY <1>10 DEF PurgeManaged, local
    <2> QED BY <1>3, <2>1, <2>2
<1> QED BY <1>4, <1>5, <1>6, <1>7, <1>8, <1>9, <1>10 DEF Next, Sync

\* The order of versions holds in every reachable state.
LEMMA VersionInvHolds == Spec => []VersionInv
BY InitVersionInv, NextVersionInv, PTL DEF Spec

\* What a run counts as synced is at least as new as what APIM had when it began.
THEOREM FreshnessCorrect == Spec => []SyncedIsFresh
<1>1. VersionInv => SyncedIsFresh
    <2> SUFFICES ASSUME TypeOK, VersionsInOrder, pc = "advance", NEW a \in synced
                 PROVE  apis[a].version >= began[a]
        BY DEF VersionInv, SyncedIsFresh
    <2>1. a \in Api
        BY ManagedSyncAssumption DEF TypeOK
    <2>2. apis[a].version \in Nat /\ began[a] \in Nat /\ began[a] <= apis[a].version
        BY <2>1 DEF TypeOK, Version, ApiRow, VersionsInOrder
    <2> QED BY <2>2
<1> QED BY <1>1, VersionInvHolds, PTL

-----------------------------------------------------------------------------
(***************************************************************************)
(* ManagedBaseline.  By BaselineIsOneVersion the baseline is a function of *)
(* adc_managed_apis alone: a step is Learn when it upserts an API, Forget  *)
(* when it soft-deletes some, Change when APIM changes, and else a stutter *)
(* of the abstract specification.                                          *)
(***************************************************************************)
Seen(a) == IF IsActive(a) THEN {apis[a].version} ELSE {}

\* GetAllActive returns the recorded version of an active API.
LEMMA SeenIsVisible == BaselineInv => \A a \in Api : GetAllActive(a) = Seen(a)
<1> SUFFICES ASSUME BaselineInv, NEW a \in Api PROVE GetAllActive(a) = Seen(a)
    OBVIOUS
<1>1. CASE IsActive(a)
    <2> DEFINE o == [api |-> a, version |-> apis[a].version, deleted |-> FALSE]
    <2>1. {p \in ops : p.api = a} = {o}
        BY <1>1 DEF BaselineInv, BaselineIsOneVersion, ActiveApis, OpsOf
    <2>2. o.deleted = FALSE /\ o.version = apis[a].version
        OBVIOUS
    <2>3. {p \in ops : p.api = a /\ ~p.deleted /\ IsActive(a)} = {o}
        BY <1>1, <2>1, <2>2
    <2> QED BY <1>1, <2>2, <2>3 DEF GetAllActive, Seen
<1>2. CASE ~IsActive(a)
    BY <1>2 DEF GetAllActive, Seen
<1> QED BY <1>1, <1>2

\* The refinement mapping, as in Baseline.
newestBar   == [a \in Api |-> apim[a].version]
baselineBar == [a \in Api |-> GetAllActive(a)]

\* The tables are empty at first, and so is the baseline.
LEMMA InitImplements == Init => Baseline!Init
BY DEF Init, Baseline!Init, GetAllActive

\* The baseline is what is seen in the table of APIs.
LEMMA BaselineIsSeen == BaselineInv => baselineBar = [a \in Api |-> Seen(a)]
BY SeenIsVisible DEF baselineBar

\* Likewise in the second state.
LEMMA BaselineIsSeenNext == BaselineInv' => baselineBar' = [a \in Api |-> Seen(a)']
<1>1. (BaselineInv => baselineBar = [a \in Api |-> Seen(a)])'
    BY BaselineIsSeen, PTL
<1> QED BY <1>1

\* Every step is one of ManagedBaseline or a stutter.
LEMMA StepImplements ==
    ASSUME BaselineInv, BaselineInv', VersionInv, [Next]_vars
    PROVE  [Baseline!Next]_<<newestBar, baselineBar>>
<1>1. baselineBar = [a \in Api |-> Seen(a)] /\ baselineBar' = [a \in Api |-> Seen(a)']
    BY BaselineIsSeen, BaselineIsSeenNext
<1>2. newestBar = [a \in Api |-> apim[a].version] /\ newestBar' = [a \in Api |-> apim'[a].version]
    BY DEF newestBar
<1>3. TypeOK /\ VersionsInOrder
    BY DEF VersionInv
<1>4. CASE UNCHANGED <<apim, apis>>
    BY <1>1, <1>2, <1>4 DEF Seen, IsActive
<1>5. ASSUME NEW a \in Api, Publish(a)
      PROVE  Baseline!Change(a)
    <2>1. newestBar' = [newestBar EXCEPT ![a] = @ + 1]
        BY <1>2, <1>3, <1>5 DEF Publish, TypeOK
    <2>2. baselineBar' = baselineBar
        BY <1>1, <1>5 DEF Publish, tables, Seen, IsActive
    <2> QED BY <2>1, <2>2 DEF Baseline!Change, newestBar, baselineBar
<1>6. ASSUME NEW a \in Api, Unpublish(a)
      PROVE  UNCHANGED <<newestBar, baselineBar>>
    <2>1. newestBar' = newestBar
        BY <1>2, <1>3, <1>6 DEF Unpublish, TypeOK
    <2>2. baselineBar' = baselineBar
        BY <1>1, <1>6 DEF Unpublish, tables, Seen, IsActive
    <2> QED BY <2>1, <2>2
<1>7. ASSUME StoreDetail, UpsertAPI(cur)
      PROVE  Baseline!Learn(cur.api)
    <2>1. /\ cur.api \in Api /\ cur.version \in Nat
          /\ cur.version <= apim[cur.api].version /\ apis[cur.api].version <= cur.version
        BY <1>3, <1>7, CurIsDetail DEF StoreDetail, VersionsInOrder, ReadInOrder
    <2>2. apim[cur.api].version \in Nat
        BY <1>3, <2>1 DEF TypeOK, Version
    <2>3. cur.version \in 0 .. newestBar[cur.api]
        BY <1>2, <2>1, <2>2
    <2>4. \A w \in baselineBar[cur.api] : w <= cur.version
        BY <1>1, <2>1 DEF Seen
    <2>5. \A a \in Api : Seen(a)' = IF a = cur.api THEN {cur.version} ELSE Seen(a)
        BY <1>3, <1>7, <2>1 DEF UpsertAPI, Seen, IsActive, TypeOK
    <2>6. baselineBar' = [baselineBar EXCEPT ![cur.api] = {cur.version}]
        BY <1>1, <2>5
    <2>7. newestBar' = newestBar
        BY <1>2, <1>7 DEF StoreDetail
    <2> QED BY <2>3, <2>4, <2>6, <2>7 DEF Baseline!Learn, newestBar, baselineBar
<1>8. ASSUME MarkApisDeleted, ~(UNCHANGED apis)
      PROVE  Baseline!Forget(toDelete)
    <2>1. apis' = [a \in Api |-> IF a \in toDelete /\ IsActive(a)
                                 THEN [apis[a] EXCEPT !.state = "deleted"] ELSE apis[a]]
        BY <1>8 DEF MarkApisDeleted
    <2>2. \A a \in Api : Seen(a)' = IF a \in toDelete THEN {} ELSE Seen(a)
        BY <1>3, <2>1 DEF Seen, IsActive, TypeOK, ApiRow
    <2>3. baselineBar' = [a \in Api |-> IF a \in toDelete THEN {} ELSE baselineBar[a]]
        BY <1>1, <2>2
    <2>4. newestBar' = newestBar
        BY <1>2, <1>8 DEF MarkApisDeleted
    <2> QED BY <2>3, <2>4 DEF Baseline!Forget, newestBar, baselineBar
<1>9. ASSUME NEW a \in Api, PurgeManaged(a)
      PROVE  UNCHANGED <<newestBar, baselineBar>>
    <2>1. \A b \in Api : Seen(b)' = Seen(b)
        BY <1>3, <1>9 DEF PurgeManaged, Seen, IsActive, TypeOK, NoRow
    <2> QED BY <1>1, <1>2, <1>9, <2>1 DEF PurgeManaged
<1>10. CASE \/ BeginSync \/ ListPage \/ (\E a \in todo : FetchDetail(a)) \/ (StoreDetail /\ UNCHANGED tables)
            \/ DetectDeletions \/ (MarkApisDeleted /\ UNCHANGED apis) \/ MarkOpsDeleted \/ FinishSync
            \/ Crash \/ PurgeManagedOps \/ UNCHANGED vars
    <2>1. UNCHANGED <<apim, apis>>
        BY <1>10 DEF BeginSync, ListPage, FetchDetail, StoreDetail, DetectDeletions, MarkApisDeleted,
                     MarkOpsDeleted, FinishSync, Crash, PurgeManagedOps, vars, tables
    <2> QED BY <1>4, <2>1
<1>11. ASSUME StoreDetail
       PROVE  UpsertAPI(cur) \/ UNCHANGED tables
    BY <1>11 DEF StoreDetail
<1>12. StoreDetail /\ UpsertAPI(cur) => cur.api \in Api
    BY <1>3, CurIsDetail DEF StoreDetail
<1>13. toDelete \in SUBSET Api
    BY <1>3 DEF TypeOK
<1> QED
    BY <1>5, <1>6, <1>7, <1>8, <1>9, <1>10, <1>11, <1>12, <1>13 DEF Next, Sync, Baseline!Next

\* Phase 2 implements the whole APIs of ManagedBaseline: the half-done
\* deletions, the purge and the interrupted runs cannot be told from it.
THEOREM BaselineImplemented == Spec => ImplementsBaseline
<1>1. BaselineInv /\ BaselineInv' /\ VersionInv /\ [Next]_vars => [Baseline!Next]_<<newestBar, baselineBar>>
    BY StepImplements
<1> QED
    BY <1>1, InitImplements, BaselineInvHolds, VersionInvHolds, PTL
    DEF Spec, ImplementsBaseline, Baseline!Spec, newestBar, baselineBar
=============================================================================
