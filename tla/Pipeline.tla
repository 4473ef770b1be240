------------------------------ MODULE Pipeline ------------------------------
(***************************************************************************)
(* The life of a finding: phases 3 (comparison), 4 (spec generation) and 5 *)
(* (catalog push) of the engine's cycle, over the table of findings and    *)
(* the APIM Service Catalog.  Each SQL statement and each HTTP request is  *)
(* one step, so that the operator, the users of the catalog and a crash    *)
(* can come between any two of them.  Phases 1 and 2 appear only by what   *)
(* they leave behind: operations with traffic, and the managed APIs.       *)
(***************************************************************************)
EXTENDS UnmanagedStore

CONSTANTS
    ManagedViews,   \* contents of the managed tables: a set of [Api -> SUBSET Endpoints]
    OperationId,    \* [Endpoints -> operationId], generateOperationID
    ServiceName,    \* [Keys -> Names], deriveCatalogName for a service key
    DriftName,      \* [Api -> Names], parent API name + "-Drift"
    Names,          \* entry names in the catalog
    NoName,         \* name of an entry that does not exist
    RePushDeleted,  \* service_catalog.re_push_deleted
    PushClasses,    \* classifications that push_shadow / push_drift let through
    FaultKinds,     \* subset of {"upsert", "sql", "http", "crash"}
    EditKinds,      \* subset of {"quiet", "sync", "dismiss", "delete", "foreign"}
    MaxFaults,      \* bound: failures and crashes in a behaviour
    MaxEdits        \* bound: changes made by the environment

ASSUME PipelineAssumption ==
    /\ RePushDeleted \in BOOLEAN
    /\ ManagedViews \subseteq [Api -> SUBSET Endpoints]
    /\ ServiceName \in [Keys -> Names]
    /\ DriftName \in [Api -> Names]
    /\ NoName \notin Names
    /\ MaxFaults \in Nat /\ MaxEdits \in Nat

VARIABLES
    traffic,        \* adc_discovered_apis: never seen, seen lately, or not for stale_after
    managed,        \* the active operations of every managed API
    table,          \* adc_unmanaged_apis
    phase,          \* where the engine goroutine is
    verdict,        \* phase 3: the classifications of this cycle
    pending,        \* phase 3: verdicts still to be upserted
    confirmed,      \* rows with last_confirmed_at >= cycleStart
    todo,           \* phases 4 and 5: groups still to be handled
    cur,            \* phases 4 and 5: the group being handled
    catalog,        \* the Service Catalog: [CatalogId -> Entry]
    removed,        \* entries that users of the catalog have deleted
    faults,         \* failures so far
    edits           \* environment changes so far

phase3  == <<verdict, pending, confirmed>>
work    == <<todo, cur>>
world   == <<traffic, managed, removed, edits>>
vars    == <<traffic, managed, table, phase, verdict, pending, confirmed, todo, cur, catalog,
             removed, faults, edits>>

Traffic == {"none", "live", "quiet"}
Phases  == {"idle", "upsert", "resolve", "stale", "specgen", "fetch", "write",
            "list", "push", "get", "put", "delete", "post", "search", "mark", "skip"}

\* A group with the catalog id and the document its handler works with.
Job   == [group : Group, cid : CatalogId \cup {NoId}, spec : Spec0]
NoJob == [group |-> [key |-> 0, class |-> "SHADOW", mid |-> NoApi], cid |-> NoId, spec |-> NoSpec]
JobOf(g) == [NoJob EXCEPT !.group = g]

\* A catalog entry.
Entry  == [name : Names \cup {NoName}, spec : Spec0]
Absent == [name |-> NoName, spec |-> NoSpec]

Exists(id) == catalog[id].name # NoName
Seen  == {d \in Discovered : traffic[d] # "none"}
Quiet == {d \in Discovered : traffic[d] = "quiet"}

TypeOK ==
    /\ traffic \in [Discovered -> Traffic]
    /\ managed \in ManagedViews
    /\ table \in [Discovered -> Row]
    /\ phase \in Phases
    /\ verdict \in [Discovered -> Verdict]
    /\ pending \subseteq Unmanaged(verdict)
    /\ confirmed \subseteq Discovered
    /\ todo \subseteq Job
    /\ cur \in Job \cup {NoJob}
    /\ (phase \in {"write", "get", "put", "delete", "post", "search", "mark", "skip"}) => cur \in Job
    /\ (phase \in {"get", "put", "delete", "mark"}) => cur.cid # NoId
    /\ catalog \in [CatalogId -> Entry]
    /\ removed \subseteq CatalogId
    /\ faults \in Nat /\ edits \in Nat

NoVerdict == [d \in Discovered |-> [class |-> "ABSENT", mid |-> NoApi]]

Init ==
    /\ traffic = [d \in Discovered |-> "none"]
    /\ managed \in ManagedViews
    /\ table = [d \in Discovered |-> NoRow]
    /\ phase = "idle"
    /\ verdict = NoVerdict /\ pending = {} /\ confirmed = {}
    /\ todo = {} /\ cur = NoJob
    /\ catalog = [id \in CatalogId |-> Absent] /\ removed = {}
    /\ faults = 0 /\ edits = 0

\* A call of the given kind fails.
Fault(kind) ==
    /\ kind \in FaultKinds
    /\ faults < MaxFaults
    /\ faults' = faults + 1

NoFault == UNCHANGED faults

Edit(kind) ==
    /\ kind \in EditKinds
    /\ edits < MaxEdits
    /\ edits' = edits + 1

-----------------------------------------------------------------------------
(***************************************************************************)
(* The environment.                                                        *)
(***************************************************************************)

\* Phase 1 stores an operation: its row appears, or last_seen_at = NOW().
Discover(d) ==
    /\ phase = "idle" /\ traffic[d] # "live"
    /\ traffic' = [traffic EXCEPT ![d] = "live"]
    /\ UNCHANGED <<managed, table, phase, phase3, work, catalog, removed, faults, edits>>

\* stale_after passes without traffic.
GoQuiet(d) ==
    /\ traffic[d] = "live" /\ Edit("quiet")
    /\ traffic' = [traffic EXCEPT ![d] = "quiet"]
    /\ UNCHANGED <<managed, table, phase, phase3, work, catalog, removed, faults>>

\* Phase 2 stores another view of the managed APIs.
SyncManaged ==
    /\ phase = "idle" /\ Edit("sync")
    /\ managed' \in ManagedViews \ {managed}
    /\ UNCHANGED <<traffic, table, phase, phase3, work, catalog, removed, faults>>

\* The operator dismisses a finding, at any moment of the cycle.
Dismiss(d) ==
    /\ table[d].status \notin {"NONE", "DISMISSED"} /\ Edit("dismiss")
    /\ table' = [table EXCEPT ![d].status = "DISMISSED"]
    /\ UNCHANGED <<traffic, managed, phase, phase3, work, catalog, removed, faults>>

\* A user of the catalog deletes an entry, or registers a service by hand.
OperatorDelete(id) ==
    /\ Exists(id) /\ Edit("delete")
    /\ catalog' = [catalog EXCEPT ![id] = Absent]
    /\ removed' = removed \cup {id}
    /\ UNCHANGED <<traffic, managed, table, phase, phase3, work, faults>>

\* UUIDs are never issued twice; an id that nothing refers to is as good as new.
FreeIds == {id \in CatalogId : /\ ~Exists(id) /\ id \notin removed
                               /\ id \notin TrackedCatalogServiceIDs(table)
                               /\ id # cur.cid
                               /\ \A j \in todo : id # j.cid}

NameTaken(name) == \E id \in CatalogId : catalog[id].name = name

ForeignCreate(name) ==
    /\ ~NameTaken(name) /\ FreeIds # {} /\ Edit("foreign")
    /\ catalog' = [catalog EXCEPT ![First(FreeIds)] = [Absent EXCEPT !.name = name]]
    /\ UNCHANGED <<traffic, managed, table, phase, phase3, work, removed, faults>>

\* The process dies and restarts: all that is not in PostgreSQL or in the
\* catalog is lost.
Crash ==
    /\ phase # "idle" /\ Fault("crash")
    /\ phase' = "idle"
    /\ pending' = {} /\ confirmed' = {} /\ verdict' = NoVerdict
    /\ todo' = {} /\ cur' = NoJob
    /\ UNCHANGED <<world, table, catalog>>

-----------------------------------------------------------------------------
(***************************************************************************)
(* Phase 3: comparison.Phase.Run.                                          *)
(***************************************************************************)

\* Steps 7 to 10 read the two tables and classify.  With nothing discovered
\* the phase returns before the lifecycle statements.
BeginComparison ==
    /\ phase = "idle" /\ Seen # {}
    /\ verdict' = Verdicts(Seen, managed)
    /\ pending' = Unmanaged(verdict')
    /\ confirmed' = {}
    /\ phase' = "upsert"
    /\ NoFault /\ UNCHANGED <<world, table, work, catalog>>

\* Phase 2's data is stale, nothing is discovered, or a load query failed:
\* the engine goes on with phase 4.
SkipComparison ==
    /\ phase = "idle"
    /\ phase' = "specgen"
    /\ NoFault /\ UNCHANGED <<world, table, phase3, work, catalog>>

\* Mutant: ON CONFLICT does not touch last_confirmed_at.
UpsertUnconfirmed(d) ==
    /\ phase = "upsert" /\ d \in pending
    /\ pending' = pending \ {d}
    /\ table' = Upsert(table, d, verdict[d])
    /\ confirmed' = IF table[d].status = "NONE" THEN confirmed \cup {d} ELSE confirmed
    /\ phase' = IF pending' = {} THEN "resolve" ELSE "upsert"
    /\ NoFault /\ UNCHANGED <<world, verdict, work, catalog>>

\* Step 11, one finding.  A row that cannot be written is skipped.
UpsertFinding(d) ==
    /\ phase = "upsert" /\ d \in pending
    /\ pending' = pending \ {d}
    /\ \/ /\ table' = Upsert(table, d, verdict[d])
          /\ confirmed' = confirmed \cup {d}
          /\ NoFault
       \/ /\ Fault("upsert") /\ UNCHANGED <<table, confirmed>>
    /\ phase' = IF pending' = {} THEN "resolve" ELSE "upsert"
    /\ UNCHANGED <<world, verdict, work, catalog>>

\* Nothing is unmanaged: the loop of step 11 does not run.
NothingToUpsert ==
    /\ phase = "upsert" /\ pending = {}
    /\ phase' = "resolve"
    /\ NoFault /\ UNCHANGED <<world, table, phase3, work, catalog>>

\* Step 12.  Either statement may fail; the phase goes on.
ResolveFindings ==
    /\ phase = "resolve"
    /\ \/ table' = MarkResolved(table, confirmed) /\ NoFault
       \/ Fault("sql") /\ UNCHANGED table
    /\ phase' = "stale"
    /\ UNCHANGED <<world, phase3, work, catalog>>

ExpireFindings ==
    /\ phase = "stale"
    /\ \/ table' = MarkStale(table, Quiet) /\ NoFault
       \/ Fault("sql") /\ UNCHANGED table
    /\ phase' = "specgen"
    /\ verdict' = NoVerdict /\ confirmed' = {}
    /\ UNCHANGED <<world, pending, work, catalog>>

-----------------------------------------------------------------------------
(***************************************************************************)
(* Phase 4: specgen.Phase.Run.                                             *)
(***************************************************************************)
ListDetectedGroups ==
    /\ phase = "specgen"
    /\ \/ /\ todo' = {JobOf(g) : g \in GetDetectedGroups(table)}
          /\ phase' = "fetch" /\ NoFault
       \/ /\ Fault("sql") /\ phase' = "list" /\ UNCHANGED todo
    /\ UNCHANGED <<world, table, phase3, cur, catalog>>

\* validateOAS: operationIds must be unique in the document.
ValidOps(ops) ==
    \A c, d \in ops : Endpoint[c] # Endpoint[d]
                        => OperationId[Endpoint[c]] # OperationId[Endpoint[d]]

\* Steps 1 to 5: read the group and assemble its document.  A group that has
\* become empty, cannot be read or is not valid is skipped.
FetchGroup(j) ==
    /\ phase = "fetch" /\ j \in todo
    /\ todo' = todo \ {j}
    /\ LET ops == GetGroupOperations(table, j.group)
       IN  \/ /\ ops # {} /\ ValidOps(ops)
              /\ cur' = [j EXCEPT !.spec = [ops |-> ops, parent |-> j.group.mid]]
              /\ phase' = "write" /\ NoFault
           \/ /\ ops = {} \/ ~ValidOps(ops)
              /\ NoFault /\ UNCHANGED <<phase, cur>>
           \/ Fault("sql") /\ UNCHANGED <<phase, cur>>
    /\ UNCHANGED <<world, table, phase3, catalog>>

\* Step 6.
PersistSpec ==
    /\ phase = "write"
    /\ \/ table' = UpdateGroupSpec(table, cur.group, cur.spec) /\ NoFault
       \/ Fault("sql") /\ UNCHANGED table
    /\ phase' = "fetch" /\ cur' = NoJob
    /\ UNCHANGED <<world, phase3, todo, catalog>>

FinishSpecGen ==
    /\ phase = "fetch" /\ todo = {}
    /\ phase' = "list"
    /\ NoFault /\ UNCHANGED <<world, table, phase3, work, catalog>>

-----------------------------------------------------------------------------
(***************************************************************************)
(* Phase 5: catalog.Phase.Run, pushGroup, createEntry, updateEntry and     *)
(* recoverConflict.  A request that fails leaves the group for the next    *)
(* cycle; a request whose response is lost may have had its effect.        *)
(***************************************************************************)
CatalogName(j) ==
    IF j.group.class = "DRIFT" /\ j.spec.parent # NoApi
    THEN DriftName[j.spec.parent] ELSE ServiceName[j.group.key]

Published(j) == [name |-> CatalogName(j), spec |-> j.spec]

NextGroup == phase' = "push" /\ cur' = NoJob

\* Step 0, with the push_shadow / push_drift filter.  A failed query ends the
\* phase with an error.
ListGeneratedGroups ==
    /\ phase = "list"
    /\ LET groups == {g \in GetSpecGeneratedGroups(table) : g.class \in PushClasses}
       IN  \/ /\ \E pick \in [groups -> Discovered] :
                    /\ \A g \in groups : pick[g] \in Representatives(table, g)
                    /\ todo' = {[group |-> g, cid |-> table[pick[g]].cid,
                                 spec |-> table[pick[g]].spec] : g \in groups}
              /\ phase' = "push" /\ NoFault
           \/ /\ Fault("sql") /\ phase' = "idle" /\ UNCHANGED todo
    /\ UNCHANGED <<world, table, phase3, cur, catalog>>

PushGroup(j) ==
    /\ phase = "push" /\ j \in todo
    /\ todo' = todo \ {j} /\ cur' = j
    /\ phase' = IF j.cid = NoId THEN "post" ELSE "get"
    /\ NoFault /\ UNCHANGED <<world, table, phase3, catalog>>

FinishPush ==
    /\ phase = "push" /\ todo = {}
    /\ phase' = "idle"
    /\ NoFault /\ UNCHANGED <<world, table, phase3, work, catalog>>

\* Mutant: an entry that still exists is taken to be up to date.
GetServiceOnly ==
    /\ phase = "get"
    /\ \/ /\ phase' = IF Exists(cur.cid) THEN "mark"
                      ELSE IF RePushDeleted THEN "post" ELSE "skip"
          /\ NoFault
       \/ Fault("http") /\ phase' = "put"
    /\ UNCHANGED <<world, table, phase3, work, catalog>>

\* Mutant: a missing entry has always been deleted by an operator.
GetServiceOrSkip ==
    /\ phase = "get"
    /\ \/ phase' = (IF Exists(cur.cid) THEN "put" ELSE "skip") /\ NoFault
       \/ Fault("http") /\ phase' = "put"
    /\ UNCHANGED <<world, table, phase3, work, catalog>>

\* GET: on an error the code tries the update.
GetService ==
    /\ phase = "get"
    /\ \/ /\ phase' = IF Exists(cur.cid) THEN "put"
                      ELSE IF RePushDeleted THEN "post" ELSE "skip"
          /\ NoFault
       \/ Fault("http") /\ phase' = "put"
    /\ UNCHANGED <<world, table, phase3, work, catalog>>

\* PUT.  The catalog rejects a change of name with HTTP 400, and may reject
\* one of version (the date); a missing entry is a 404.
UpdateService ==
    /\ phase = "put"
    /\ LET same == Exists(cur.cid) /\ catalog[cur.cid].name = CatalogName(cur)
           done == catalog' = [catalog EXCEPT ![cur.cid] = Published(cur)]
       IN  \/ same /\ done /\ phase' = "mark" /\ NoFault /\ UNCHANGED cur
           \/ Exists(cur.cid) /\ phase' = "delete" /\ NoFault /\ UNCHANGED <<cur, catalog>>
           \/ ~Exists(cur.cid) /\ NextGroup /\ NoFault /\ UNCHANGED catalog
           \/ /\ Fault("http") /\ NextGroup
              /\ (same /\ done) \/ UNCHANGED catalog
    /\ UNCHANGED <<world, table, phase3, todo>>

\* Mutant: the entry is re-created without having been deleted.
DeleteServiceOmitted ==
    /\ phase = "delete" /\ phase' = "post"
    /\ NoFault /\ UNCHANGED <<world, table, phase3, work, catalog>>

\* DELETE of the entry that could not be updated.
DeleteService ==
    /\ phase = "delete"
    /\ LET deleted == /\ Exists(cur.cid)
                      /\ catalog' = [catalog EXCEPT ![cur.cid] = Absent]
       IN  \/ deleted /\ phase' = "post" /\ NoFault /\ UNCHANGED cur
           \/ ~Exists(cur.cid) /\ NextGroup /\ NoFault /\ UNCHANGED catalog
           \/ Fault("http") /\ NextGroup /\ (deleted \/ UNCHANGED catalog)
    /\ UNCHANGED <<world, table, phase3, todo>>

\* POST.  A name that is taken is a 409.  DoWithRetry repeats a POST whose
\* response was lost, so ADC may collide with the entry it has just created.
\* An HTTP 500 is treated as a conflict.
CreateService ==
    /\ phase = "post"
    /\ LET id == First(FreeIds)
           created == /\ ~NameTaken(CatalogName(cur)) /\ FreeIds # {}
                      /\ catalog' = [catalog EXCEPT ![id] = Published(cur)]
       IN  \/ created /\ cur' = [cur EXCEPT !.cid = id] /\ phase' = "mark" /\ NoFault
           \/ /\ NameTaken(CatalogName(cur)) /\ phase' = "search"
              /\ NoFault /\ UNCHANGED <<cur, catalog>>
           \/ /\ Fault("http")
              /\ created \/ UNCHANGED catalog
              /\ NextGroup \/ (phase' = "search" /\ UNCHANGED cur)
    /\ UNCHANGED <<world, table, phase3, todo>>

\* recoverConflict: adopt the entry that has the name, whoever owns it.
SearchByName ==
    /\ phase = "search"
    /\ \/ \E id \in CatalogId :
              /\ catalog[id].name = CatalogName(cur)
              /\ cur' = [cur EXCEPT !.cid = id] /\ phase' = "put" /\ NoFault
       \/ ~NameTaken(CatalogName(cur)) /\ NextGroup /\ NoFault
       \/ Fault("http") /\ NextGroup
    /\ UNCHANGED <<world, table, phase3, todo, catalog>>

\* Persist the catalog state; a failure is only logged.
MarkGroupPushed ==
    /\ phase = "mark"
    /\ \/ table' = MarkPushed(table, cur.group, cur.cid) /\ NoFault
       \/ Fault("sql") /\ UNCHANGED table
    /\ NextGroup
    /\ UNCHANGED <<world, phase3, todo, catalog>>

\* "Entry was deleted by operator", and re_push_deleted = false.
MarkGroupSkipped ==
    /\ phase = "skip"
    /\ \/ table' = MarkPushedSkipped(table, cur.group) /\ NoFault
       \/ Fault("sql") /\ UNCHANGED table
    /\ NextGroup
    /\ UNCHANGED <<world, phase3, todo, catalog>>

-----------------------------------------------------------------------------
Environment ==
    \/ \E d \in Discovered : Discover(d) \/ GoQuiet(d) \/ Dismiss(d)
    \/ SyncManaged
    \/ \E id \in CatalogId : OperatorDelete(id)
    \/ \E name \in Names : ForeignCreate(name)

Compare ==
    \/ BeginComparison \/ SkipComparison \/ NothingToUpsert
    \/ \E d \in Discovered : UpsertFinding(d)
    \/ ResolveFindings \/ ExpireFindings

Generate ==
    ListDetectedGroups \/ (\E j \in todo : FetchGroup(j)) \/ PersistSpec \/ FinishSpecGen

Push ==
    \/ ListGeneratedGroups \/ (\E j \in todo : PushGroup(j)) \/ FinishPush
    \/ GetService \/ UpdateService \/ DeleteService \/ CreateService \/ SearchByName
    \/ MarkGroupPushed \/ MarkGroupSkipped

Engine == Compare \/ Generate \/ Push

Next == Environment \/ Engine \/ Crash

Spec == Init /\ [][Next]_vars

(***************************************************************************)
(* The engine goroutine never stops taking steps (the ticker restarts the  *)
(* cycle for ever), phase 2 is fresh again and again so that comparisons   *)
(* keep happening, and an operation with traffic is seen.  Faults, crashes *)
(* and edits need not happen.                                              *)
(***************************************************************************)
Fairness == WF_vars(Engine) /\ SF_vars(BeginComparison)

FairSpec == Spec /\ Fairness

-----------------------------------------------------------------------------
(***************************************************************************)
(* Safety.                                                                 *)
(***************************************************************************)

\* A row whose specification has been generated is listed in the document it
\* carries, and the document names the row's own parent API, however the
\* group changed since (UpdateGroupSpec after GetGroupOperations).
SpecCoversRow ==
    \A d \in WithStatus(table, "SPEC_GENERATED") :
        /\ d \in table[d].spec.ops
        /\ table[d].spec.parent = table[d].mid

\* All the rows of a group that wait to be pushed carry the same document, so
\* it does not matter which one DISTINCT ON picks (unmanaged_repo.go:259).
SpecAgreement ==
    \A c, d \in WithStatus(table, "SPEC_GENERATED") :
        GroupOf(table, c) = GroupOf(table, d) => table[c].spec = table[d].spec

\* Phase 5 works through a snapshot of the groups, taken before its first
\* request.  When a row that was waiting becomes PUSHED after a successful request, the
\* request carried that row's own document, the document lists the row, and
\* the entry, if nobody deleted it since, is that document under ADC's name.
WaitingRowIsPublished ==
    [][\A d \in Discovered :
        /\ phase = "mark"
        /\ table[d].status = "SPEC_GENERATED"
        /\ table'[d].status = "PUSHED"
        => /\ table[d].spec = cur.spec
           /\ d \in cur.spec.ops
           /\ Exists(cur.cid) => catalog[cur.cid] = Published(cur)]_vars

\* The operator's dismissal is undone only by a change of classification or of
\* parent API, never by a cycle that finds the same thing again.
DismissalKept ==
    [][\A d \in Discovered :
        table[d].status = "DISMISSED" /\ table'[d].status # "DISMISSED"
        => table'[d].class # table[d].class \/ table'[d].mid # table[d].mid]_vars

\* A finding is closed for its reason.  It becomes RESOLVED because this
\* comparison found it managed, and becomes STALE because its traffic stopped:
\* after every upsert of the cycle, none that was just found is closed.  Only a
\* failure can close another, and even then none that was written in the cycle.
ClosedForReason ==
    [][\A d \in Discovered : table'[d].status # table[d].status =>
        /\ table'[d].status = "RESOLVED" =>
              d \notin confirmed /\ (verdict[d].class = "MANAGED" \/ faults > 0)
        /\ table'[d].status = "STALE" => traffic[d] = "quiet"]_vars

\* The statuses as FindingLifecycle has them.
LifecycleState(r) ==
    CASE r.status = "NONE" -> "none"
      [] r.status = "DETECTED" -> "detected"
      [] r.status = "SPEC_GENERATED" -> "waiting"
      [] r.status = "PUSHED" -> "published"
      [] r.status = "DISMISSED" -> "dismissed"
      [] OTHER -> "closed"

\* A document counts for a row only while the row waits to be pushed.
WaitingDocument(r) == IF r.status = "SPEC_GENERATED" THEN r.spec ELSE NoSpec

CatalogDocument(id) == IF Exists(id) THEN catalog[id].spec ELSE NoSpec

LinkOf(r) == IF r.status = "NONE" THEN NoId ELSE r.cid

\* A successful POST or PUT whose outcome MarkPushed has still to write.
Answered == IF phase = "mark" THEN [id |-> cur.cid, doc |-> cur.spec]
            ELSE [id |-> NoId, doc |-> NoSpec]

Lifecycle == INSTANCE FindingLifecycle WITH
                 Finding   <- Discovered,
                 Service   <- ServiceKey,
                 Parent    <- Api,
                 NoParent  <- NoApi,
                 Id        <- CatalogId,
                 NoId      <- NoId,
                 Republish <- RePushDeleted,
                 state     <- [d \in Discovered |-> LifecycleState(table[d])],
                 parent    <- [d \in Discovered |-> table[d].mid],
                 document  <- [d \in Discovered |-> WaitingDocument(table[d])],
                 link      <- [d \in Discovered |-> LinkOf(table[d])],
                 entry     <- [id \in CatalogId |-> CatalogDocument(id)],
                 accepted  <- Answered

\* However the phases interleave with the operator, the users of the catalog and
\* crashes, the rows live as FindingLifecycle says: among other things, a whole
\* group is documented at once by a document that lists it, and published by the
\* very entry whose id is recorded in its rows, which has taken that document
\* although it was read long before (specgen.go:62-80, catalog.go:106-215); and a
\* group is given up only when the entry recorded in one of its rows is gone.
ImplementsLifecycle == Lifecycle!Spec

-----------------------------------------------------------------------------
(***************************************************************************)
(* Liveness.                                                               *)
(***************************************************************************)

\* updateEntry, createEntry and recoverConflict call one another, and still
\* every cycle comes to its end.
CyclesComplete == []<>(phase = "idle")

\* An operation that is registered in APIM, and stays so, is eventually no
\* open finding any more.
ManagedIsResolved ==
    \A d \in Discovered :
        <>[](d \in Seen /\ Verdicts(Seen, managed)[d].class = "MANAGED")
            => <>[](~Active(table[d]))

\* MarkPushed reports a row that the document does not list: the group was read
\* before the row joined it, and phase 4 has not described the group since.
TakenAlong(d) ==
    phase = "mark" /\ d \in ActiveInGroup(table, cur.group) /\ d \notin cur.spec.ops

\* An operation that has traffic and is not managed, and stays so, is
\* eventually dismissed, or published in an entry of the catalog that lists it.
\* Two ways of not being in the catalog remain: a user of the catalog has
\* deleted the entry, or the row was taken along without being listed.
UnmanagedIsPublished ==
    \A d \in Discovered :
        <>[](traffic[d] = "live" /\ d \in Unmanaged(Verdicts(Seen, managed)))
            => \/ <>[](\/ table[d].status = "DISMISSED"
                       \/ /\ table[d].status = "PUSHED"
                          /\ table[d].cid # NoId
                          /\ \/ table[d].cid \in removed
                             \/ d \in CatalogDocument(table[d].cid).ops)
               \/ <>TakenAlong(d)
=============================================================================
