--------------------------- MODULE Reconciliation ---------------------------
(***************************************************************************)
(* Several ADC instances, each with a database of its own, share one       *)
(* Service Catalog with its other users: catalog/reconcile.go deletes what *)
(* nobody owns while the push of catalog/catalog.go creates, adopts and    *)
(* replaces entries.  In an instance the two run one after the other in    *)
(* the engine goroutine; those of different instances interleave at every  *)
(* request.  The documents and the rows of a group are left to Pipeline.   *)
(***************************************************************************)
EXTENDS Integers, FiniteSets

CONSTANTS
    Adc,            \* the instances, each with the hostname that is its marker
    Finding,        \* groups of unmanaged operations: what is published as one entry
    Home,           \* [Finding -> Adc]
    Names,          \* catalog names
    CatalogId,      \* ids of entries, in the order in which the catalog lists them
    NoName, NoId, NoOwner,
    PageSize,       \* entries per page of the listing
    CleanupUnowned, \* service_catalog.reconciliation.cleanup_unowned
    RePushDeleted,  \* [Adc -> service_catalog.re_push_deleted]
    MaxFaults,      \* bound: failures and crashes
    MaxEdits        \* bound: changes made by users, traffic and retention

ASSUME ReconciliationAssumption ==
    /\ Home \in [Finding -> Adc]
    /\ CatalogId \subseteq Nat
    /\ NoName \notin Names /\ NoId \notin CatalogId /\ NoOwner \notin Adc
    /\ PageSize \in Nat \ {0}
    /\ CleanupUnowned \in BOOLEAN /\ RePushDeleted \in [Adc -> BOOLEAN]
    /\ MaxFaults \in Nat /\ MaxEdits \in Nat

VARIABLES
    row,        \* [Finding -> its row in the database of its home]
    catalog,    \* [CatalogId -> Entry]
    creator,    \* history: the ADC that created an entry nobody has edited since
    pc,         \* [Adc -> where its engine goroutine is]
    todo,       \* [Adc -> findings still to be pushed in this cycle]
    cur,        \* [Adc -> the finding being pushed and the entry id in use]
    tracked,    \* [Adc -> trackedIDs of its reconciliation]
    offset,     \* [Adc -> offset of the next page]
    doomed,     \* [Adc -> listed entries that are to be deleted]
    faults, edits

pushing     == <<row, todo, cur>>
reconciling == <<tracked, offset, doomed>>
vars        == <<row, catalog, creator, pc, todo, cur, tracked, offset, doomed, faults, edits>>

Owner  == Adc \cup {NoOwner}
Entry  == [name : Names \cup {NoName}, owner : Owner]
Absent == [name |-> NoName, owner |-> NoOwner]

\* waiting: the status is SPEC_GENERATED.
Row   == [name : Names, waiting : BOOLEAN, cid : CatalogId \cup {NoId}]
NoJob == [finding |-> NoId, cid |-> NoId]
Job   == [finding : Finding, cid : CatalogId \cup {NoId}]

Pushing     == {"get", "put", "delete", "post", "search", "mark", "skip"}
Reconciling == {"list", "clean"}

Existing   == {id \in CatalogId : catalog[id].name # NoName}
OwnIds(a)  == {row[f].cid : f \in {g \in Finding : Home[g] = a}} \ {NoId}

TypeOK ==
    /\ row \in [Finding -> Row]
    /\ catalog \in [CatalogId -> Entry]
    /\ creator \in [CatalogId -> Owner]
    /\ pc \in [Adc -> {"idle", "push"} \cup Pushing \cup Reconciling]
    /\ todo \in [Adc -> SUBSET Finding]
    /\ \A a \in Adc : \A f \in todo[a] : Home[f] = a
    /\ cur \in [Adc -> Job \cup {NoJob}]
    /\ \A a \in Adc : pc[a] \in Pushing => cur[a] \in Job /\ Home[cur[a].finding] = a
    /\ \A a \in Adc : pc[a] \in {"get", "put", "delete", "mark"} => cur[a].cid # NoId
    /\ tracked \in [Adc -> SUBSET CatalogId]
    /\ offset \in [Adc -> Nat]
    /\ doomed \in [Adc -> SUBSET CatalogId]
    /\ faults \in Nat /\ edits \in Nat

\* The instances start with a finding to push and a catalog that others may use.
Init ==
    /\ row \in [Finding -> [name : Names, waiting : {TRUE}, cid : {NoId}]]
    /\ catalog = [id \in CatalogId |-> Absent]
    /\ creator = [id \in CatalogId |-> NoOwner]
    /\ pc = [a \in Adc |-> "idle"]
    /\ todo = [a \in Adc |-> {}] /\ cur = [a \in Adc |-> NoJob]
    /\ tracked = [a \in Adc |-> {}]
    /\ offset = [a \in Adc |-> 0]
    /\ doomed = [a \in Adc |-> {}]
    /\ faults = 0 /\ edits = 0

Fault   == faults < MaxFaults /\ faults' = faults + 1
NoFault == UNCHANGED faults
Edit    == edits < MaxEdits /\ edits' = edits + 1

\* What a request does to the catalog.
Write(id, entry, by) ==
    /\ catalog' = [catalog EXCEPT ![id] = entry]
    /\ creator' = [creator EXCEPT ![id] = by]
Untouched == UNCHANGED <<catalog, creator>>

\* UUIDs are never issued twice; an id that nothing refers to is as good as new.
FreeIds ==
    {id \in CatalogId \ Existing :
        \A a \in Adc : id \notin OwnIds(a) \cup {cur[a].cid} \cup tracked[a] \cup doomed[a]}
NewId == CHOOSE id \in FreeIds : \A other \in FreeIds : id <= other

NameTaken(name) == \E id \in CatalogId : catalog[id].name = name

-----------------------------------------------------------------------------
(***************************************************************************)
(* The users of the catalog, and the other phases of an instance.          *)
(***************************************************************************)
UserCreate(name) ==
    /\ ~NameTaken(name) /\ FreeIds # {} /\ Edit
    /\ Write(NewId, [name |-> name, owner |-> NoOwner], NoOwner)
    /\ UNCHANGED <<pushing, reconciling, pc, faults>>

UserDelete(id) ==
    /\ id \in Existing /\ Edit
    /\ Write(id, Absent, NoOwner)
    /\ UNCHANGED <<pushing, reconciling, pc, faults>>

\* A user rewrites the description, and with it the marker.
UserEdit(id) ==
    /\ id \in Existing /\ Edit
    /\ Write(id, [catalog[id] EXCEPT !.owner = NoOwner], NoOwner)
    /\ UNCHANGED <<pushing, reconciling, pc, faults>>

\* Phases 3 and 4: the group changes, perhaps its classification and with it
\* the name of the entry, and waits again.
Regenerate(f) ==
    /\ pc[Home[f]] = "idle" /\ Edit
    /\ \E name \in Names : row' = [row EXCEPT ![f].waiting = TRUE, ![f].name = name]
    /\ UNCHANGED <<catalog, creator, pc, todo, cur, reconciling, faults>>

\* The rows are closed and purged by the retention: the entry loses its row.
Forget(f) ==
    /\ pc[Home[f]] = "idle" /\ ~row[f].waiting /\ Edit
    /\ row' = [row EXCEPT ![f].cid = NoId]
    /\ UNCHANGED <<catalog, creator, pc, todo, cur, reconciling, faults>>

Crash(a) ==
    /\ pc[a] # "idle" /\ Fault
    /\ pc' = [pc EXCEPT ![a] = "idle"]
    /\ todo' = [todo EXCEPT ![a] = {}] /\ cur' = [cur EXCEPT ![a] = NoJob]
    /\ tracked' = [tracked EXCEPT ![a] = {}]
    /\ offset' = [offset EXCEPT ![a] = 0]
    /\ doomed' = [doomed EXCEPT ![a] = {}]
    /\ UNCHANGED <<row, catalog, creator, edits>>

-----------------------------------------------------------------------------
(***************************************************************************)
(* The push of one finding: pushGroup, createEntry, updateEntry and        *)
(* recoverConflict, request by request.                                    *)
(***************************************************************************)
Goto(a, place) == pc' = [pc EXCEPT ![a] = place]
NextGroup(a)   == Goto(a, "push") /\ cur' = [cur EXCEPT ![a] = NoJob]

\* The entry as instance a writes it, with its marker.
Mine(a) == [name |-> row[cur[a].finding].name, owner |-> a]

\* A cycle comes to phase 5, which may fail to read the groups.
BeginPush(a) ==
    /\ pc[a] = "idle"
    /\ \/ todo' = [todo EXCEPT ![a] = {f \in Finding : Home[f] = a /\ row[f].waiting}] /\ NoFault
       \/ Fault /\ UNCHANGED todo
    /\ Goto(a, "push")
    /\ UNCHANGED <<row, cur, catalog, creator, reconciling, edits>>

PushGroup(a, f) ==
    /\ pc[a] = "push" /\ f \in todo[a]
    /\ todo' = [todo EXCEPT ![a] = @ \ {f}]
    /\ cur' = [cur EXCEPT ![a] = [finding |-> f, cid |-> row[f].cid]]
    /\ Goto(a, IF row[f].cid = NoId THEN "post" ELSE "get")
    /\ NoFault /\ UNCHANGED <<row, catalog, creator, reconciling, edits>>

\* The reconciliation is not due, or not enabled in this instance.
EndCycle(a) ==
    /\ pc[a] = "push" /\ todo[a] = {}
    /\ Goto(a, "idle")
    /\ NoFault /\ UNCHANGED <<pushing, catalog, creator, reconciling, edits>>

\* Mutant: an error passes for a 404.
GetServiceOrGone(a) ==
    /\ pc[a] = "get"
    /\ \/ cur[a].cid \in Existing /\ Goto(a, "put") /\ NoFault
       \/ /\ (cur[a].cid \notin Existing /\ NoFault) \/ Fault
          /\ Goto(a, IF RePushDeleted[a] THEN "post" ELSE "skip")
    /\ UNCHANGED <<pushing, catalog, creator, reconciling, edits>>

\* GET: on an error the code tries the update.
GetService(a) ==
    /\ pc[a] = "get"
    /\ \/ /\ Goto(a, IF cur[a].cid \in Existing THEN "put"
                     ELSE IF RePushDeleted[a] THEN "post" ELSE "skip")
          /\ NoFault
       \/ Fault /\ Goto(a, "put")
    /\ UNCHANGED <<pushing, catalog, creator, reconciling, edits>>

\* PUT: the catalog refuses another name, and may refuse another version.
UpdateService(a) ==
    /\ pc[a] = "put"
    /\ LET id   == cur[a].cid
           same == id \in Existing /\ catalog[id].name = Mine(a).name
           done == Write(id, Mine(a), creator[id])
       IN  \/ same /\ done /\ Goto(a, "mark") /\ NoFault /\ UNCHANGED cur
           \/ id \in Existing /\ Goto(a, "delete") /\ NoFault /\ Untouched /\ UNCHANGED cur
           \/ id \notin Existing /\ NextGroup(a) /\ NoFault /\ Untouched
           \/ Fault /\ NextGroup(a) /\ ((same /\ done) \/ Untouched)
    /\ UNCHANGED <<row, todo, reconciling, edits>>

DeleteService(a) ==
    /\ pc[a] = "delete"
    /\ LET removed == cur[a].cid \in Existing /\ Write(cur[a].cid, Absent, NoOwner)
       IN  \/ removed /\ Goto(a, "post") /\ NoFault /\ UNCHANGED cur
           \/ cur[a].cid \notin Existing /\ NextGroup(a) /\ NoFault /\ Untouched
           \/ Fault /\ NextGroup(a) /\ (removed \/ Untouched)
    /\ UNCHANGED <<row, todo, reconciling, edits>>

\* POST, with a conflict that may be with the entry it has just created.
CreateService(a) ==
    /\ pc[a] = "post"
    /\ LET created == ~NameTaken(Mine(a).name) /\ FreeIds # {} /\ Write(NewId, Mine(a), a)
       IN  \/ /\ created /\ cur' = [cur EXCEPT ![a].cid = NewId]
              /\ Goto(a, "mark") /\ NoFault
           \/ NameTaken(Mine(a).name) /\ Goto(a, "search") /\ NoFault /\ Untouched /\ UNCHANGED cur
           \/ /\ Fault /\ (created \/ Untouched)
              /\ NextGroup(a) \/ (Goto(a, "search") /\ UNCHANGED cur)
    /\ UNCHANGED <<row, todo, reconciling, edits>>

SearchByName(a) ==
    /\ pc[a] = "search"
    /\ \/ \E id \in Existing :
              /\ catalog[id].name = Mine(a).name
              /\ cur' = [cur EXCEPT ![a].cid = id] /\ Goto(a, "put") /\ NoFault
       \/ ~NameTaken(Mine(a).name) /\ NextGroup(a) /\ NoFault
       \/ Fault /\ NextGroup(a)
    /\ UNCHANGED <<row, todo, catalog, creator, reconciling, edits>>

\* MarkPushed, or MarkPushedSkipped, which keeps the id.
MarkPushed(a) ==
    /\ pc[a] \in {"mark", "skip"}
    /\ LET f   == cur[a].finding
           cid == IF pc[a] = "mark" THEN cur[a].cid ELSE row[f].cid
       IN  \/ row' = [row EXCEPT ![f].waiting = FALSE, ![f].cid = cid] /\ NoFault
           \/ Fault /\ UNCHANGED row
    /\ NextGroup(a)
    /\ UNCHANGED <<todo, catalog, creator, reconciling, edits>>

-----------------------------------------------------------------------------
(***************************************************************************)
(* Reconciler.Run.                                                         *)
(***************************************************************************)

TrackedCatalogServiceIDs(a) == OwnIds(a)

\* Mutant: the failure of step 1 is logged and no more.
BeginReconcileAnyway(a) ==
    /\ pc[a] = "push" /\ todo[a] = {}
    /\ \/ tracked' = [tracked EXCEPT ![a] = TrackedCatalogServiceIDs(a)] /\ NoFault
       \/ Fault /\ UNCHANGED tracked
    /\ Goto(a, "list")
    /\ UNCHANGED <<pushing, catalog, creator, offset, doomed, edits>>

\* Step 1.
BeginReconcile(a) ==
    /\ pc[a] = "push" /\ todo[a] = {}
    /\ \/ /\ tracked' = [tracked EXCEPT ![a] = TrackedCatalogServiceIDs(a)]
          /\ Goto(a, "list") /\ NoFault
       \/ Fault /\ Goto(a, "idle") /\ UNCHANGED tracked
    /\ UNCHANGED <<pushing, catalog, creator, offset, doomed, edits>>

\* Mutant: whatever is not tracked by this instance is deleted.
UntrackedEntries(a, ids) == {id \in ids : CleanupUnowned /\ id \notin tracked[a]}

\* Step 3: neither tracked here, nor with the marker of any ADC.
UnownedEntries(a, ids) ==
    {id \in ids : CleanupUnowned /\ id \notin tracked[a] /\ catalog[id].owner = NoOwner}

Position(id)  == Cardinality({other \in Existing : other < id})
Page(from)    == {id \in Existing : from <= Position(id) /\ Position(id) < from + PageSize}

EndReconcile(a) ==
    /\ Goto(a, "idle")
    /\ tracked' = [tracked EXCEPT ![a] = {}]
    /\ offset' = [offset EXCEPT ![a] = 0]
    /\ doomed' = [doomed EXCEPT ![a] = {}]

\* Mutant: the listing ends with its first page.
ListFirstPage(a) ==
    /\ pc[a] = "list"
    /\ doomed' = [doomed EXCEPT ![a] = UnownedEntries(a, Page(0))]
    /\ Goto(a, "clean")
    /\ NoFault /\ UNCHANGED <<pushing, catalog, creator, tracked, offset, edits>>

\* Step 2, one page.  An entry is judged by what the listing says of it.
ListServices(a) ==
    /\ pc[a] = "list"
    /\ LET next == offset[a] + Cardinality(Page(offset[a]))
       IN  \/ /\ doomed' = [doomed EXCEPT ![a] = @ \cup UnownedEntries(a, Page(offset[a]))]
              /\ offset' = [offset EXCEPT ![a] = next]
              /\ Goto(a, IF next >= Cardinality(Existing) \/ next = offset[a] THEN "clean" ELSE "list")
              /\ NoFault /\ UNCHANGED tracked
           \/ Fault /\ EndReconcile(a)
    /\ UNCHANGED <<pushing, catalog, creator, edits>>

\* One DELETE, in any order; a failure is logged.
DeleteUnowned(a, id) ==
    /\ pc[a] = "clean" /\ id \in doomed[a]
    /\ doomed' = [doomed EXCEPT ![a] = @ \ {id}]
    /\ LET removed == id \in Existing /\ Write(id, Absent, NoOwner)
       IN  \/ removed /\ NoFault
           \/ id \notin Existing /\ NoFault /\ Untouched
           \/ Fault /\ (removed \/ Untouched)
    /\ UNCHANGED <<pushing, pc, tracked, offset, edits>>

FinishReconcile(a) ==
    /\ pc[a] = "clean" /\ doomed[a] = {}
    /\ EndReconcile(a)
    /\ NoFault /\ UNCHANGED <<pushing, catalog, creator, edits>>

-----------------------------------------------------------------------------
Push(a) ==
    \/ BeginPush(a) \/ (\E f \in todo[a] : PushGroup(a, f)) \/ EndCycle(a)
    \/ GetService(a) \/ UpdateService(a) \/ DeleteService(a)
    \/ CreateService(a) \/ SearchByName(a) \/ MarkPushed(a)

Reconcile(a) ==
    \/ BeginReconcile(a) \/ ListServices(a) \/ FinishReconcile(a)
    \/ \E id \in doomed[a] : DeleteUnowned(a, id)

Environment ==
    \/ \E name \in Names : UserCreate(name)
    \/ \E id \in CatalogId : UserDelete(id) \/ UserEdit(id)
    \/ \E f \in Finding : Regenerate(f) \/ Forget(f)

Next == Environment \/ \E a \in Adc : Push(a) \/ Reconcile(a) \/ Crash(a)

Spec == Init /\ [][Next]_vars

(***************************************************************************)
(* Each engine keeps running its cycles, which push whatever waits, and    *)
(* reconciles every day.                                                   *)
(***************************************************************************)
Fairness ==
    \A a \in Adc :
        WF_vars(Push(a) \/ Reconcile(a)) /\ SF_vars(BeginReconcile(a))

FairSpec == Spec /\ Fairness

-----------------------------------------------------------------------------
\* No reconciliation ever means to delete an entry that an ADC created and no
\* user has edited: neither another instance's nor one whose row is gone, even
\* though the deletions follow a listing that is pages old (reconcile.go:105).
CreatedEntryKept ==
    \A a \in Adc : \A id \in doomed[a] : creator[id] = NoOwner

\* No reconciliation means to delete an entry that a row of its own instance
\* refers to, whatever the row's status is and whatever users made of the marker.
TrackedEntryKept ==
    \A a \in Adc : doomed[a] \cap OwnIds(a) = {}

\* An entry without a marker does not stay, although pages shift while other
\* instances delete and users create; unless every instance refers to it.
UnownedGoes ==
    CleanupUnowned =>
        \A id \in CatalogId :
            []<>(id \in Existing => catalog[id].owner # NoOwner \/ \A a \in Adc : id \in OwnIds(a))

\* The catalog has taken f's entry, under f's name and with the marker of its home,
\* and its id is about to be recorded.
Taken(f) ==
    LET a == Home[f]
    IN  /\ pc[a] = "mark" /\ cur[a].finding = f
        /\ catalog[cur[a].cid] = [name |-> row[f].name, owner |-> a]

\* The entry that f had is gone, whoever deleted it, and its home does not publish
\* such findings again.
GivenUp(f) ==
    LET a == Home[f]
    IN  /\ pc[a] = "skip" /\ cur[a].finding = f
        /\ ~RePushDeleted[a] /\ row[f].cid # NoId /\ row[f].cid \notin Existing

\* A finding that waits when a cycle begins stops waiting in the end, and not
\* before the catalog has taken its entry, even when several instances and users
\* want the same name, replace each other's entries and reconciliations delete
\* some meanwhile.  Only an instance that does not re-push gives it up, and only
\* when the entry that the row refers to is gone (catalog.go:136-153).
WaitingIsPushed ==
    \A f \in Finding :
        /\ row[f].waiting ~> ~row[f].waiting
        /\ row[f].waiting /\ pc[Home[f]] = "idle" ~> Taken(f) \/ GivenUp(f)
=============================================================================
