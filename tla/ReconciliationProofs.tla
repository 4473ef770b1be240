------------------------ MODULE ReconciliationProofs ------------------------
(***************************************************************************)
(* Theorems about Reconciliation, for any number of instances, findings,   *)
(* names, users' changes, failures and crashes, and every page size.       *)
(***************************************************************************)
EXTENDS Reconciliation, TLAPS, WellFoundedInduction, FiniteSetTheorems

\* A set of natural numbers that is not empty has a smallest element.
LEMMA Smallest ==
    ASSUME NEW T, T \subseteq Nat, T # {}
    PROVE  \E x \in T : \A y \in T : x <= y
<1> DEFINE R == {ss \in Nat \X Nat : ss[1] < ss[2]}
<1>1. IsWellFoundedOn(R, Nat)
  BY NatLessThanWellFounded DEF OpToRel
<1>2. \E x \in T : \A y \in T : ~ (<<y, x>> \in R)
  <2> HIDE DEF R
  <2> QED BY <1>1, WFMin
<1>3. ASSUME NEW x \in Nat, NEW y \in Nat, ~ (<<y, x>> \in R) PROVE x <= y
  <2>1. ~ (y < x)
    BY <1>3
  <2> QED BY <2>1
<1> HIDE DEF R
<1> QED BY <1>2, <1>3

\* The id that the catalog gives to a new entry is one that nobody knows.
LEMMA NewIdIsFree == FreeIds # {} => NewId \in FreeIds
<1>1. FreeIds \subseteq Nat
  BY ReconciliationAssumption DEF FreeIds
<1>2. FreeIds # {} => \E id \in FreeIds : \A other \in FreeIds : id <= other
  BY <1>1, Smallest
<1> QED BY <1>2 DEF NewId

-----------------------------------------------------------------------------
(***************************************************************************)
(* What a step of the push may change.                                     *)
(***************************************************************************)

\* The entry that a push writes, and what it knows of the finding.
LEMMA JobTyped ==
    ASSUME TypeOK, NEW a \in Adc, pc[a] \in Pushing
    PROVE  /\ cur[a] \in Job /\ cur[a].finding \in Finding
           /\ cur[a].cid \in CatalogId \cup {NoId} /\ Home[cur[a].finding] = a
           /\ Mine(a) \in Entry /\ Mine(a).owner = a
<1>1. cur[a] \in Job /\ Home[cur[a].finding] = a
  BY DEF TypeOK
<1>2. cur[a].finding \in Finding /\ cur[a].cid \in CatalogId \cup {NoId}
  BY <1>1 DEF Job
<1>3. row[cur[a].finding].name \in Names
  BY <1>2 DEF TypeOK, Row
<1> QED BY <1>1, <1>2, <1>3 DEF Mine, Entry, Owner

\* The four things a step of instance a does to the catalog when it pushes.
PushWrites(a) ==
    \/ Untouched
    \/ \E id \in CatalogId : Write(id, Absent, NoOwner)
    \/ \E id \in CatalogId : Write(id, Mine(a), creator[id]) /\ pc[a] \in Pushing
    \/ FreeIds # {} /\ Write(NewId, Mine(a), a) /\ pc[a] \in Pushing

LEMMA PushWritesOnly == ASSUME TypeOK, NEW a \in Adc, Push(a) PROVE PushWrites(a)
<1>e. Existing \subseteq CatalogId
  BY DEF Existing
<1>1. CASE BeginPush(a) \/ (\E f \in todo[a] : PushGroup(a, f)) \/ EndCycle(a)
           \/ GetService(a) \/ SearchByName(a) \/ MarkPushed(a)
  BY <1>1 DEF BeginPush, PushGroup, EndCycle, GetService, SearchByName, MarkPushed,
              PushWrites, Untouched
<1>2. CASE UpdateService(a)
  BY <1>e, <1>2 DEF UpdateService, PushWrites, Pushing
<1>3. CASE DeleteService(a)
  BY <1>e, <1>3 DEF DeleteService, PushWrites, Pushing
<1>4. CASE CreateService(a)
  BY <1>4 DEF CreateService, PushWrites, Pushing
<1> QED BY <1>1, <1>2, <1>3, <1>4 DEF Push

\* A push stays among its own places, and leaves the reconciliations alone and
\* the rows of the other instances.
PushFrame(a) ==
    /\ UNCHANGED <<tracked, offset, doomed, edits>>
    /\ pc[a] \notin Reconciling
    /\ pc' = [pc EXCEPT ![a] = pc'[a]]
    /\ pc'[a] \in {"idle", "push"} \cup Pushing
    /\ \A f \in Finding : Home[f] # a => row'[f] = row[f]

LEMMA PushKeepsFrame == ASSUME TypeOK, NEW a \in Adc, Push(a) PROVE PushFrame(a)
<1> USE DEF Goto, NextGroup, Pushing, Reconciling, pushing, reconciling
<1>p. pc \in [Adc -> {"idle", "push"} \cup Pushing \cup Reconciling]
  BY DEF TypeOK
<1>1. CASE BeginPush(a) \/ (\E f \in todo[a] : PushGroup(a, f)) \/ EndCycle(a)
  BY <1>p, <1>1 DEF BeginPush, PushGroup, EndCycle, PushFrame
<1>2. CASE GetService(a)
  BY <1>p, <1>2 DEF GetService, PushFrame
<1>3. CASE UpdateService(a)
  BY <1>p, <1>3 DEF UpdateService, PushFrame
<1>4. CASE DeleteService(a)
  BY <1>p, <1>4 DEF DeleteService, PushFrame
<1>5. CASE CreateService(a)
  BY <1>p, <1>5 DEF CreateService, PushFrame
<1>6. CASE SearchByName(a)
  BY <1>p, <1>6 DEF SearchByName, PushFrame
<1>7. CASE MarkPushed(a)
  <2>1. Home[cur[a].finding] = a /\ row \in [Finding -> Row]
    BY <1>7, JobTyped DEF MarkPushed, TypeOK
  <2>2. \A f \in Finding : Home[f] # a => row'[f] = row[f]
    BY <1>7, <2>1 DEF MarkPushed
  <2> QED BY <1>p, <1>7, <2>2 DEF MarkPushed, PushFrame
<1> QED BY <1>1, <1>2, <1>3, <1>4, <1>5, <1>6, <1>7 DEF Push

-----------------------------------------------------------------------------
(***************************************************************************)
(* Types.                                                                  *)
(***************************************************************************)
CatalogTyped == catalog \in [CatalogId -> Entry] /\ creator \in [CatalogId -> Owner]

LEMMA WriteTyped ==
    ASSUME CatalogTyped, NEW id, NEW e \in Entry, NEW by \in Owner, Write(id, e, by)
    PROVE  CatalogTyped'
BY DEF CatalogTyped, Write

LEMMA AbsentTyped == Absent \in Entry /\ NoOwner \in Owner
BY DEF Absent, Entry, Owner

LEMMA PushWritesTyped ==
    ASSUME TypeOK, NEW a \in Adc, PushWrites(a) PROVE CatalogTyped'
<1>1. CatalogTyped
  BY DEF TypeOK, CatalogTyped
<1>2. CASE Untouched
  BY <1>1, <1>2 DEF Untouched, CatalogTyped
<1>3. CASE \E id \in CatalogId : Write(id, Absent, NoOwner)
  BY <1>1, <1>3, AbsentTyped, WriteTyped
<1>4. CASE \E id \in CatalogId : Write(id, Mine(a), creator[id]) /\ pc[a] \in Pushing
  <2>1. \A id \in CatalogId : creator[id] \in Owner
    BY <1>1 DEF CatalogTyped
  <2> QED BY <1>1, <1>4, <2>1, JobTyped, WriteTyped
<1>5. CASE FreeIds # {} /\ Write(NewId, Mine(a), a) /\ pc[a] \in Pushing
  <2>1. a \in Owner
    BY DEF Owner
  <2> QED BY <1>1, <1>5, <2>1, JobTyped, WriteTyped
<1> QED BY <1>2, <1>3, <1>4, <1>5 DEF PushWrites

\* The counters of faults and edits only grow.
LEMMA CountersTyped ==
    ASSUME TypeOK
    PROVE  (Fault => faults' \in Nat) /\ (NoFault => faults' \in Nat) /\ (Edit => edits' \in Nat)
BY DEF TypeOK, Fault, NoFault, Edit

LEMMA InitTyped == ASSUME Init PROVE TypeOK
<1>1. row \in [Finding -> Row]
  BY DEF Init, Row
<1>2. catalog \in [CatalogId -> Entry] /\ creator \in [CatalogId -> Owner]
  BY AbsentTyped DEF Init
<1>3. pc \in [Adc -> {"idle", "push"} \cup Pushing \cup Reconciling]
      /\ \A a \in Adc : pc[a] = "idle"
  BY DEF Init
<1> QED
  BY <1>1, <1>2, <1>3 DEF Init, TypeOK, Pushing

\* The finding and the id that an instance works on belong to the place where it is.
PlaceTyped ==
    /\ pc \in [Adc -> {"idle", "push"} \cup Pushing \cup Reconciling]
    /\ cur \in [Adc -> Job \cup {NoJob}]
    /\ \A a \in Adc : pc[a] \in Pushing => cur[a] \in Job /\ Home[cur[a].finding] = a
    /\ \A a \in Adc : pc[a] \in {"get", "put", "delete", "mark"} => cur[a].cid # NoId
    /\ todo \in [Adc -> SUBSET Finding]
    /\ \A a \in Adc : \A f \in todo[a] : Home[f] = a

\* An instance that goes to a place with the right work keeps the places typed.
LEMMA MovingKeepsPlaces ==
    ASSUME PlaceTyped, NEW a \in Adc, NEW place, NEW job \in Job \cup {NoJob},
           pc' = [pc EXCEPT ![a] = place], cur' = [cur EXCEPT ![a] = job],
           place \in {"idle", "push"} \cup Pushing \cup Reconciling,
           place \in Pushing => job \in Job /\ Home[job.finding] = a,
           place \in {"get", "put", "delete", "mark"} => job.cid # NoId,
           todo' = todo
    PROVE  PlaceTyped'
BY DEF PlaceTyped

\* The push keeps to the work of its place.
LEMMA PushKeepsPlaces == ASSUME TypeOK, NEW a \in Adc, Push(a) PROVE PlaceTyped'
<1> USE DEF Goto, NextGroup
<1>p. PlaceTyped
  BY DEF TypeOK, PlaceTyped
<1>c. cur \in [Adc -> Job \cup {NoJob}]
  BY DEF TypeOK
<1>n. NextGroup(a) /\ todo' = todo => PlaceTyped'
  BY <1>p, MovingKeepsPlaces DEF Pushing
<1>w. ASSUME pc[a] \in Pushing, NEW id \in CatalogId \cup {NoId}
      PROVE  /\ [cur EXCEPT ![a].cid = id] = [cur EXCEPT ![a] = [finding |-> cur[a].finding, cid |-> id]]
             /\ [finding |-> cur[a].finding, cid |-> id] \in Job
  <2>1. cur[a] \in Job /\ cur[a].finding \in Finding
    BY <1>w, JobTyped
  <2>2. [cur[a] EXCEPT !.cid = id] = [finding |-> cur[a].finding, cid |-> id]
    BY <2>1 DEF Job
  <2> QED BY <1>c, <1>w, <2>1, <2>2 DEF Job
<1>j. pc[a] \in Pushing => cur[a] \in Job /\ Home[cur[a].finding] = a
  BY JobTyped
<1>s. ASSUME NEW place \in Pushing, pc[a] \in Pushing, Goto(a, place), UNCHANGED <<cur, todo>>,
             place \in {"get", "put", "delete", "mark"} => cur[a].cid # NoId
      PROVE  PlaceTyped'
  BY <1>p, <1>j, <1>s DEF PlaceTyped
<1>1. CASE BeginPush(a)
  <2>1. pc' = [pc EXCEPT ![a] = "push"] /\ cur' = cur
    BY <1>1 DEF BeginPush, pushing
  <2>2. todo' \in [Adc -> SUBSET Finding] /\ \A b \in Adc : \A f \in todo'[b] : Home[f] = b
    BY <1>1, <1>p DEF BeginPush, PlaceTyped
  <2> QED BY <1>p, <2>1, <2>2 DEF PlaceTyped, Pushing
<1>2. ASSUME NEW f \in todo[a], PushGroup(a, f) PROVE PlaceTyped'
  <2> DEFINE job == [finding |-> f, cid |-> row[f].cid]
             place == IF row[f].cid = NoId THEN "post" ELSE "get"
  <2>1. f \in Finding /\ Home[f] = a /\ row[f].cid \in CatalogId \cup {NoId}
    BY DEF TypeOK, Row
  <2>2. job \in Job /\ job.finding = f /\ job.cid = row[f].cid
    BY <2>1 DEF Job
  <2>3. pc' = [pc EXCEPT ![a] = place] /\ cur' = [cur EXCEPT ![a] = job]
        /\ todo' = [todo EXCEPT ![a] = todo[a] \ {f}]
    BY <1>2 DEF PushGroup
  <2>4. todo' \in [Adc -> SUBSET Finding] /\ \A b \in Adc : \A g \in todo'[b] : Home[g] = b
    BY <1>p, <2>3 DEF PlaceTyped
  <2>5. place \in Pushing /\ (place \in {"get", "put", "delete", "mark"} => job.cid # NoId)
    BY <2>2 DEF Pushing
  <2> HIDE DEF job, place
  <2> QED BY <1>p, <2>1, <2>2, <2>3, <2>4, <2>5 DEF PlaceTyped
<1>3. CASE EndCycle(a)
  <2>1. pc' = [pc EXCEPT ![a] = "idle"] /\ UNCHANGED <<cur, todo>>
    BY <1>3 DEF EndCycle, pushing
  <2> QED BY <1>p, <2>1 DEF PlaceTyped, Pushing
<1>4. CASE GetService(a)
  <2>1. pc[a] \in Pushing /\ cur[a].cid # NoId /\ UNCHANGED <<cur, todo>>
    BY <1>4 DEF GetService, pushing, Pushing, TypeOK
  <2>2. PICK place \in {"put", "post", "skip"} : Goto(a, place)
    BY <1>4 DEF GetService
  <2>3. place \in Pushing
    BY DEF Pushing
  <2> QED BY <1>s, <2>1, <2>2, <2>3
<1>5. CASE UpdateService(a)
  <2>1. pc[a] \in Pushing /\ cur[a].cid # NoId /\ todo' = todo
    BY <1>5 DEF UpdateService, Pushing, TypeOK
  <2>2. NextGroup(a) \/ \E place \in {"mark", "delete"} : Goto(a, place) /\ UNCHANGED cur
    BY <1>5 DEF UpdateService
  <2>3. {"mark", "delete"} \subseteq Pushing
    BY DEF Pushing
  <2> QED BY <1>n, <1>s, <2>1, <2>2, <2>3
<1>6. CASE DeleteService(a)
  <2>1. pc[a] \in Pushing /\ todo' = todo
    BY <1>6 DEF DeleteService, Pushing
  <2>2. NextGroup(a) \/ (Goto(a, "post") /\ UNCHANGED cur)
    BY <1>6 DEF DeleteService
  <2>3. "post" \in Pushing
    BY DEF Pushing
  <2> QED BY <1>n, <1>s, <2>1, <2>2, <2>3
<1>7. CASE CreateService(a)
  <2>1. pc[a] \in Pushing /\ todo' = todo
    BY <1>7 DEF CreateService, Pushing
  <2>2. \/ NextGroup(a) \/ (Goto(a, "search") /\ UNCHANGED cur)
        \/ FreeIds # {} /\ Goto(a, "mark") /\ cur' = [cur EXCEPT ![a].cid = NewId]
    BY <1>7 DEF CreateService
  <2>3. CASE FreeIds # {} /\ Goto(a, "mark") /\ cur' = [cur EXCEPT ![a].cid = NewId]
    <3> DEFINE job == [finding |-> cur[a].finding, cid |-> NewId]
    <3>1. NewId \in CatalogId
      BY <2>3, NewIdIsFree DEF FreeIds
    <3>2. NewId # NoId
      BY <3>1, ReconciliationAssumption
    <3>3. cur' = [cur EXCEPT ![a] = job] /\ job \in Job /\ job.cid = NewId /\ Home[job.finding] = a
      BY <1>w, <1>j, <2>1, <2>3, <3>1
    <3>4. "mark" \in Pushing
      BY DEF Pushing
    <3> HIDE DEF job
    <3> QED BY <1>p, <2>1, <2>3, <3>2, <3>3, <3>4, MovingKeepsPlaces
  <2>4. "search" \in Pushing
    BY DEF Pushing
  <2> QED BY <1>n, <1>s, <2>1, <2>2, <2>3, <2>4
<1>8. CASE SearchByName(a)
  <2>1. pc[a] \in Pushing /\ todo' = todo
    BY <1>8 DEF SearchByName, Pushing
  <2>2. NextGroup(a) \/ \E id \in Existing : cur' = [cur EXCEPT ![a].cid = id] /\ Goto(a, "put")
    BY <1>8 DEF SearchByName
  <2>3. ASSUME NEW id \in Existing, cur' = [cur EXCEPT ![a].cid = id], Goto(a, "put")
        PROVE  PlaceTyped'
    <3> DEFINE job == [finding |-> cur[a].finding, cid |-> id]
    <3>1. id \in CatalogId /\ id # NoId
      BY ReconciliationAssumption DEF Existing
    <3>2. cur' = [cur EXCEPT ![a] = job] /\ job \in Job /\ job.cid = id /\ Home[job.finding] = a
      BY <1>w, <1>j, <2>1, <2>3, <3>1
    <3>3. "put" \in Pushing
      BY DEF Pushing
    <3> HIDE DEF job
    <3> QED BY <1>p, <2>1, <2>3, <3>1, <3>2, <3>3, MovingKeepsPlaces
  <2> QED BY <1>n, <2>1, <2>2, <2>3
<1>9. CASE MarkPushed(a)
  BY <1>n, <1>9 DEF MarkPushed
<1> QED BY <1>1, <1>2, <1>3, <1>4, <1>5, <1>6, <1>7, <1>8, <1>9 DEF Push

LEMMA PushTyped == ASSUME TypeOK, NEW a \in Adc, Push(a) PROVE TypeOK'
<1>1. PlaceTyped' /\ CatalogTyped' /\ PushFrame(a)
  BY PushKeepsPlaces, PushWritesOnly, PushWritesTyped, PushKeepsFrame
<1>2. faults' \in Nat
  BY CountersTyped
  DEF Push, BeginPush, PushGroup, EndCycle, GetService, UpdateService, DeleteService,
      CreateService, SearchByName, MarkPushed
<1>3. row' \in [Finding -> Row]
  <2>1. CASE MarkPushed(a)
    <3>1. pc[a] \in Pushing
      BY <2>1 DEF MarkPushed, Pushing
    <3>2. cur[a].finding \in Finding /\ cur[a].cid \in CatalogId \cup {NoId}
      BY <3>1, JobTyped
    <3>3. row[cur[a].finding].cid \in CatalogId \cup {NoId} /\ row \in [Finding -> Row]
      BY <3>2 DEF TypeOK, Row
    <3>4. \A c \in CatalogId \cup {NoId} :
             [row EXCEPT ![cur[a].finding].waiting = FALSE, ![cur[a].finding].cid = c]
               \in [Finding -> Row]
      BY <3>2, <3>3 DEF Row
    <3>5. row' = row \/ \E c \in CatalogId \cup {NoId} :
             row' = [row EXCEPT ![cur[a].finding].waiting = FALSE, ![cur[a].finding].cid = c]
      BY <2>1, <3>2, <3>3 DEF MarkPushed
    <3> QED BY <3>3, <3>4, <3>5
  <2>2. CASE ~MarkPushed(a)
    BY <2>2
    DEF Push, BeginPush, PushGroup, EndCycle, GetService, UpdateService, DeleteService,
        CreateService, SearchByName, pushing, TypeOK
  <2> QED BY <2>1, <2>2
<1> QED
  BY <1>1, <1>2, <1>3 DEF PlaceTyped, CatalogTyped, PushFrame, TypeOK

\* Every step keeps the types.
LEMMA StepTyped == ASSUME TypeOK, IsFiniteSet(Existing), [Next]_vars PROVE TypeOK'
<1> USE DEF pushing, reconciling
<1>c. CatalogTyped
  BY DEF TypeOK, CatalogTyped
<1>n. (Fault => faults' \in Nat) /\ (NoFault => faults' \in Nat) /\ (Edit => edits' \in Nat)
  BY CountersTyped
<1>1. ASSUME \/ \E name \in Names : UserCreate(name)
             \/ \E id \in CatalogId : UserDelete(id) \/ UserEdit(id)
      PROVE  TypeOK'
  <2>1. CatalogTyped'
    <3>1. CASE \E name \in Names : UserCreate(name)
      <4>1. \A name \in Names : [name |-> name, owner |-> NoOwner] \in Entry
        BY DEF Entry, Owner
      <4> QED BY <1>c, <3>1, <4>1, AbsentTyped, WriteTyped DEF UserCreate
    <3>2. CASE \E id \in CatalogId : UserDelete(id)
      BY <1>c, <3>2, AbsentTyped, WriteTyped DEF UserDelete
    <3>3. CASE \E id \in CatalogId : UserEdit(id)
      <4>1. \A id \in CatalogId : [catalog[id] EXCEPT !.owner = NoOwner] \in Entry
        BY <1>c DEF CatalogTyped, Entry, Owner
      <4> QED BY <1>c, <3>3, <4>1, AbsentTyped, WriteTyped DEF UserEdit
    <3> QED BY <1>1, <3>1, <3>2, <3>3
  <2> QED BY <1>1, <1>n, <2>1 DEF UserCreate, UserDelete, UserEdit, CatalogTyped, TypeOK
<1>2. ASSUME NEW f \in Finding, Regenerate(f) \/ Forget(f) PROVE TypeOK'
  <2>1. row' \in [Finding -> Row]
    <3>1. row \in [Finding -> Row]
      BY DEF TypeOK
    <3>2. \A name \in Names :
             [row EXCEPT ![f].waiting = TRUE, ![f].name = name] \in [Finding -> Row]
      BY <3>1 DEF Row
    <3>3. [row EXCEPT ![f].cid = NoId] \in [Finding -> Row]
      BY <3>1 DEF Row
    <3> QED BY <1>2, <3>2, <3>3 DEF Regenerate, Forget
  <2> QED BY <1>2, <1>n, <2>1 DEF Regenerate, Forget, TypeOK
<1>3. ASSUME NEW a \in Adc, Crash(a) PROVE TypeOK'
  <2>1. NoJob \in Job \cup {NoJob} /\ "idle" \notin Pushing
    BY DEF Pushing
  <2> QED BY <1>3, <1>n, <2>1 DEF Crash, TypeOK
<1>4. ASSUME NEW a \in Adc, Push(a) PROVE TypeOK'
  BY <1>4, PushTyped
<1>5. ASSUME NEW a \in Adc, Reconcile(a) PROVE TypeOK'
  <2> USE DEF Goto
  <2>0. {"idle", "list", "clean"} \cap Pushing = {}
        /\ {"idle", "list", "clean"} \subseteq {"idle", "push"} \cup Pushing \cup Reconciling
    BY DEF Pushing, Reconciling
  <2>1. CASE BeginReconcile(a)
    <3>1. TrackedCatalogServiceIDs(a) \subseteq CatalogId
      BY DEF TypeOK, Row, TrackedCatalogServiceIDs, OwnIds
    <3> QED BY <1>n, <2>0, <2>1, <3>1 DEF BeginReconcile, TypeOK
  <2>2. CASE FinishReconcile(a)
    BY <1>n, <2>0, <2>2 DEF FinishReconcile, EndReconcile, TypeOK
  <2>3. CASE ListServices(a)
    <3>1. CASE EndReconcile(a) /\ UNCHANGED <<row, todo, cur, catalog, creator, edits>>
      BY <1>n, <2>0, <2>3, <3>1 DEF ListServices, EndReconcile, TypeOK
    <3>2. CASE /\ doomed' = [doomed EXCEPT ![a] = @ \cup UnownedEntries(a, Page(offset[a]))]
               /\ offset' = [offset EXCEPT ![a] = offset[a] + Cardinality(Page(offset[a]))]
               /\ \E place \in {"clean", "list"} : Goto(a, place)
               /\ UNCHANGED <<row, todo, cur, catalog, creator, edits, tracked>> /\ NoFault
      <4>1. UnownedEntries(a, Page(offset[a])) \subseteq CatalogId
        BY DEF UnownedEntries, Page, Existing
      <4>2. Cardinality(Page(offset[a])) \in Nat
        BY FS_Subset, FS_CardinalityType DEF Page
      <4>3. offset[a] + Cardinality(Page(offset[a])) \in Nat
        BY <4>2 DEF TypeOK
      <4> QED BY <1>n, <2>0, <3>2, <4>1, <4>3 DEF TypeOK
    <3> QED BY <2>3, <3>1, <3>2 DEF ListServices
  <2>4. ASSUME NEW id \in doomed[a], DeleteUnowned(a, id) PROVE TypeOK'
    <3>1. CatalogTyped'
      BY <1>c, <2>4, AbsentTyped, WriteTyped DEF DeleteUnowned, Untouched, CatalogTyped
    <3> QED BY <1>n, <2>4, <3>1 DEF DeleteUnowned, CatalogTyped, TypeOK
  <2> QED BY <1>5, <2>1, <2>2, <2>3, <2>4 DEF Reconcile
<1>6. CASE UNCHANGED vars
  BY <1>6 DEF vars, TypeOK
<1> QED BY <1>1, <1>2, <1>3, <1>4, <1>5, <1>6 DEF Next, Environment

\* A request adds at most one entry, so that a listing always comes to an end.
LEMMA WriteAddsOne ==
    ASSUME CatalogTyped, NEW id, NEW e, NEW by, Write(id, e, by), IsFiniteSet(Existing)
    PROVE  IsFiniteSet(Existing')
<1>1. Existing' \subseteq Existing \cup {id}
  BY DEF Write, Existing, CatalogTyped
<1> QED BY <1>1, FS_AddElement, FS_Subset

LEMMA CatalogStaysFinite ==
    ASSUME TypeOK, IsFiniteSet(Existing), [Next]_vars PROVE IsFiniteSet(Existing')
<1>c. CatalogTyped
  BY DEF TypeOK, CatalogTyped
<1>u. catalog' = catalog => IsFiniteSet(Existing')
  BY DEF Existing
<1>1. CASE Environment
  BY <1>1, <1>c, <1>u, WriteAddsOne
  DEF Environment, UserCreate, UserDelete, UserEdit, Regenerate, Forget
<1>2. ASSUME NEW a \in Adc, Push(a) PROVE IsFiniteSet(Existing')
  BY <1>2, <1>c, <1>u, PushWritesOnly, WriteAddsOne DEF PushWrites, Untouched
<1>3. ASSUME NEW a \in Adc, Reconcile(a) PROVE IsFiniteSet(Existing')
  <2>1. CASE \E id \in doomed[a] : DeleteUnowned(a, id)
    BY <2>1, <1>c, <1>u, WriteAddsOne DEF DeleteUnowned, Untouched
  <2>2. CASE BeginReconcile(a) \/ ListServices(a) \/ FinishReconcile(a)
    BY <2>2, <1>u DEF BeginReconcile, ListServices, FinishReconcile
  <2> QED BY <1>3, <2>1, <2>2 DEF Reconcile
<1>4. CASE (\E a \in Adc : Crash(a)) \/ UNCHANGED vars
  BY <1>4, <1>u DEF Crash, vars
<1> QED BY <1>1, <1>2, <1>3, <1>4 DEF Next

\* The variables keep their types: among them, an instance works only on its own
\* findings, and never puts, deletes or records an entry that it has no id of.
THEOREM TypeCorrect == Spec => [](TypeOK /\ IsFiniteSet(Existing))
<1>1. Init => TypeOK /\ IsFiniteSet(Existing)
  <2>1. Init => Existing = {}
    BY DEF Init, Existing, Absent
  <2> QED BY <2>1, InitTyped, FS_EmptySet
<1>2. TypeOK /\ IsFiniteSet(Existing) /\ [Next]_vars => (TypeOK /\ IsFiniteSet(Existing))'
  BY StepTyped, CatalogStaysFinite
<1> QED BY <1>1, <1>2, PTL DEF Spec

-----------------------------------------------------------------------------
(***************************************************************************)
(* What a reconciliation means to delete.                                  *)
(***************************************************************************)

\* Whoever an ADC has created an entry for still has a marker in it.
MarkerKept == \A id \in CatalogId : creator[id] # NoOwner => catalog[id].owner # NoOwner

\* A reconciliation knows all that the rows of its instance refer to, for its
\* engine does nothing else meanwhile; what it knows it does not mean to delete.
TrackedIsKnown ==
    \A a \in Adc :
        /\ pc[a] \in Reconciling => OwnIds(a) \subseteq tracked[a]
        /\ pc[a] \notin Reconciling => doomed[a] = {}
        /\ doomed[a] \cap tracked[a] = {}

\* The inductive invariant.
OwnershipInv == MarkerKept /\ CreatedEntryKept /\ TrackedIsKnown

\* An entry that is written with a marker, or deleted, keeps what is known of
\* creators, if no one is credited with an entry that is about to be deleted.
LEMMA WriteKeepsMarkers ==
    ASSUME CatalogTyped, MarkerKept, CreatedEntryKept, UNCHANGED doomed,
           NEW id, NEW e \in Entry, NEW by, Write(id, e, by),
           by # NoOwner => e.owner # NoOwner,
           id \in CatalogId /\ by # NoOwner => by = creator[id] \/ \A a \in Adc : id \notin doomed[a]
    PROVE  MarkerKept' /\ CreatedEntryKept'
<1>1. MarkerKept'
  BY DEF MarkerKept, Write, CatalogTyped
<1>2. CreatedEntryKept'
  BY DEF CreatedEntryKept, Write, CatalogTyped
<1> QED BY <1>1, <1>2

LEMMA PushKeepsInv == ASSUME TypeOK, OwnershipInv, NEW a \in Adc, Push(a) PROVE OwnershipInv'
<1>c. CatalogTyped /\ a # NoOwner
  BY ReconciliationAssumption DEF TypeOK, CatalogTyped
<1>f. PushFrame(a)
  BY PushKeepsFrame
<1>1. MarkerKept' /\ CreatedEntryKept'
  <2>1. UNCHANGED doomed
    BY <1>f DEF PushFrame
  <2>2. CASE Untouched
    BY <2>1, <2>2 DEF Untouched, OwnershipInv, MarkerKept, CreatedEntryKept
  <2>3. CASE \E id \in CatalogId : Write(id, Absent, NoOwner)
    BY <1>c, <2>1, <2>3, AbsentTyped, WriteKeepsMarkers DEF OwnershipInv
  <2>4. CASE \E id \in CatalogId : Write(id, Mine(a), creator[id]) /\ pc[a] \in Pushing
    BY <1>c, <2>1, <2>4, JobTyped, WriteKeepsMarkers DEF OwnershipInv
  <2>5. CASE FreeIds # {} /\ Write(NewId, Mine(a), a) /\ pc[a] \in Pushing
    <3>1. \A b \in Adc : NewId \notin doomed[b]
      BY <2>5, NewIdIsFree DEF FreeIds
    <3> QED BY <1>c, <2>1, <2>5, <3>1, JobTyped, WriteKeepsMarkers DEF OwnershipInv
  <2> QED BY <2>2, <2>3, <2>4, <2>5, PushWritesOnly DEF PushWrites
<1>2. TrackedIsKnown'
  <2>1. \A b \in Adc \ {a} : OwnIds(b)' = OwnIds(b)
    BY <1>f DEF PushFrame, OwnIds
  <2>2. pc[a] \notin Reconciling /\ pc'[a] \notin Reconciling /\ \A b \in Adc \ {a} : pc'[b] = pc[b]
    BY <1>f DEF PushFrame, Pushing, Reconciling, TypeOK
  <2> QED BY <1>f, <2>1, <2>2 DEF PushFrame, OwnershipInv, TrackedIsKnown
<1> QED BY <1>1, <1>2 DEF OwnershipInv

LEMMA ReconcileKeepsInv ==
    ASSUME TypeOK, OwnershipInv, NEW a \in Adc, Reconcile(a) PROVE OwnershipInv'
<1> USE DEF Goto, pushing
<1>c. CatalogTyped
  BY DEF TypeOK, CatalogTyped
<1>d. doomed \in [Adc -> SUBSET CatalogId] /\ tracked \in [Adc -> SUBSET CatalogId]
      /\ pc \in [Adc -> {"idle", "push"} \cup Pushing \cup Reconciling]
  BY DEF TypeOK
<1>o. row' = row => \A b \in Adc : OwnIds(b)' = OwnIds(b)
  BY DEF OwnIds
<1>r. "push" \notin Reconciling /\ "idle" \notin Reconciling /\ {"list", "clean"} \subseteq Reconciling
  BY DEF Reconciling
<1>e. ASSUME EndReconcile(a), UNCHANGED <<row, catalog, creator>> PROVE OwnershipInv'
  BY <1>d, <1>e, <1>o, <1>r
  DEF EndReconcile, OwnershipInv, MarkerKept, CreatedEntryKept, TrackedIsKnown
<1>1. CASE BeginReconcile(a)
  <2>1. UNCHANGED <<row, catalog, creator, doomed>> /\ pc[a] = "push"
    BY <1>1 DEF BeginReconcile
  <2>2. MarkerKept' /\ CreatedEntryKept'
    BY <2>1 DEF OwnershipInv, MarkerKept, CreatedEntryKept
  <2>3. doomed[a] = {}
    BY <1>r, <2>1 DEF OwnershipInv, TrackedIsKnown
  <2>4. TrackedIsKnown'
    BY <1>1, <1>d, <1>o, <1>r, <2>1, <2>3
    DEF BeginReconcile, TrackedCatalogServiceIDs, OwnershipInv, TrackedIsKnown
  <2> QED BY <2>2, <2>4 DEF OwnershipInv
<1>2. CASE FinishReconcile(a)
  BY <1>2, <1>e DEF FinishReconcile
<1>3. CASE ListServices(a)
  <2> DEFINE found == UnownedEntries(a, Page(offset[a]))
  <2>1. CASE EndReconcile(a)
    BY <1>3, <1>e, <2>1 DEF ListServices
  <2>2. CASE /\ doomed' = [doomed EXCEPT ![a] = doomed[a] \cup found] /\ tracked' = tracked
             /\ \E place \in {"clean", "list"} : Goto(a, place)
    <3>1. UNCHANGED <<row, catalog, creator>> /\ pc[a] = "list"
      BY <1>3 DEF ListServices
    <3>2. \A id \in found : id \in CatalogId /\ id \notin tracked[a] /\ catalog[id].owner = NoOwner
      BY DEF UnownedEntries, Page, Existing
    <3> HIDE DEF found
    <3>3. MarkerKept'
      BY <3>1 DEF OwnershipInv, MarkerKept
    <3>4. CreatedEntryKept'
      BY <1>d, <2>2, <3>1, <3>2 DEF OwnershipInv, MarkerKept, CreatedEntryKept
    <3>5. TrackedIsKnown'
      BY <1>d, <1>o, <1>r, <2>2, <3>1, <3>2 DEF OwnershipInv, TrackedIsKnown
    <3> QED BY <3>3, <3>4, <3>5 DEF OwnershipInv
  <2> QED BY <1>3, <2>1, <2>2 DEF ListServices
<1>4. ASSUME NEW id \in doomed[a], DeleteUnowned(a, id) PROVE OwnershipInv'
  <2>1. UNCHANGED <<row, pc, tracked>> /\ doomed' = [doomed EXCEPT ![a] = doomed[a] \ {id}]
    BY <1>4 DEF DeleteUnowned
  <2>2. Write(id, Absent, NoOwner) \/ UNCHANGED <<catalog, creator>>
    BY <1>4 DEF DeleteUnowned, Untouched
  <2>3. MarkerKept'
    BY <1>c, <2>2 DEF Write, CatalogTyped, OwnershipInv, MarkerKept
  <2>4. \A other \in CatalogId : creator'[other] # NoOwner => creator'[other] = creator[other]
    BY <1>c, <2>2 DEF Write, CatalogTyped
  <2>5. CreatedEntryKept'
    BY <1>d, <2>1, <2>4 DEF OwnershipInv, CreatedEntryKept
  <2>6. TrackedIsKnown'
    BY <1>d, <1>o, <2>1 DEF OwnershipInv, TrackedIsKnown
  <2> QED BY <2>3, <2>5, <2>6 DEF OwnershipInv
<1> QED BY <1>1, <1>2, <1>3, <1>4 DEF Reconcile

LEMMA OthersKeepInv ==
    ASSUME TypeOK, OwnershipInv, Environment \/ (\E a \in Adc : Crash(a)) \/ UNCHANGED vars
    PROVE  OwnershipInv'
<1> USE DEF pushing, reconciling
<1>c. CatalogTyped
  BY DEF TypeOK, CatalogTyped
<1>1. ASSUME UNCHANGED <<row, pc, doomed, tracked>>, NEW id, NEW e \in Entry, Write(id, e, NoOwner)
      PROVE  OwnershipInv'
  <2>1. MarkerKept' /\ CreatedEntryKept'
    BY <1>1, <1>c, WriteKeepsMarkers DEF OwnershipInv
  <2>2. TrackedIsKnown'
    BY <1>1 DEF OwnershipInv, TrackedIsKnown, OwnIds
  <2> QED BY <2>1, <2>2 DEF OwnershipInv
<1>2. ASSUME NEW name \in Names, UserCreate(name) PROVE OwnershipInv'
  <2>1. [name |-> name, owner |-> NoOwner] \in Entry
    BY DEF Entry, Owner
  <2> QED BY <1>1, <1>2, <2>1 DEF UserCreate
<1>3. ASSUME NEW id \in CatalogId, UserDelete(id) \/ UserEdit(id) PROVE OwnershipInv'
  <2>1. [catalog[id] EXCEPT !.owner = NoOwner] \in Entry
    BY <1>c DEF CatalogTyped, Entry, Owner
  <2> QED BY <1>1, <1>3, <2>1, AbsentTyped DEF UserDelete, UserEdit
<1>4. ASSUME NEW f \in Finding, Regenerate(f) \/ Forget(f) PROVE OwnershipInv'
  <2>1. UNCHANGED <<catalog, creator, pc, tracked, doomed>> /\ pc[Home[f]] = "idle"
        /\ \A g \in Finding \ {f} : row'[g] = row[g]
    BY <1>4 DEF Regenerate, Forget, TypeOK
  <2>2. \A a \in Adc : pc[a] \in Reconciling => Home[f] # a
    BY <2>1 DEF Reconciling
  <2>3. \A a \in Adc : pc[a] \in Reconciling => OwnIds(a)' = OwnIds(a)
    BY <2>1, <2>2 DEF OwnIds
  <2> QED BY <2>1, <2>3 DEF OwnershipInv, MarkerKept, CreatedEntryKept, TrackedIsKnown
<1>5. ASSUME NEW a \in Adc, Crash(a) PROVE OwnershipInv'
  <2>1. \A b \in Adc : OwnIds(b)' = OwnIds(b)
    BY <1>5 DEF Crash, OwnIds
  <2> QED
    BY <1>5, <2>1
    DEF Crash, TypeOK, Reconciling, OwnershipInv, MarkerKept, CreatedEntryKept, TrackedIsKnown
<1>6. CASE UNCHANGED vars
  BY <1>6 DEF vars, OwnershipInv, MarkerKept, CreatedEntryKept, TrackedIsKnown, OwnIds
<1> QED BY <1>2, <1>3, <1>4, <1>5, <1>6 DEF Environment

\* The invariant of ownership holds for ever.
THEOREM OwnershipInvariant == Spec => []OwnershipInv
<1>1. Init => OwnershipInv
  BY DEF Init, OwnershipInv, MarkerKept, CreatedEntryKept, TrackedIsKnown, Reconciling
<1>2. TypeOK /\ OwnershipInv /\ [Next]_vars => OwnershipInv'
  BY PushKeepsInv, ReconcileKeepsInv, OthersKeepInv DEF Next
<1> QED BY <1>1, <1>2, TypeCorrect, PTL DEF Spec

\* However old its listing is, and whatever other instances, users and failures
\* do meanwhile, a reconciliation means to delete no entry that an ADC has
\* created and nobody has edited (reconcile.go).
THEOREM CreatedEntryKeptHolds == Spec => []CreatedEntryKept
<1>1. OwnershipInv => CreatedEntryKept
  BY DEF OwnershipInv
<1> QED BY <1>1, OwnershipInvariant, PTL

\* Nor one that a row of its own instance refers to.
THEOREM TrackedEntryKeptHolds == Spec => []TrackedEntryKept
<1>1. OwnershipInv => TrackedEntryKept
  BY DEF OwnershipInv, TrackedIsKnown, TrackedEntryKept
<1> QED BY <1>1, OwnershipInvariant, PTL
=============================================================================
