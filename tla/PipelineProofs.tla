--------------------------- MODULE PipelineProofs ---------------------------
(***************************************************************************)
(* Proofs about Pipeline, for any operations, services, managed views and  *)
(* any number of failures and edits.                                       *)
(***************************************************************************)
EXTENDS Pipeline, WellFoundedInduction, TLAPS

-----------------------------------------------------------------------------
(***************************************************************************)
(* Classification.                                                         *)
(***************************************************************************)

\* A nonempty set of numbers has a first element: the CHOOSE in First is safe.
LEMMA FirstIsElement ==
    ASSUME NEW S, S \subseteq Nat, S # {}
    PROVE  First(S) \in S
<1>1. PICK x \in S : \A y \in S : ~ (<<y, x>> \in OpToRel(<, Nat))
    BY NatLessThanWellFounded, WFMin, Zenon
<1>2. \A y \in S : x <= y
    <2> SUFFICES ASSUME NEW y \in S PROVE x <= y
        OBVIOUS
    <2>1. <<y, x>> \in Nat \X Nat
        OBVIOUS
    <2>2. ~ (y < x)
        BY <1>1, <2>1 DEF OpToRel
    <2> QED BY <2>2
<1> QED BY <1>2, Zenon DEF First

\* The API that an operation matches is a managed API, or none.
LEMMA MatchedApiType ==
    ASSUME NEW M, NEW d
    PROVE  MatchedApi(M, d) \in Api \cup {NoApi}
<1> DEFINE owners == {a \in Api : Endpoint[d] \in M[a]}
<1>1. owners # {} => First(owners) \in owners
    BY FirstIsElement, ClassificationAssumption
<1> QED BY <1>1 DEF MatchedApi

\* No API is its own absence.
LEMMA NoApiIsNoApi == NoApi \notin Api
BY ClassificationAssumption DEF NoApi

\* A verdict, or a row, or a group is DRIFT exactly when it has a parent API.
Consistent(x) == x.class = "DRIFT" <=> x.mid # NoApi

\* Classify gives every operation a verdict, and only a DRIFT or a MANAGED one
\* names an API.
LEMMA ClassifyType ==
    ASSUME NEW D, NEW M, NEW lost
    PROVE  /\ Classify(D, M, lost) \in [Discovered -> Verdict]
           /\ \A d \in Unmanaged(Classify(D, M, lost)) : Consistent(Classify(D, M, lost)[d])
<1> DEFINE V == Classify(D, M, lost)
<1>1. ASSUME NEW d \in Discovered
      PROVE  V[d] \in Verdict /\ (V[d].class \in {"SHADOW", "DRIFT"} => Consistent(V[d]))
    <2> DEFINE parent == SiblingApi(D, M, lost, ServiceKey[d])
    <2>1. parent \in Api \cup {NoApi}
        BY MatchedApiType DEF SiblingApi
    <2>2. MatchedApi(M, d) \in Api \cup {NoApi}
        BY MatchedApiType
    <2> HIDE DEF parent
    <2>3. V[d] = IF d \notin D THEN [class |-> "ABSENT", mid |-> NoApi]
                 ELSE IF d \in StillManaged(D, M, lost) THEN [class |-> "MANAGED", mid |-> MatchedApi(M, d)]
                 ELSE IF parent # NoApi THEN [class |-> "DRIFT", mid |-> parent]
                 ELSE [class |-> "SHADOW", mid |-> NoApi]
        BY DEF Classify, parent
    <2> QED BY <2>1, <2>2, <2>3 DEF Verdict, Consistent
<1>2. V \in [Discovered -> Verdict]
    <2>1. V = [d \in Discovered |-> V[d]]
        BY DEF Classify
    <2> QED BY <1>1, <2>1
<1> QED BY <1>1, <1>2 DEF Unmanaged

-----------------------------------------------------------------------------
(***************************************************************************)
(* The statements on adc_unmanaged_apis keep the table well formed: every  *)
(* row is typed and is DRIFT exactly when it has a parent.                 *)
(***************************************************************************)
TableOK(t) == t \in [Discovered -> Row] /\ \A d \in Discovered : Consistent(t[d])

\* Every row has the fields of Row.
LEMMA RowFields ==
    ASSUME NEW r \in Row
    PROVE  /\ r.status \in Statuses \cup {"NONE"}
           /\ r.class \in {"SHADOW", "DRIFT"}
           /\ r.mid \in Api \cup {NoApi}
           /\ r.cid \in CatalogId \cup {NoId}
           /\ r.spec \in Spec0
BY DEF Row

\* SetStatus (MarkResolved, MarkStale, MarkPushedSkipped) keeps the table well formed.
LEMMA SetStatusType ==
    ASSUME NEW t, TableOK(t), NEW S, NEW s \in Statuses
    PROVE  TableOK(SetStatus(t, S, s))
<1> DEFINE u == SetStatus(t, S, s)
<1>1. ASSUME NEW d \in Discovered
      PROVE  u[d] \in Row /\ Consistent(u[d])
    <2>1. u[d] = IF d \in S THEN [t[d] EXCEPT !.status = s] ELSE t[d]
        BY DEF SetStatus
    <2>2. t[d] \in Row /\ Consistent(t[d])
        BY DEF TableOK
    <2> QED BY <2>1, <2>2 DEF Row, Consistent
<1>2. u = [d \in Discovered |-> u[d]]
    BY DEF SetStatus
<1> QED BY <1>1, <1>2 DEF TableOK

\* The upsert writes a finding over a well-formed row.
LEMMA UpsertType ==
    ASSUME NEW t, TableOK(t), NEW d \in Discovered, NEW v \in Verdict,
           v.class \in {"SHADOW", "DRIFT"}, Consistent(v)
    PROVE  TableOK(Upsert(t, d, v))
<1>1. t[d] \in Row
    BY DEF TableOK
<1>2. NoRow \in Row
    BY DEF NoRow, Row, NoSpec, Spec0
<1>3. v.mid \in Api \cup {NoApi}
    BY DEF Verdict
<1>4. PICK new \in Row : Upsert(t, d, v) = [t EXCEPT ![d] = [new EXCEPT !.class = v.class, !.mid = v.mid]]
    <2> DEFINE back == t[d].class # v.class \/ t[d].mid # v.mid \/ t[d].status \in {"RESOLVED", "STALE"}
               new == IF t[d].status = "NONE" THEN [NoRow EXCEPT !.status = "DETECTED"]
                      ELSE [t[d] EXCEPT !.status = IF back THEN "DETECTED" ELSE @]
    <2>1. new \in Row
        BY <1>1, <1>2 DEF Row, Statuses
    <2> QED BY <2>1 DEF Upsert
<1>5. [new EXCEPT !.class = v.class, !.mid = v.mid] \in Row
    BY <1>3 DEF Row
<1>6. Consistent([new EXCEPT !.class = v.class, !.mid = v.mid])
    BY DEF Consistent, Row
<1> QED BY <1>4, <1>5, <1>6 DEF TableOK

\* Writing a document keeps the table well formed.
LEMMA UpdateGroupSpecType ==
    ASSUME NEW t, TableOK(t), NEW g, NEW s \in Spec0
    PROVE  TableOK(UpdateGroupSpec(t, g, s))
<1> DEFINE u == UpdateGroupSpec(t, g, s)
<1>1. ASSUME NEW d \in Discovered
      PROVE  u[d] \in Row /\ Consistent(u[d])
    <2>1. u[d] = IF d \in ActiveInGroup(t, g)
                 THEN [t[d] EXCEPT !.spec = s, !.status = "SPEC_GENERATED"] ELSE t[d]
        BY DEF UpdateGroupSpec
    <2>2. t[d] \in Row /\ Consistent(t[d])
        BY DEF TableOK
    <2> QED BY <2>1, <2>2 DEF Row, Consistent, Statuses
<1>2. u = [d \in Discovered |-> u[d]]
    BY DEF UpdateGroupSpec
<1> QED BY <1>1, <1>2 DEF TableOK

\* So does recording the catalog id.
LEMMA MarkPushedType ==
    ASSUME NEW t, TableOK(t), NEW g, NEW id \in CatalogId \cup {NoId}
    PROVE  TableOK(MarkPushed(t, g, id))
<1> DEFINE u == MarkPushed(t, g, id)
<1>1. ASSUME NEW d \in Discovered
      PROVE  u[d] \in Row /\ Consistent(u[d])
    <2>1. u[d] = IF d \in ActiveInGroup(t, g)
                 THEN [t[d] EXCEPT !.status = "PUSHED", !.cid = id] ELSE t[d]
        BY DEF MarkPushed
    <2>2. t[d] \in Row /\ Consistent(t[d])
        BY DEF TableOK
    <2> QED BY <2>1, <2>2 DEF Row, Consistent, Statuses
<1>2. u = [d \in Discovered |-> u[d]]
    BY DEF MarkPushed
<1> QED BY <1>1, <1>2 DEF TableOK

\* The groups read from a well-formed table are well formed.
LEMMA GroupOfType ==
    ASSUME NEW t, TableOK(t), NEW d \in Discovered
    PROVE  GroupOf(t, d) \in Group /\ Consistent(GroupOf(t, d))
<1>1. t[d] \in Row /\ Consistent(t[d])
    BY DEF TableOK
<1> QED BY <1>1 DEF GroupOf, Group, Keys, Row, Consistent

\* In a well-formed table the WHERE clause selects exactly the rows whose group
\* it is: "managed_api_id = .. OR .. IS NULL" never takes a foreign row.
LEMMA InGroupIsGroupOf ==
    ASSUME NEW t, TableOK(t), NEW d \in Discovered, NEW g \in Group, Consistent(g)
    PROVE  InGroup(t, d, g) <=> GroupOf(t, d) = g
<1>1. t[d] \in Row /\ Consistent(t[d])
    BY DEF TableOK
<1>2. GroupOf(t, d) = g <=> ServiceKey[d] = g.key /\ t[d].class = g.class /\ t[d].mid = g.mid
    BY DEF GroupOf, Group
<1> QED BY <1>1, <1>2 DEF InGroup, Consistent, Row, Group

-----------------------------------------------------------------------------
(***************************************************************************)
(* The invariant on types.  TypeOK is not inductive by itself: an upsert   *)
(* writes what the verdict says, and a group read from the table is used   *)
(* later to select rows, so all of these must be consistent; and no        *)
(* verdict may be left to upsert once verdict is cleared.                  *)
(***************************************************************************)
Consistency ==
    /\ \A d \in Discovered : Consistent(table[d])
    /\ \A d \in Unmanaged(verdict) : Consistent(verdict[d])
    /\ \A j \in todo : Consistent(j.group)
    /\ Consistent(cur.group)

PendingDone == phase # "upsert" => pending = {}

TypeInv == TypeOK /\ PendingDone /\ Consistency

\* The initial states are well typed.
LEMMA InitTypeInv == Init => TypeInv
<1> SUFFICES ASSUME Init PROVE TypeInv
    OBVIOUS
<1> USE DEF Init
<1>1. table \in [Discovered -> Row] /\ \A d \in Discovered : Consistent(table[d])
    BY DEF NoRow, Row, NoSpec, Spec0, Consistent
<1>2. verdict \in [Discovered -> Verdict] /\ Unmanaged(verdict) = {}
    BY DEF NoVerdict, Verdict, Unmanaged
<1>3. catalog \in [CatalogId -> Entry]
    BY DEF Absent, Entry, NoSpec, Spec0
<1>4. Consistent(cur.group)
    BY DEF NoJob, Consistent
<1>5. traffic \in [Discovered -> Traffic] /\ phase \in Phases
    BY DEF Traffic, Phases
<1>6. TypeOK
    BY <1>1, <1>2, <1>3, <1>5 DEF TypeOK
<1> QED BY <1>1, <1>2, <1>4, <1>6 DEF TypeInv, PendingDone, Consistency

\* A fault or an edit leaves its counter a number.
LEMMA CounterTypes ==
    ASSUME faults \in Nat, edits \in Nat
    PROVE  /\ \A k : Fault(k) => faults' \in Nat
           /\ \A k : Edit(k) => edits' \in Nat
           /\ NoFault => faults' \in Nat
BY DEF Fault, Edit, NoFault

\* An id that is free is an id.
LEMMA FreeIdType == FreeIds # {} => First(FreeIds) \in FreeIds
BY FirstIsElement, CatalogIdAssumption DEF FreeIds

\* The environment keeps the types.
LEMMA EnvironmentTypeInv == TypeInv /\ Environment => TypeInv'
<1> SUFFICES ASSUME TypeInv, Environment PROVE TypeInv'
    OBVIOUS
<1> USE CounterTypes DEF TypeInv, TypeOK
<1>1. ASSUME NEW d \in Discovered, Discover(d) PROVE TypeInv'
    BY <1>1 DEF Discover, phase3, work, Traffic, PendingDone, Consistency
<1>2. ASSUME NEW d \in Discovered, GoQuiet(d) PROVE TypeInv'
    BY <1>2 DEF GoQuiet, phase3, work, Traffic, PendingDone, Consistency
<1>3. ASSUME NEW d \in Discovered, Dismiss(d) PROVE TypeInv'
    <2>1. table'[d] = [table[d] EXCEPT !.status = "DISMISSED"]
        BY <1>3 DEF Dismiss
    <2>2. table[d] \in Row /\ Consistent(table[d])
        BY DEF Consistency
    <2>3. table'[d] \in Row /\ Consistent(table'[d])
        BY <2>1, <2>2 DEF Row, Statuses, Consistent
    <2>4. table' \in [Discovered -> Row] /\ \A c \in Discovered : c # d => table'[c] = table[c]
        BY <1>3, <2>1, <2>3 DEF Dismiss
    <2>5. Consistency'
        BY <1>3, <2>3, <2>4 DEF Dismiss, Consistency, work, phase3
    <2> QED BY <1>3, <2>4, <2>5 DEF Dismiss, phase3, work, PendingDone
<1>4. ASSUME SyncManaged PROVE TypeInv'
    BY <1>4 DEF SyncManaged, phase3, work, PendingDone, Consistency
<1>5. ASSUME NEW id \in CatalogId, OperatorDelete(id) PROVE TypeInv'
    <2>1. Absent \in Entry
        BY DEF Absent, Entry, NoSpec, Spec0
    <2> QED BY <1>5, <2>1 DEF OperatorDelete, phase3, work, PendingDone, Consistency
<1>6. ASSUME NEW name \in Names, ForeignCreate(name) PROVE TypeInv'
    <2>1. [Absent EXCEPT !.name = name] \in Entry
        BY DEF Absent, Entry, NoSpec, Spec0
    <2>2. catalog' \in [CatalogId -> Entry]
        BY <1>6, <2>1 DEF ForeignCreate
    <2> QED BY <1>6, <2>2 DEF ForeignCreate, phase3, work, PendingDone, Consistency
<1> QED BY <1>1, <1>2, <1>3, <1>4, <1>5, <1>6 DEF Environment

\* Phase 3 keeps the types.
LEMMA CompareTypeInv == TypeInv /\ Compare => TypeInv'
<1> SUFFICES ASSUME TypeInv, Compare PROVE TypeInv'
    OBVIOUS
<1> USE CounterTypes DEF TypeInv, TypeOK
<1>0. TableOK(table)
    BY DEF TableOK, Consistency
<1>1. ASSUME BeginComparison PROVE TypeInv'
    <2>1. verdict' \in [Discovered -> Verdict] /\ \A d \in Unmanaged(verdict') : Consistent(verdict'[d])
        BY <1>1, ClassifyType DEF BeginComparison, Verdicts
    <2> QED BY <1>1, <2>1 DEF BeginComparison, world, work, Phases, PendingDone, Consistency
<1>2. ASSUME SkipComparison PROVE TypeInv'
    BY <1>2 DEF SkipComparison, world, phase3, work, Phases, PendingDone, Consistency
<1>3. ASSUME NothingToUpsert PROVE TypeInv'
    BY <1>3 DEF NothingToUpsert, world, phase3, work, Phases, PendingDone, Consistency
<1>4. ASSUME NEW d \in Discovered, UpsertFinding(d) PROVE TypeInv'
    <2>1. verdict[d] \in Verdict /\ verdict[d].class \in {"SHADOW", "DRIFT"} /\ Consistent(verdict[d])
        BY <1>4 DEF UpsertFinding, Unmanaged, Consistency
    <2>2. TableOK(table')
        <3>1. TableOK(Upsert(table, d, verdict[d]))
            BY <1>0, <2>1, UpsertType
        <3> QED BY <1>0, <1>4, <3>1 DEF UpsertFinding
    <2>3. confirmed' \subseteq Discovered /\ faults' \in Nat
        BY <1>4 DEF UpsertFinding
    <2>4. /\ UNCHANGED <<world, verdict, work, catalog>>
          /\ pending' \subseteq Unmanaged(verdict)
          /\ phase' \in {"upsert", "resolve"} /\ (phase' # "upsert" => pending' = {})
        BY <1>4 DEF UpsertFinding
    <2> QED BY <2>2, <2>3, <2>4 DEF world, work, Phases, PendingDone, Consistency, TableOK
<1>5. ASSUME ResolveFindings PROVE TypeInv'
    <2>1. TableOK(table')
        BY <1>0, <1>5, SetStatusType DEF ResolveFindings, MarkResolved, Statuses
    <2>2. faults' \in Nat
        BY <1>5 DEF ResolveFindings
    <2> QED BY <1>5, <2>1, <2>2 DEF ResolveFindings, world, phase3, work, Phases,
                                    PendingDone, Consistency, TableOK
<1>6. ASSUME ExpireFindings PROVE TypeInv'
    <2>1. TableOK(table')
        BY <1>0, <1>6, SetStatusType DEF ExpireFindings, MarkStale, Statuses
    <2>2. faults' \in Nat
        BY <1>6 DEF ExpireFindings
    <2>3. verdict' \in [Discovered -> Verdict] /\ Unmanaged(verdict') = {}
        BY <1>6 DEF ExpireFindings, NoVerdict, Verdict, Unmanaged
    <2>4. pending' = {}
        BY <1>6 DEF ExpireFindings, PendingDone
    <2> QED BY <1>6, <2>1, <2>2, <2>3, <2>4 DEF ExpireFindings, world, work, Phases,
                                    PendingDone, Consistency, TableOK
<1> QED BY <1>1, <1>2, <1>3, <1>4, <1>5, <1>6 DEF Compare

\* Phase 4 keeps the types.
LEMMA GenerateTypeInv == TypeInv /\ Generate => TypeInv'
<1> SUFFICES ASSUME TypeInv, Generate PROVE TypeInv'
    OBVIOUS
<1> USE CounterTypes DEF TypeInv, TypeOK
<1>0. TableOK(table)
    BY DEF TableOK, Consistency
<1>1. ASSUME ListDetectedGroups PROVE TypeInv'
    <2>1. ASSUME NEW g \in GetDetectedGroups(table)
          PROVE  JobOf(g) \in Job /\ Consistent(JobOf(g).group)
        <3>1. g \in Group /\ Consistent(g)
            BY <1>0, GroupOfType DEF GetDetectedGroups, WithStatus
        <3>2. JobOf(g) = [group |-> g, cid |-> NoId, spec |-> NoSpec]
            BY DEF JobOf, NoJob
        <3> QED BY <3>1, <3>2 DEF Job, NoSpec, Spec0
    <2>2. todo' \subseteq Job /\ \A j \in todo' : Consistent(j.group)
        BY <1>1, <2>1 DEF ListDetectedGroups, Consistency
    <2> QED BY <1>1, <2>2 DEF ListDetectedGroups, world, phase3, Phases, PendingDone, Consistency
<1>2. ASSUME NEW j \in todo, FetchGroup(j) PROVE TypeInv'
    <2> DEFINE ops == GetGroupOperations(table, j.group)
               new == [j EXCEPT !.spec = [ops |-> ops, parent |-> j.group.mid]]
    <2>1. new \in Job /\ new.group = j.group
        BY DEF Job, Spec0, Group, GetGroupOperations, ActiveInGroup
    <2>2. \/ cur' = new /\ phase' = "write"
          \/ UNCHANGED <<phase, cur>>
        BY <1>2 DEF FetchGroup
    <2>3. phase = "fetch" /\ todo' \subseteq todo /\ faults' \in Nat
        BY <1>2 DEF FetchGroup
    <2>4. UNCHANGED <<world, table, phase3, catalog>>
        BY <1>2 DEF FetchGroup
    <2> HIDE DEF new
    <2>5. cur' \in Job \cup {NoJob} /\ Consistent(cur'.group) /\ phase' \in {"fetch", "write"}
        BY <2>1, <2>2, <2>3 DEF Consistency
    <2> QED BY <2>1, <2>2, <2>3, <2>4, <2>5 DEF world, phase3, Phases, PendingDone, Consistency
<1>3. ASSUME PersistSpec PROVE TypeInv'
    <2>1. TableOK(table')
        <3>1. cur.spec \in Spec0
            BY <1>3 DEF PersistSpec, Job
        <3> QED BY <1>0, <1>3, <3>1, UpdateGroupSpecType DEF PersistSpec
    <2>2. faults' \in Nat
        BY <1>3 DEF PersistSpec
    <2>3. Consistent(cur'.group)
        BY <1>3 DEF PersistSpec, NoJob, Consistent
    <2> QED BY <1>3, <2>1, <2>2, <2>3 DEF PersistSpec, world, phase3, Phases,
                                    PendingDone, Consistency, TableOK
<1>4. ASSUME FinishSpecGen PROVE TypeInv'
    BY <1>4 DEF FinishSpecGen, world, phase3, work, Phases, PendingDone, Consistency
<1> QED BY <1>1, <1>2, <1>3, <1>4 DEF Generate

\* Phase 5 keeps the types.
LEMMA PushTypeInv == TypeInv /\ Push => TypeInv'
<1> SUFFICES ASSUME TypeInv, Push PROVE TypeInv'
    OBVIOUS
<1> USE CounterTypes, CatalogIdAssumption DEF TypeInv, TypeOK
<1>0. TableOK(table)
    BY DEF TableOK, Consistency
<1>a. Consistent(NoJob.group)
    BY DEF NoJob, Consistent
<1>b. ASSUME NEW j \in Job PROVE Published(j) \in Entry
    <2>1. j.group \in Group /\ j.spec \in Spec0
        BY DEF Job
    <2>2. CatalogName(j) \in Names
        BY <2>1, PipelineAssumption DEF CatalogName, Group, Spec0
    <2> QED BY <2>1, <2>2 DEF Published, Entry
<1>c. Absent \in Entry
    BY DEF Absent, Entry, NoSpec, Spec0
<1>d. ASSUME cur \in Job, NEW id \in CatalogId, cur' = [cur EXCEPT !.cid = id]
      PROVE  cur' \in Job /\ cur'.cid # NoId /\ Consistent(cur'.group)
    BY <1>d DEF Job, NoId, Consistency
<1>1. ASSUME ListGeneratedGroups PROVE TypeInv'
    <2> DEFINE groups == {g \in GetSpecGeneratedGroups(table) : g.class \in PushClasses}
    <2>1. ASSUME NEW g \in groups, NEW d \in Discovered
          PROVE  /\ [group |-> g, cid |-> table[d].cid, spec |-> table[d].spec] \in Job
                 /\ Consistent(g)
        <3>1. g \in Group /\ Consistent(g)
            BY <1>0, GroupOfType DEF GetSpecGeneratedGroups, Pushable, WithStatus
        <3>2. table[d].cid \in CatalogId \cup {NoId} /\ table[d].spec \in Spec0
            BY RowFields
        <3> QED BY <3>1, <3>2 DEF Job
    <2>2. todo' \subseteq Job /\ \A j \in todo' : Consistent(j.group)
        <3>1. CASE UNCHANGED todo
            BY <3>1 DEF Consistency
        <3>2. ASSUME NEW pick \in [groups -> Discovered],
                     todo' = {[group |-> g, cid |-> table[pick[g]].cid,
                               spec |-> table[pick[g]].spec] : g \in groups}
              PROVE  todo' \subseteq Job /\ \A j \in todo' : Consistent(j.group)
            <4> SUFFICES ASSUME NEW j \in todo' PROVE j \in Job /\ Consistent(j.group)
                OBVIOUS
            <4>1. PICK g \in groups : j = [group |-> g, cid |-> table[pick[g]].cid,
                                           spec |-> table[pick[g]].spec]
                BY <3>2
            <4>2. pick[g] \in Discovered
                OBVIOUS
            <4> HIDE DEF groups
            <4> QED BY <2>1, <4>1, <4>2
        <3> QED BY <1>1, <3>1, <3>2 DEF ListGeneratedGroups
    <2>3. phase' \in {"push", "idle"} /\ faults' \in Nat
        BY <1>1 DEF ListGeneratedGroups
    <2>4. phase = "list" /\ UNCHANGED <<world, table, phase3, cur, catalog>>
        BY <1>1 DEF ListGeneratedGroups
    <2> QED BY <2>2, <2>3, <2>4 DEF world, phase3, Phases, PendingDone, Consistency
<1>2. ASSUME NEW j \in todo, PushGroup(j) PROVE TypeInv'
    BY <1>2 DEF PushGroup, world, phase3, Phases, PendingDone, Consistency
<1>3. ASSUME FinishPush PROVE TypeInv'
    BY <1>3 DEF FinishPush, world, phase3, work, Phases, PendingDone, Consistency
<1>4. ASSUME GetService PROVE TypeInv'
    <2>1. phase = "get" /\ phase' \in {"put", "post", "skip"} /\ faults' \in Nat
        BY <1>4 DEF GetService
    <2>2. cur' \in Job
        BY <1>4 DEF GetService, work
    <2>3. phase' \in {"put"} => cur'.cid # NoId
        BY <1>4 DEF GetService, work
    <2> QED BY <1>4, <2>1, <2>2, <2>3 DEF GetService, world, phase3, work, Phases, PendingDone, Consistency
<1>5. ASSUME UpdateService PROVE TypeInv'
    <2>1. cur \in Job /\ cur.cid \in CatalogId
        BY <1>5 DEF UpdateService, Job
    <2>2. catalog' \in [CatalogId -> Entry]
        BY <1>5, <1>b, <2>1 DEF UpdateService
    <2>3. \/ phase' \in {"mark", "delete"} /\ UNCHANGED cur
          \/ phase' = "push" /\ cur' = NoJob
        BY <1>5 DEF UpdateService, NextGroup
    <2>4. faults' \in Nat
        BY <1>5 DEF UpdateService
    <2>5. UNCHANGED <<world, table, phase3, todo>> /\ phase = "put"
        BY <1>5 DEF UpdateService
    <2> QED BY <1>a, <2>1, <2>2, <2>3, <2>4, <2>5 DEF world, phase3, Phases, PendingDone, Consistency
<1>6. ASSUME DeleteService PROVE TypeInv'
    <2>1. cur \in Job /\ cur.cid \in CatalogId
        BY <1>6 DEF DeleteService, Job
    <2>2. catalog' \in [CatalogId -> Entry]
        BY <1>6, <1>c, <2>1 DEF DeleteService
    <2>3. \/ phase' = "post" /\ UNCHANGED cur
          \/ phase' = "push" /\ cur' = NoJob
        BY <1>6 DEF DeleteService, NextGroup
    <2>4. faults' \in Nat
        BY <1>6 DEF DeleteService
    <2>5. UNCHANGED <<world, table, phase3, todo>> /\ phase = "delete"
        BY <1>6 DEF DeleteService
    <2> QED BY <1>a, <2>1, <2>2, <2>3, <2>4, <2>5 DEF world, phase3, Phases, PendingDone, Consistency
<1>7. ASSUME CreateService PROVE TypeInv'
    <2> DEFINE id == First(FreeIds)
    <2>1. cur \in Job /\ (FreeIds # {} => id \in CatalogId)
        BY <1>7, FreeIdType DEF CreateService, FreeIds
    <2>2. catalog' \in [CatalogId -> Entry]
        BY <1>7, <1>b, <2>1 DEF CreateService
    <2>3. \/ phase' = "mark" /\ FreeIds # {} /\ cur' = [cur EXCEPT !.cid = id]
          \/ phase' = "search" /\ UNCHANGED cur
          \/ phase' = "push" /\ cur' = NoJob
        BY <1>7 DEF CreateService, NextGroup
    <2>4. faults' \in Nat
        BY <1>7 DEF CreateService
    <2>5. UNCHANGED <<world, table, phase3, todo>> /\ phase = "post"
        BY <1>7 DEF CreateService
    <2>6. cur' \in Job \cup {NoJob} /\ Consistent(cur'.group)
          /\ (phase' # "push" => cur' \in Job) /\ (phase' = "mark" => cur'.cid # NoId)
          /\ phase' \in {"mark", "search", "push"}
        <3>1. CASE phase' = "mark" /\ FreeIds # {} /\ cur' = [cur EXCEPT !.cid = id]
            BY <1>d, <2>1, <3>1
        <3> QED BY <1>a, <2>1, <2>3, <3>1 DEF Consistency
    <2> QED BY <2>2, <2>4, <2>5, <2>6 DEF world, phase3, Phases, PendingDone, Consistency
<1>8. ASSUME SearchByName PROVE TypeInv'
    <2>1. cur \in Job /\ UNCHANGED <<world, table, phase3, todo, catalog>> /\ phase = "search"
        BY <1>8 DEF SearchByName
    <2>2. faults' \in Nat
        BY <1>8 DEF SearchByName
    <2>3. \/ phase' = "put" /\ \E id \in CatalogId : cur' = [cur EXCEPT !.cid = id]
          \/ phase' = "push" /\ cur' = NoJob
        BY <1>8 DEF SearchByName, NextGroup
    <2>4. cur' \in Job \cup {NoJob} /\ Consistent(cur'.group)
          /\ (phase' # "push" => cur' \in Job /\ cur'.cid # NoId) /\ phase' \in {"put", "push"}
        BY <1>a, <1>d, <2>1, <2>3
    <2> QED BY <2>1, <2>2, <2>4 DEF world, phase3, Phases, PendingDone, Consistency
<1>9. ASSUME MarkGroupPushed PROVE TypeInv'
    <2>1. TableOK(table')
        <3>1. cur.cid \in CatalogId \cup {NoId}
            BY <1>9 DEF MarkGroupPushed, Job
        <3>2. TableOK(MarkPushed(table, cur.group, cur.cid))
            BY <1>0, <3>1, MarkPushedType
        <3>3. table' = MarkPushed(table, cur.group, cur.cid) \/ table' = table
            BY <1>9 DEF MarkGroupPushed
        <3> QED BY <1>0, <3>2, <3>3
    <2>2. faults' \in Nat
        BY <1>9 DEF MarkGroupPushed
    <2> QED BY <1>9, <1>a, <2>1, <2>2 DEF MarkGroupPushed, NextGroup, world, phase3, Phases,
                                    PendingDone, Consistency, TableOK
<1>10. ASSUME MarkGroupSkipped PROVE TypeInv'
    <2>1. TableOK(table')
        BY <1>0, <1>10, SetStatusType DEF MarkGroupSkipped, MarkPushedSkipped, Statuses
    <2>2. faults' \in Nat
        BY <1>10 DEF MarkGroupSkipped
    <2> QED BY <1>10, <1>a, <2>1, <2>2 DEF MarkGroupSkipped, NextGroup, world, phase3, Phases,
                                    PendingDone, Consistency, TableOK
<1> QED BY <1>1, <1>2, <1>3, <1>4, <1>5, <1>6, <1>7, <1>8, <1>9, <1>10 DEF Push

\* A crash keeps the types.
LEMMA CrashTypeInv == TypeInv /\ Crash => TypeInv'
<1> SUFFICES ASSUME TypeInv, Crash PROVE TypeInv'
    OBVIOUS
<1>1. verdict' \in [Discovered -> Verdict] /\ Unmanaged(verdict') = {}
    BY DEF Crash, NoVerdict, Verdict, Unmanaged
<1>2. Consistent(cur'.group)
    BY DEF Crash, NoJob, Consistent
<1> QED BY <1>1, <1>2, CounterTypes
        DEF Crash, TypeInv, TypeOK, Phases, PendingDone, Consistency, world

\* Every step keeps the types.
LEMMA NextTypeInv == TypeInv /\ [Next]_vars => TypeInv'
<1>1. TypeInv /\ UNCHANGED vars => TypeInv'
    BY DEF vars, TypeInv, TypeOK, PendingDone, Consistency
<1> QED BY <1>1, EnvironmentTypeInv, CompareTypeInv, GenerateTypeInv, PushTypeInv, CrashTypeInv
        DEF Next, Engine

\* The types, and with them the shape of every row, group and document, hold in
\* every state.
THEOREM TypeInvHolds == Spec => []TypeInv
BY InitTypeInv, NextTypeInv, PTL DEF Spec

\* The type invariant the runs check is the first half of TypeInv.
THEOREM TypeCorrect == Spec => []TypeOK
BY TypeInvHolds, PTL DEF TypeInv

-----------------------------------------------------------------------------
(***************************************************************************)
(* The invariant on documents.  Phase 4 reads a group, assembles its       *)
(* document and writes it later; phase 5 reads documents and reports them  *)
(* pushed later.  What makes both safe is that in between no row joins a   *)
(* group or changes its document: only dismissals happen, which take rows  *)
(* out.                                                                    *)
(***************************************************************************)
JobPhases == {"get", "put", "delete", "post", "search", "mark", "skip"}

\* Every waiting row of j's group carries the document that j works with.
Agrees(t, j) ==
    \A d \in WithStatus(t, "SPEC_GENERATED") : GroupOf(t, d) = j.group => t[d].spec = j.spec

Covers(t, j) == ActiveInGroup(t, j.group) \subseteq j.spec.ops /\ j.spec.parent = j.group.mid

WriteCovers == phase = "write" => Covers(table, cur)

JobsAgree ==
    /\ phase \in JobPhases \cup {"push"} => \A j \in todo : Agrees(table, j)
    /\ phase \in JobPhases => Agrees(table, cur)

\* The entry that is about to be recorded is the one that was sent.
MarkedIsPublished ==
    phase = "mark" /\ Exists(cur.cid) => catalog[cur.cid] = Published(cur)

DocumentInv == SpecCoversRow /\ SpecAgreement /\ WriteCovers /\ JobsAgree /\ MarkedIsPublished

\* All the statements but UpdateGroupSpec only let rows leave SPEC_GENERATED.
KeepsDocuments(t, u) == \A d \in Discovered : u[d].status = "SPEC_GENERATED" => u[d] = t[d]

\* So do MarkResolved and MarkStale, which write neither column and make no row
\* SPEC_GENERATED.
LEMMA SetStatusKeepsDocuments ==
    ASSUME NEW t, TableOK(t), NEW S, NEW s \in Statuses \ {"SPEC_GENERATED"}
    PROVE  KeepsDocuments(t, SetStatus(t, S, s))
<1> SUFFICES ASSUME NEW d \in Discovered, SetStatus(t, S, s)[d].status = "SPEC_GENERATED"
             PROVE  SetStatus(t, S, s)[d] = t[d]
    BY DEF KeepsDocuments
<1>1. SetStatus(t, S, s)[d] = IF d \in S THEN [t[d] EXCEPT !.status = s] ELSE t[d]
    BY DEF SetStatus
<1>2. t[d] \in Row
    BY DEF TableOK
<1> QED BY <1>1, <1>2 DEF Row

\* An upsert that leaves a row SPEC_GENERATED has changed nothing of it.
LEMMA UpsertKeepsDocuments ==
    ASSUME NEW t, TableOK(t), NEW d \in Discovered, NEW v \in Verdict
    PROVE  KeepsDocuments(t, Upsert(t, d, v))
<1> DEFINE u == Upsert(t, d, v)
<1>1. ASSUME NEW c \in Discovered, c # d PROVE u[c] = t[c]
    BY <1>1 DEF Upsert, TableOK
<1>2. ASSUME u[d].status = "SPEC_GENERATED" PROVE u[d] = t[d]
    <2> DEFINE back == t[d].class # v.class \/ t[d].mid # v.mid \/ t[d].status \in {"RESOLVED", "STALE"}
               new == IF t[d].status = "NONE" THEN [NoRow EXCEPT !.status = "DETECTED"]
                      ELSE [t[d] EXCEPT !.status = IF back THEN "DETECTED" ELSE @]
    <2>1. t[d] \in Row
        BY DEF TableOK
    <2>2. new \in Row
        BY <2>1 DEF Row, NoRow, NoSpec, Spec0, Statuses
    <2>3. u[d] = [new EXCEPT !.class = v.class, !.mid = v.mid]
        BY DEF Upsert, TableOK
    <2>4. u[d].status = new.status
        BY <2>2, <2>3 DEF Row
    <2>5. new.status = "SPEC_GENERATED" /\ t[d].status # "NONE" /\ ~back
        BY <1>2, <2>1, <2>4 DEF NoRow, Row
    <2>6. new = t[d] /\ t[d].class = v.class /\ t[d].mid = v.mid
        BY <2>1, <2>5 DEF Row
    <2>7. \A r \in Row : [r EXCEPT !.class = r.class, !.mid = r.mid] = r
        BY DEF Row
    <2> HIDE DEF new
    <2>8. u[d] = [t[d] EXCEPT !.class = t[d].class, !.mid = t[d].mid]
        BY <2>3, <2>6
    <2> QED BY <2>1, <2>7, <2>8
<1> QED BY <1>1, <1>2 DEF KeepsDocuments

\* So do MarkPushed and MarkPushedSkipped: their rows stop waiting.
LEMMA MarkPushedKeepsDocuments ==
    ASSUME NEW t, TableOK(t), NEW g, NEW id
    PROVE  KeepsDocuments(t, MarkPushed(t, g, id))
<1> SUFFICES ASSUME NEW d \in Discovered, MarkPushed(t, g, id)[d].status = "SPEC_GENERATED"
             PROVE  MarkPushed(t, g, id)[d] = t[d]
    BY DEF KeepsDocuments
<1>1. MarkPushed(t, g, id)[d] = IF d \in ActiveInGroup(t, g)
                                THEN [t[d] EXCEPT !.status = "PUSHED", !.cid = id] ELSE t[d]
    BY DEF MarkPushed
<1>2. t[d] \in Row
    BY DEF TableOK
<1> QED BY <1>1, <1>2 DEF Row

\* Rows that stay SPEC_GENERATED keep their agreements.
LEMMA KeptDocumentsAgree ==
    ASSUME KeepsDocuments(table, table')
    PROVE  /\ SpecCoversRow => SpecCoversRow'
           /\ SpecAgreement => SpecAgreement'
           /\ \A j : Agrees(table, j) => Agrees(table', j)
<1>1. \A d \in WithStatus(table', "SPEC_GENERATED") :
          /\ d \in WithStatus(table, "SPEC_GENERATED")
          /\ table'[d] = table[d] /\ GroupOf(table', d) = GroupOf(table, d)
    BY DEF KeepsDocuments, WithStatus, GroupOf
<1>2. SpecCoversRow => SpecCoversRow'
    BY <1>1 DEF SpecCoversRow
<1>3. SpecAgreement => SpecAgreement'
    BY <1>1 DEF SpecAgreement
<1>4. \A j : Agrees(table, j) => Agrees(table', j)
    BY <1>1 DEF Agrees
<1> QED BY <1>2, <1>3, <1>4

\* Every step but PersistSpec keeps the documents.
LEMMA OthersKeepDocuments ==
    TypeInv /\ [Next]_vars /\ ~PersistSpec => KeepsDocuments(table, table')
<1> SUFFICES ASSUME TypeInv, [Next]_vars, ~PersistSpec PROVE KeepsDocuments(table, table')
    OBVIOUS
<1>0. TableOK(table)
    BY DEF TypeInv, TypeOK, TableOK, Consistency
<1>1. CASE UNCHANGED table
    BY <1>1 DEF KeepsDocuments
<1>2. ASSUME NEW d \in Discovered, Dismiss(d) PROVE KeepsDocuments(table, table')
    <2>1. table' = [table EXCEPT ![d] = [table[d] EXCEPT !.status = "DISMISSED"]]
        BY <1>2 DEF Dismiss
    <2>2. table'[d].status = "DISMISSED"
        BY <1>0, <2>1 DEF TableOK, Row
    <2>3. \A c \in Discovered : c # d => table'[c] = table[c]
        BY <1>0, <2>1 DEF TableOK
    <2> QED BY <2>2, <2>3 DEF KeepsDocuments
<1>3. ASSUME NEW d \in Discovered, UpsertFinding(d) PROVE KeepsDocuments(table, table')
    <2>1. verdict[d] \in Verdict
        BY DEF TypeInv, TypeOK
    <2>2. KeepsDocuments(table, Upsert(table, d, verdict[d]))
        BY <1>0, <2>1, UpsertKeepsDocuments
    <2>3. table' = Upsert(table, d, verdict[d]) \/ table' = table
        BY <1>3 DEF UpsertFinding
    <2> QED BY <1>1, <2>2, <2>3
<1>4. CASE ResolveFindings
    <2>1. KeepsDocuments(table, MarkResolved(table, confirmed))
        BY <1>0, SetStatusKeepsDocuments DEF MarkResolved, Statuses
    <2> QED BY <1>1, <1>4, <2>1 DEF ResolveFindings
<1>5. CASE ExpireFindings
    <2>1. KeepsDocuments(table, MarkStale(table, Quiet))
        BY <1>0, SetStatusKeepsDocuments DEF MarkStale, Statuses
    <2> QED BY <1>1, <1>5, <2>1 DEF ExpireFindings
<1>6. CASE MarkGroupPushed
    <2>1. KeepsDocuments(table, MarkPushed(table, cur.group, cur.cid))
        BY <1>0, MarkPushedKeepsDocuments
    <2> QED BY <1>1, <1>6, <2>1 DEF MarkGroupPushed
<1>7. CASE MarkGroupSkipped
    <2>1. KeepsDocuments(table, MarkPushedSkipped(table, cur.group))
        BY <1>0, SetStatusKeepsDocuments DEF MarkPushedSkipped, Statuses
    <2> QED BY <1>1, <1>7, <2>1 DEF MarkGroupSkipped
<1>8. \/ UNCHANGED table
      \/ \E d \in Discovered : Dismiss(d) \/ UpsertFinding(d)
      \/ ResolveFindings \/ ExpireFindings \/ MarkGroupPushed \/ MarkGroupSkipped
    <2>1. Environment => UNCHANGED table \/ \E d \in Discovered : Dismiss(d)
        BY DEF Environment, Discover, GoQuiet, SyncManaged, OperatorDelete, ForeignCreate
    <2>2. Compare => \/ UNCHANGED table \/ \E d \in Discovered : UpsertFinding(d)
                     \/ ResolveFindings \/ ExpireFindings
        BY DEF Compare, BeginComparison, SkipComparison, NothingToUpsert
    <2>3. Generate => UNCHANGED table
        BY DEF Generate, ListDetectedGroups, FetchGroup, FinishSpecGen
    <2>4. Push => UNCHANGED table \/ MarkGroupPushed \/ MarkGroupSkipped
        BY DEF Push, ListGeneratedGroups, PushGroup, FinishPush, GetService, UpdateService,
               DeleteService, CreateService, SearchByName
    <2>5. Crash => UNCHANGED table
        BY DEF Crash
    <2>6. UNCHANGED vars => UNCHANGED table
        BY DEF vars
    <2> QED BY <2>1, <2>2, <2>3, <2>4, <2>5, <2>6 DEF Next, Engine
<1> QED BY <1>1, <1>2, <1>3, <1>4, <1>5, <1>6, <1>7, <1>8

\* PersistSpec: the rows that get the document are the group's active rows, and
\* the document was assembled from at least these.
LEMMA PersistSpecDocuments ==
    TypeInv /\ DocumentInv /\ PersistSpec => SpecCoversRow' /\ SpecAgreement'
<1> SUFFICES ASSUME TypeInv, DocumentInv, PersistSpec PROVE SpecCoversRow' /\ SpecAgreement'
    OBVIOUS
<1> DEFINE A == ActiveInGroup(table, cur.group)
<1>0. TableOK(table)
    BY DEF TypeInv, TypeOK, TableOK, Consistency
<1>1. cur \in Job /\ cur.group \in Group /\ cur.spec \in Spec0 /\ Consistent(cur.group)
    BY DEF PersistSpec, TypeInv, TypeOK, Consistency, Job
<1>2. Covers(table, cur)
    BY DEF DocumentInv, WriteCovers, PersistSpec
<1>3. CASE UNCHANGED table
    BY <1>3 DEF DocumentInv, SpecCoversRow, SpecAgreement, WithStatus, GroupOf
<1>4. CASE table' = UpdateGroupSpec(table, cur.group, cur.spec)
    <2>1. ASSUME NEW d \in A
          PROVE  /\ table'[d].spec = cur.spec /\ table'[d].mid = table[d].mid
                 /\ GroupOf(table', d) = GroupOf(table, d)
        <3>1. d \in Discovered /\ table[d] \in Row
            BY <1>0 DEF ActiveInGroup, TableOK
        <3>2. table'[d] = [table[d] EXCEPT !.spec = cur.spec, !.status = "SPEC_GENERATED"]
            BY <1>4, <3>1 DEF UpdateGroupSpec
        <3> QED BY <3>1, <3>2 DEF Row, GroupOf
    <2>2. ASSUME NEW d \in Discovered \ A PROVE table'[d] = table[d]
        BY <1>4 DEF UpdateGroupSpec
    <2>3. ASSUME NEW d \in Discovered
          PROVE  d \in A => GroupOf(table, d) = cur.group
        BY <1>0, <1>1, InGroupIsGroupOf DEF ActiveInGroup
    <2>4. ASSUME NEW d \in Discovered \ A, table[d].status = "SPEC_GENERATED"
          PROVE  GroupOf(table, d) # cur.group
        BY <1>0, <1>1, <2>4, InGroupIsGroupOf DEF ActiveInGroup, Active, Inactive
    <2>5. ASSUME NEW d \in WithStatus(table', "SPEC_GENERATED")
          PROVE  d \in table'[d].spec.ops /\ table'[d].spec.parent = table'[d].mid
        <3>1. CASE d \in A
            <4>1. d \in cur.spec.ops /\ cur.spec.parent = cur.group.mid
                BY <1>2, <3>1 DEF Covers
            <4>2. table[d].mid = cur.group.mid
                <5>1. GroupOf(table, d) = cur.group
                    BY <2>3, <3>1 DEF WithStatus
                <5>2. GroupOf(table, d).mid = table[d].mid
                    BY DEF GroupOf
                <5> QED BY <5>1, <5>2
            <4> QED BY <2>1, <3>1, <4>1, <4>2
        <3>2. CASE d \notin A
            BY <2>2, <3>2 DEF WithStatus, DocumentInv, SpecCoversRow
        <3> QED BY <3>1, <3>2
    <2>6. ASSUME NEW c \in WithStatus(table', "SPEC_GENERATED"),
                 NEW d \in WithStatus(table', "SPEC_GENERATED"),
                 GroupOf(table', c) = GroupOf(table', d)
          PROVE  table'[c].spec = table'[d].spec
        <3>0. c \in Discovered /\ d \in Discovered
            BY DEF WithStatus
        <3>1. CASE c \in A /\ d \in A
            BY <2>1, <3>1
        <3>2. CASE c \notin A /\ d \notin A
            <4>1. c \in WithStatus(table, "SPEC_GENERATED") /\ d \in WithStatus(table, "SPEC_GENERATED")
                BY <2>2, <3>2 DEF WithStatus
            <4>2. GroupOf(table, c) = GroupOf(table, d)
                BY <2>2, <2>6, <3>0, <3>2 DEF GroupOf
            <4> QED BY <2>2, <3>0, <3>2, <4>1, <4>2 DEF DocumentInv, SpecAgreement
        <3>3. ASSUME NEW x \in WithStatus(table', "SPEC_GENERATED"),
                     NEW y \in WithStatus(table', "SPEC_GENERATED"), x \in A, y \notin A
              PROVE  GroupOf(table', x) # GroupOf(table', y)
            <4>1. GroupOf(table', x) = cur.group
                BY <2>1, <2>3, <3>3 DEF WithStatus
            <4>2. GroupOf(table', y) = GroupOf(table, y) /\ table[y].status = "SPEC_GENERATED"
                BY <2>2, <3>3 DEF WithStatus, GroupOf
            <4> QED BY <2>4, <3>3, <4>1, <4>2 DEF WithStatus
        <3> QED BY <2>6, <3>1, <3>2, <3>3
    <2> QED BY <2>5, <2>6 DEF SpecCoversRow, SpecAgreement
<1> QED BY <1>3, <1>4 DEF PersistSpec

\* The group that phase 4 has fetched stays covered by its document until it is
\* written: only dismissals can come in between.
LEMMA NextWriteCovers == TypeInv /\ WriteCovers /\ [Next]_vars => WriteCovers'
<1> SUFFICES ASSUME TypeInv, WriteCovers, [Next]_vars, phase' = "write" PROVE Covers(table', cur')
    BY DEF WriteCovers
<1>0. TableOK(table)
    BY DEF TypeInv, TypeOK, TableOK, Consistency
<1>1. ASSUME phase = "write", UNCHANGED <<table, cur>> PROVE Covers(table', cur')
    BY <1>1 DEF WriteCovers, Covers
<1>2. ASSUME NEW d \in Discovered, Dismiss(d) PROVE Covers(table', cur')
    <2>1. phase = "write" /\ cur' = cur
        BY <1>2 DEF Dismiss, work
    <2>2. table' = [table EXCEPT ![d] = [table[d] EXCEPT !.status = "DISMISSED"]]
        BY <1>2 DEF Dismiss
    <2>3. ~Active(table'[d])
        BY <1>0, <2>2 DEF TableOK, Row, Active, Inactive
    <2>4. \A c \in Discovered : c # d => table'[c] = table[c]
        BY <1>0, <2>2 DEF TableOK
    <2>5. ActiveInGroup(table', cur.group) \subseteq ActiveInGroup(table, cur.group)
        BY <2>3, <2>4 DEF ActiveInGroup, InGroup
    <2> QED BY <2>1, <2>5 DEF WriteCovers, Covers
<1>3. ASSUME NEW j \in todo, FetchGroup(j) PROVE Covers(table', cur')
    <2>1. phase = "fetch"
        BY <1>3 DEF FetchGroup
    <2>2. /\ cur' = [j EXCEPT !.spec = [ops |-> GetGroupOperations(table, j.group), parent |-> j.group.mid]]
          /\ table' = table
        BY <1>3, <2>1 DEF FetchGroup
    <2>3. j \in Job
        BY DEF TypeInv, TypeOK
    <2>4. /\ cur'.group = j.group
          /\ cur'.spec.ops = ActiveInGroup(table, j.group) /\ cur'.spec.parent = j.group.mid
        BY <2>2, <2>3 DEF Job, GetGroupOperations
    <2> QED BY <2>2, <2>4 DEF Covers
<1>4. \/ phase = "write" /\ UNCHANGED <<table, cur>>
      \/ \E d \in Discovered : Dismiss(d)
      \/ \E j \in todo : FetchGroup(j)
    <2>1. Environment => (phase = "write" /\ UNCHANGED <<table, cur>>) \/ \E d \in Discovered : Dismiss(d)
        BY DEF Environment, Discover, GoQuiet, SyncManaged, OperatorDelete, ForeignCreate, work
    <2>2. ~Compare
        BY DEF Compare, BeginComparison, SkipComparison, NothingToUpsert, UpsertFinding,
               ResolveFindings, ExpireFindings
    <2>3. Generate => \E j \in todo : FetchGroup(j)
        BY DEF Generate, ListDetectedGroups, PersistSpec, FinishSpecGen
    <2>4. ~Push
        BY DEF Push, ListGeneratedGroups, PushGroup, FinishPush, GetService, UpdateService,
               DeleteService, CreateService, SearchByName, MarkGroupPushed, MarkGroupSkipped, NextGroup
    <2>5. ~Crash
        BY DEF Crash
    <2>6. UNCHANGED vars => phase = "write" /\ UNCHANGED <<table, cur>>
        BY DEF vars
    <2> QED BY <2>1, <2>2, <2>3, <2>4, <2>5, <2>6 DEF Next, Engine
<1> QED BY <1>1, <1>2, <1>3, <1>4

\* The groups of phase 5 agree with their rows from the moment they are read.
LEMMA NextJobsAgree ==
    TypeInv /\ SpecCoversRow /\ SpecAgreement /\ JobsAgree /\ [Next]_vars => JobsAgree'
<1> SUFFICES ASSUME TypeInv, SpecCoversRow, SpecAgreement, JobsAgree, [Next]_vars
             PROVE  JobsAgree'
    OBVIOUS
<1> DEFINE late == JobPhases \cup {"push"}
<1>0. TableOK(table)
    BY DEF TypeInv, TypeOK, TableOK, Consistency
<1>1. ASSUME phase' \in late, NEW j, Agrees(table, j) PROVE Agrees(table', j)
    <2>1. ~PersistSpec
        BY <1>1 DEF PersistSpec, JobPhases
    <2> QED BY <1>1, <2>1, OthersKeepDocuments, KeptDocumentsAgree
<1>2. CASE phase \in late
    <2>1. ASSUME phase' \in late PROVE todo' \subseteq todo
        <3>1. Environment => UNCHANGED todo
            BY DEF Environment, Discover, GoQuiet, SyncManaged, Dismiss, OperatorDelete, ForeignCreate, work
        <3>2. ~Compare /\ ~Generate
            BY <1>2 DEF Compare, BeginComparison, SkipComparison, NothingToUpsert, UpsertFinding,
                ResolveFindings, ExpireFindings, Generate, ListDetectedGroups, FetchGroup,
                PersistSpec, FinishSpecGen, JobPhases
        <3>3. Push => todo' \subseteq todo
            BY <1>2 DEF Push, ListGeneratedGroups, PushGroup, FinishPush, GetService, UpdateService,
                DeleteService, CreateService, SearchByName, MarkGroupPushed, MarkGroupSkipped, work, JobPhases
        <3>4. Crash => todo' \subseteq todo
            BY DEF Crash
        <3>5. UNCHANGED vars => UNCHANGED todo
            BY DEF vars
        <3> QED BY <3>1, <3>2, <3>3, <3>4, <3>5 DEF Next, Engine
    <2>2. ASSUME phase' \in JobPhases
          PROVE  \/ phase \in JobPhases /\ cur'.group = cur.group /\ cur'.spec = cur.spec
                 \/ cur' \in todo
        <3>1. ASSUME cur \in Job, NEW id, cur' = [cur EXCEPT !.cid = id]
              PROVE  cur'.group = cur.group /\ cur'.spec = cur.spec
            BY <3>1 DEF Job
        <3>2. phase \in JobPhases => cur \in Job
            BY DEF TypeInv, TypeOK, JobPhases
        <3>3. Environment => phase \in JobPhases /\ UNCHANGED cur
            BY <2>2 DEF Environment, Discover, GoQuiet, SyncManaged, Dismiss, OperatorDelete, ForeignCreate,
                work, JobPhases
        <3>4. ~Compare /\ ~Generate /\ ~Crash
            BY <1>2, <2>2 DEF Compare, BeginComparison, SkipComparison, NothingToUpsert, UpsertFinding,
                ResolveFindings, ExpireFindings, Generate, ListDetectedGroups, FetchGroup,
                PersistSpec, FinishSpecGen, Crash, JobPhases
        <3>5. ASSUME Push
              PROVE  \/ phase \in JobPhases /\ UNCHANGED cur
                     \/ phase \in JobPhases /\ \E id : cur' = [cur EXCEPT !.cid = id]
                     \/ cur' \in todo
            <4>1. ~ListGeneratedGroups /\ ~FinishPush /\ ~MarkGroupPushed /\ ~MarkGroupSkipped
                BY <2>2 DEF ListGeneratedGroups, FinishPush, MarkGroupPushed, MarkGroupSkipped,
                    NextGroup, JobPhases
            <4>2. ASSUME NEW j \in todo, PushGroup(j) PROVE cur' \in todo
                BY <4>2 DEF PushGroup
            <4>3. GetService \/ UpdateService \/ DeleteService => phase \in JobPhases /\ UNCHANGED cur
                BY <2>2 DEF GetService, UpdateService, DeleteService, NextGroup, work, JobPhases
            <4>4. CreateService => \/ phase \in JobPhases /\ UNCHANGED cur
                                   \/ phase \in JobPhases /\ \E id : cur' = [cur EXCEPT !.cid = id]
                BY <2>2 DEF CreateService, NextGroup, JobPhases
            <4>5. SearchByName => phase \in JobPhases /\ \E id : cur' = [cur EXCEPT !.cid = id]
                BY <2>2 DEF SearchByName, NextGroup, JobPhases
            <4> QED BY <3>5, <4>1, <4>2, <4>3, <4>4, <4>5 DEF Push
        <3>6. UNCHANGED vars => phase \in JobPhases /\ UNCHANGED cur
            BY <2>2 DEF vars
        <3> QED BY <3>1, <3>2, <3>3, <3>4, <3>5, <3>6 DEF Next, Engine
    <2>3. phase' \in late => \A j \in todo' : Agrees(table', j)
        BY <1>1, <1>2, <2>1 DEF JobsAgree
    <2>4. phase' \in JobPhases => Agrees(table', cur')
        <3> SUFFICES ASSUME phase' \in JobPhases PROVE Agrees(table', cur')
            OBVIOUS
        <3>1. CASE cur' \in todo
            BY <1>1, <1>2, <3>1 DEF JobsAgree
        <3>2. CASE phase \in JobPhases /\ cur'.group = cur.group /\ cur'.spec = cur.spec
            <4>1. Agrees(table', cur)
                BY <1>1, <3>2 DEF JobsAgree
            <4> QED BY <3>2, <4>1 DEF Agrees
        <3> QED BY <2>2, <3>1, <3>2
    <2> QED BY <2>3, <2>4 DEF JobsAgree
<1>3. CASE phase \notin late /\ phase' \in late
    <2>1. ListGeneratedGroups /\ phase' = "push"
        <3>1. ~Environment /\ ~Crash /\ ~Compare
            BY <1>3 DEF Environment, Discover, GoQuiet, SyncManaged, Dismiss, OperatorDelete, ForeignCreate, Crash,
                Compare, BeginComparison, SkipComparison, NothingToUpsert, UpsertFinding,
                ResolveFindings, ExpireFindings, JobPhases
        <3>2. ~Generate
            BY <1>3 DEF Generate, ListDetectedGroups, FetchGroup, PersistSpec, FinishSpecGen, JobPhases
        <3>3. Push => ListGeneratedGroups /\ phase' = "push"
            BY <1>3 DEF Push, ListGeneratedGroups, PushGroup, FinishPush, GetService, UpdateService,
                DeleteService, CreateService, SearchByName, MarkGroupPushed, MarkGroupSkipped, JobPhases
        <3>4. UNCHANGED vars => FALSE
            BY <1>3 DEF vars
        <3> QED BY <3>1, <3>2, <3>3, <3>4 DEF Next, Engine
    <2> DEFINE groups == {g \in GetSpecGeneratedGroups(table) : g.class \in PushClasses}
    <2>2. PICK pick \in [groups -> Discovered] :
              /\ \A g \in groups : pick[g] \in Representatives(table, g)
              /\ todo' = {[group |-> g, cid |-> table[pick[g]].cid,
                           spec |-> table[pick[g]].spec] : g \in groups}
        BY <2>1 DEF ListGeneratedGroups
    <2>3. ASSUME NEW j \in todo' PROVE Agrees(table, j)
        <3>1. PICK g \in groups : j = [group |-> g, cid |-> table[pick[g]].cid,
                                       spec |-> table[pick[g]].spec]
            BY <2>2
        <3>2. /\ pick[g] \in WithStatus(table, "SPEC_GENERATED")
              /\ GroupOf(table, pick[g]) = g
            BY <2>2 DEF Representatives, Pushable
        <3>3. j.group = g /\ j.spec = table[pick[g]].spec
            BY <3>1
        <3> QED BY <3>2, <3>3 DEF Agrees, SpecAgreement
    <2> QED BY <1>1, <1>3, <2>1, <2>3 DEF JobsAgree, JobPhases
<1> QED BY <1>2, <1>3 DEF JobsAgree

\* What is about to be recorded is what was sent, whatever users of the catalog
\* do before it is recorded.
LEMMA NextMarkedIsPublished ==
    TypeInv /\ MarkedIsPublished /\ [Next]_vars => MarkedIsPublished'
<1> SUFFICES ASSUME TypeInv, MarkedIsPublished, [Next]_vars, phase' = "mark", Exists(cur.cid)'
             PROVE  catalog'[cur'.cid] = Published(cur')
    BY DEF MarkedIsPublished, Published, CatalogName
<1> USE DEF TypeInv, TypeOK
<1>1. ASSUME phase = "mark", UNCHANGED <<catalog, cur>> PROVE catalog'[cur'.cid] = Published(cur')
    BY <1>1 DEF MarkedIsPublished, Exists, Published, CatalogName
<1>2. ASSUME NEW id \in CatalogId, OperatorDelete(id) PROVE catalog'[cur'.cid] = Published(cur')
    <2>1. phase = "mark" /\ cur' = cur /\ catalog' = [catalog EXCEPT ![id] = Absent]
        BY <1>2 DEF OperatorDelete, work
    <2>2. cur.cid \in CatalogId
        BY <2>1 DEF Job
    <2>3. cur.cid # id
        BY <2>1, <2>2 DEF Exists, Absent
    <2>4. catalog'[cur'.cid] = catalog[cur.cid]
        BY <2>1, <2>2, <2>3
    <2>5. Exists(cur.cid)
        BY <2>1, <2>4 DEF Exists
    <2> QED BY <2>1, <2>4, <2>5 DEF MarkedIsPublished
<1>3. ASSUME NEW name \in Names, ForeignCreate(name) PROVE catalog'[cur'.cid] = Published(cur')
    <2>1. /\ phase = "mark" /\ cur' = cur
          /\ catalog' = [catalog EXCEPT ![First(FreeIds)] = [Absent EXCEPT !.name = name]]
        BY <1>3 DEF ForeignCreate, work
    <2>2. First(FreeIds) # cur.cid
        BY <1>3, FreeIdType DEF ForeignCreate, FreeIds
    <2>3. cur.cid \in CatalogId
        BY <2>1 DEF Job
    <2>4. catalog'[cur'.cid] = catalog[cur.cid]
        BY <2>1, <2>2, <2>3
    <2>5. Exists(cur.cid)
        BY <2>1, <2>4 DEF Exists
    <2> QED BY <2>1, <2>4, <2>5 DEF MarkedIsPublished
<1>4. CASE UpdateService
    <2>1. cur' = cur /\ catalog' = [catalog EXCEPT ![cur.cid] = Published(cur)] /\ cur \in Job
        BY <1>4 DEF UpdateService, NextGroup
    <2>2. cur.cid \in CatalogId
        BY <1>4, <2>1 DEF UpdateService, Job
    <2> QED BY <2>1, <2>2 DEF Published, CatalogName
<1>5. CASE CreateService
    <2> DEFINE id == First(FreeIds)
    <2>1. /\ cur \in Job /\ FreeIds # {} /\ cur' = [cur EXCEPT !.cid = id]
          /\ catalog' = [catalog EXCEPT ![id] = Published(cur)]
        BY <1>5 DEF CreateService, NextGroup
    <2>2. id \in CatalogId
        BY <2>1, FreeIdType DEF FreeIds
    <2>3. cur'.cid = id /\ cur'.group = cur.group /\ cur'.spec = cur.spec
        BY <2>1 DEF Job
    <2>4. Published(cur') = Published(cur)
        BY <2>3 DEF Published, CatalogName
    <2> QED BY <2>1, <2>2, <2>3, <2>4
<1>6. \/ phase = "mark" /\ UNCHANGED <<catalog, cur>>
      \/ \E id \in CatalogId : OperatorDelete(id)
      \/ \E name \in Names : ForeignCreate(name)
      \/ UpdateService \/ CreateService
    <2>1. Environment => \/ phase = "mark" /\ UNCHANGED <<catalog, cur>>
                         \/ \E id \in CatalogId : OperatorDelete(id)
                         \/ \E name \in Names : ForeignCreate(name)
        BY DEF Environment, Discover, GoQuiet, SyncManaged, Dismiss, work
    <2>2. ~Compare /\ ~Generate /\ ~Crash
        BY DEF Compare, BeginComparison, SkipComparison, NothingToUpsert, UpsertFinding,
            ResolveFindings, ExpireFindings, Generate, ListDetectedGroups, FetchGroup,
            PersistSpec, FinishSpecGen, Crash
    <2>3. Push => UpdateService \/ CreateService
        BY DEF Push, ListGeneratedGroups, PushGroup, FinishPush, GetService, DeleteService,
            SearchByName, MarkGroupPushed, MarkGroupSkipped, NextGroup
    <2>4. UNCHANGED vars => phase = "mark" /\ UNCHANGED <<catalog, cur>>
        BY DEF vars
    <2> QED BY <2>1, <2>2, <2>3, <2>4 DEF Next, Engine
<1> QED BY <1>1, <1>2, <1>3, <1>4, <1>5, <1>6

\* The documents are consistent in every state.
THEOREM DocumentInvHolds == Spec => []DocumentInv
<1>1. Init => DocumentInv
    BY DEF Init, NoRow, DocumentInv, SpecCoversRow, SpecAgreement, WithStatus, WriteCovers,
           JobsAgree, JobPhases, MarkedIsPublished
<1>2. TypeInv /\ DocumentInv /\ [Next]_vars => DocumentInv'
    <2> SUFFICES ASSUME TypeInv, DocumentInv, [Next]_vars PROVE DocumentInv'
        OBVIOUS
    <2>1. SpecCoversRow' /\ SpecAgreement'
        <3>1. CASE PersistSpec
            BY <3>1, PersistSpecDocuments
        <3>2. CASE ~PersistSpec
            BY <3>2, OthersKeepDocuments, KeptDocumentsAgree DEF DocumentInv
        <3> QED BY <3>1, <3>2
    <2>2. WriteCovers' /\ JobsAgree' /\ MarkedIsPublished'
        BY NextWriteCovers, NextJobsAgree, NextMarkedIsPublished DEF DocumentInv
    <2> QED BY <2>1, <2>2 DEF DocumentInv
<1> QED BY <1>1, <1>2, TypeInvHolds, PTL DEF Spec

\* unmanaged_repo.go:228-286: a waiting row is listed in its own document, which
\* names its own parent, and a group's rows carry the same document.
THEOREM SpecCoversRowHolds == Spec => []SpecCoversRow
BY DocumentInvHolds, PTL DEF DocumentInv

\* Rows of one group that wait to be pushed carry the same document, so that
\* DISTINCT ON may pick any of them.
THEOREM SpecAgreementHolds == Spec => []SpecAgreement
BY DocumentInvHolds, PTL DEF DocumentInv

-----------------------------------------------------------------------------
(***************************************************************************)
(* Action properties.                                                      *)
(***************************************************************************)

\* What changes the status of a row, by what it leaves the row with.
LEMMA WhoMarksPushed ==
    ASSUME TypeInv, [Next]_vars, phase = "mark", NEW d \in Discovered,
           table[d].status = "SPEC_GENERATED", table'[d].status = "PUSHED"
    PROVE  MarkGroupPushed
<1>0. TableOK(table)
    BY DEF TypeInv, TypeOK, TableOK, Consistency
<1>1. Environment => FALSE
    <2>1. ASSUME NEW c \in Discovered, Dismiss(c) PROVE FALSE
        <3>1. table' = [table EXCEPT ![c] = [table[c] EXCEPT !.status = "DISMISSED"]]
            BY <2>1 DEF Dismiss
        <3>2. c = d => table'[d].status = "DISMISSED"
            BY <1>0, <3>1 DEF TableOK, Row
        <3>3. c # d => table'[d] = table[d]
            BY <1>0, <3>1 DEF TableOK
        <3> QED BY <3>2, <3>3
    <2>2. ~UNCHANGED table
        OBVIOUS
    <2> QED BY <2>1, <2>2 DEF Environment, Discover, GoQuiet, SyncManaged, OperatorDelete, ForeignCreate
<1>2. ~Compare /\ ~Generate /\ ~Crash
    BY DEF Compare, BeginComparison, SkipComparison, NothingToUpsert, UpsertFinding,
        ResolveFindings, ExpireFindings, Generate, ListDetectedGroups, FetchGroup,
        PersistSpec, FinishSpecGen, Crash
<1>3. Push => MarkGroupPushed
    BY DEF Push, ListGeneratedGroups, PushGroup, FinishPush, GetService, UpdateService, DeleteService,
        CreateService, SearchByName, MarkGroupSkipped
<1>4. ~UNCHANGED vars
    BY DEF vars
<1> QED BY <1>1, <1>2, <1>3, <1>4 DEF Next, Engine

\* catalog.go:106-154: a waiting row that is marked pushed was published, with its
\* own document, even though the group was read at the start of the phase.
THEOREM WaitingRowIsPublishedHolds == Spec => WaitingRowIsPublished
<1>1. TypeInv /\ DocumentInv /\ [Next]_vars =>
        [\A d \in Discovered :
            /\ phase = "mark"
            /\ table[d].status = "SPEC_GENERATED"
            /\ table'[d].status = "PUSHED"
            => /\ table[d].spec = cur.spec
               /\ d \in cur.spec.ops
               /\ Exists(cur.cid) => catalog[cur.cid] = Published(cur)]_vars
    <2> SUFFICES ASSUME TypeInv, DocumentInv, [Next]_vars, NEW d \in Discovered, phase = "mark",
                        table[d].status = "SPEC_GENERATED", table'[d].status = "PUSHED"
                 PROVE  /\ table[d].spec = cur.spec /\ d \in cur.spec.ops
                        /\ Exists(cur.cid) => catalog[cur.cid] = Published(cur)
        OBVIOUS
    <2>0. TableOK(table) /\ cur \in Job /\ Consistent(cur.group)
        BY DEF TypeInv, TypeOK, TableOK, Consistency
    <2>1. table' = MarkPushed(table, cur.group, cur.cid)
        BY WhoMarksPushed DEF MarkGroupPushed
    <2>2. d \in ActiveInGroup(table, cur.group)
        BY <2>1 DEF MarkPushed
    <2>3. GroupOf(table, d) = cur.group
        BY <2>0, <2>2, InGroupIsGroupOf DEF ActiveInGroup, Job
    <2>4. table[d].spec = cur.spec
        BY <2>3 DEF DocumentInv, JobsAgree, JobPhases, Agrees, WithStatus
    <2>5. d \in table[d].spec.ops
        BY DEF DocumentInv, SpecCoversRow, WithStatus
    <2> QED BY <2>4, <2>5 DEF DocumentInv, MarkedIsPublished
<1> QED BY <1>1, TypeInvHolds, DocumentInvHolds, PTL DEF Spec, WaitingRowIsPublished

\* Every step that touches the table is one of these.
LEMMA TableSteps ==
    ASSUME [Next]_vars
    PROVE  \/ UNCHANGED table
           \/ \E d \in Discovered : Dismiss(d)
           \/ \E d \in Discovered : UpsertFinding(d) /\ table' = Upsert(table, d, verdict[d])
           \/ phase = "resolve" /\ table' = MarkResolved(table, confirmed)
           \/ phase = "stale" /\ table' = MarkStale(table, Quiet)
           \/ phase = "write" /\ table' = UpdateGroupSpec(table, cur.group, cur.spec)
           \/ phase = "mark" /\ phase' # "mark" /\ table' = MarkPushed(table, cur.group, cur.cid)
           \/ phase = "skip" /\ table' = MarkPushedSkipped(table, cur.group)
<1>1. Environment => UNCHANGED table \/ \E d \in Discovered : Dismiss(d)
    BY DEF Environment, Discover, GoQuiet, SyncManaged, OperatorDelete, ForeignCreate
<1>2. Compare => \/ UNCHANGED table
                 \/ \E d \in Discovered : UpsertFinding(d) /\ table' = Upsert(table, d, verdict[d])
                 \/ phase = "resolve" /\ table' = MarkResolved(table, confirmed)
                 \/ phase = "stale" /\ table' = MarkStale(table, Quiet)
    BY DEF Compare, BeginComparison, SkipComparison, NothingToUpsert, UpsertFinding,
           ResolveFindings, ExpireFindings
<1>3. Generate => \/ UNCHANGED table
                  \/ phase = "write" /\ table' = UpdateGroupSpec(table, cur.group, cur.spec)
    BY DEF Generate, ListDetectedGroups, FetchGroup, PersistSpec, FinishSpecGen
<1>4. Push => \/ UNCHANGED table
              \/ phase = "mark" /\ phase' # "mark" /\ table' = MarkPushed(table, cur.group, cur.cid)
              \/ phase = "skip" /\ table' = MarkPushedSkipped(table, cur.group)
    BY DEF Push, NextGroup, ListGeneratedGroups, PushGroup, FinishPush, GetService, UpdateService,
           DeleteService, CreateService, SearchByName, MarkGroupPushed, MarkGroupSkipped
<1>5. Crash => UNCHANGED table
    BY DEF Crash
<1>6. UNCHANGED vars => UNCHANGED table
    BY DEF vars
<1> QED BY <1>1, <1>2, <1>3, <1>4, <1>5, <1>6 DEF Next, Engine

\* What SetStatus leaves in a row.
LEMMA SetStatusAt ==
    ASSUME NEW t, TableOK(t), NEW S, NEW s, NEW d \in Discovered
    PROVE  SetStatus(t, S, s)[d].status = IF d \in S THEN s ELSE t[d].status
<1>1. SetStatus(t, S, s)[d] = IF d \in S THEN [t[d] EXCEPT !.status = s] ELSE t[d]
    BY DEF SetStatus
<1> QED BY <1>1 DEF TableOK, Row

\* What an upsert leaves in a row: the status is the old one or DETECTED, and a
\* row whose class and parent are not changed keeps its status, unless it was
\* closed by MarkResolved or MarkStale.
LEMMA UpsertAt ==
    ASSUME NEW t, TableOK(t), NEW c \in Discovered, NEW v \in Verdict, NEW d \in Discovered
    PROVE  LET u == Upsert(t, c, v)
           IN  /\ u[d].status \in {t[d].status, "DETECTED"}
               /\ \/ u[d].status = t[d].status
                  \/ t[d].status \in {"NONE", "RESOLVED", "STALE"}
                  \/ u[d].class # t[d].class \/ u[d].mid # t[d].mid
<1> DEFINE u == Upsert(t, c, v)
<1>1. CASE d # c
    BY <1>1 DEF Upsert, TableOK
<1>2. CASE d = c
    <2> DEFINE back == t[d].class # v.class \/ t[d].mid # v.mid \/ t[d].status \in {"RESOLVED", "STALE"}
               new == IF t[d].status = "NONE" THEN [NoRow EXCEPT !.status = "DETECTED"]
                      ELSE [t[d] EXCEPT !.status = IF back THEN "DETECTED" ELSE @]
    <2>1. t[d] \in Row
        BY DEF TableOK
    <2>2. new \in Row
        BY <2>1 DEF Row, NoRow, NoSpec, Spec0, Statuses
    <2>3. u[d] = [new EXCEPT !.class = v.class, !.mid = v.mid]
        BY <1>2 DEF Upsert, TableOK
    <2>4. u[d].status = new.status /\ u[d].class = v.class /\ u[d].mid = v.mid
        BY <2>2, <2>3 DEF Row
    <2>5. new.status = IF t[d].status = "NONE" \/ back THEN "DETECTED" ELSE t[d].status
        BY <2>1 DEF NoRow, Row
    <2> QED BY <2>4, <2>5
<1> QED BY <1>1, <1>2

\* unmanaged_repo.go:36-45: a finding dismissed by the operator comes back only
\* as another finding.
THEOREM DismissalKeptHolds == Spec => DismissalKept
<1>1. TypeInv /\ [Next]_vars =>
        [\A d \in Discovered :
            table[d].status = "DISMISSED" /\ table'[d].status # "DISMISSED"
            => table'[d].class # table[d].class \/ table'[d].mid # table[d].mid]_vars
    <2> SUFFICES ASSUME TypeInv, [Next]_vars, NEW d \in Discovered,
                        table[d].status = "DISMISSED", table'[d].status # "DISMISSED"
                 PROVE  table'[d].class # table[d].class \/ table'[d].mid # table[d].mid
        OBVIOUS
    <2>0. TableOK(table)
        BY DEF TypeInv, TypeOK, TableOK, Consistency
    <2>a. ~Active(table[d])
        BY DEF Active, Inactive
    <2>1. CASE UNCHANGED table
        BY <2>1
    <2>2. CASE \E c \in Discovered : Dismiss(c)
        <3>1. PICK c \in Discovered : Dismiss(c)
            BY <2>2
        <3>2. table' = [table EXCEPT ![c] = [table[c] EXCEPT !.status = "DISMISSED"]]
            BY <3>1 DEF Dismiss
        <3>3. c # d
            BY <3>1 DEF Dismiss
        <3> QED BY <2>0, <3>2, <3>3 DEF TableOK
    <2>3. CASE \E c \in Discovered : table' = Upsert(table, c, verdict[c])
        <3>1. PICK c \in Discovered : table' = Upsert(table, c, verdict[c])
            BY <2>3
        <3>2. verdict[c] \in Verdict
            BY DEF TypeInv, TypeOK
        <3> QED BY <2>0, <3>1, <3>2, UpsertAt
    <2>4. CASE table' = MarkResolved(table, confirmed)
        BY <2>0, <2>4, <2>a, SetStatusAt DEF MarkResolved
    <2>5. CASE table' = MarkStale(table, Quiet)
        BY <2>0, <2>5, <2>a, SetStatusAt DEF MarkStale
    <2>6. CASE table' = UpdateGroupSpec(table, cur.group, cur.spec)
        BY <2>6, <2>a DEF UpdateGroupSpec, ActiveInGroup
    <2>7. CASE table' = MarkPushed(table, cur.group, cur.cid)
        BY <2>7, <2>a DEF MarkPushed, ActiveInGroup
    <2>8. CASE table' = MarkPushedSkipped(table, cur.group)
        BY <2>0, <2>8, SetStatusAt DEF MarkPushedSkipped, WithStatus
    <2> QED BY <2>1, <2>2, <2>3, <2>4, <2>5, <2>6, <2>7, <2>8, TableSteps
<1> QED BY <1>1, TypeInvHolds, PTL DEF Spec, DismissalKept

-----------------------------------------------------------------------------
(***************************************************************************)
(* Closing.  Rows belong to operations that have been seen, the verdicts   *)
(* of a comparison are about exactly these, and unless an upsert has       *)
(* failed, each unmanaged one is pending or confirmed.                     *)
(***************************************************************************)
RowsAreSeen == \A d \in Discovered : table[d].status # "NONE" => d \in Seen

VerdictsAreOfSeen ==
    phase \in {"upsert", "resolve"} =>
        \A d \in Discovered : d \in Seen <=> verdict[d].class # "ABSENT"

NoneForgotten ==
    phase \in {"upsert", "resolve"} /\ faults = 0 => Unmanaged(verdict) \subseteq confirmed \cup pending

ReasonInv == RowsAreSeen /\ VerdictsAreOfSeen /\ NoneForgotten

\* Only what is not in adc_discovered_apis has no verdict.
LEMMA VerdictsAbsent ==
    ASSUME NEW D, NEW M, NEW d \in Discovered
    PROVE  d \in D <=> Verdicts(D, M)[d].class # "ABSENT"
<1> DEFINE lost == UNION {LosersAt(D, M, e, Hostname[OwnerOf(M, e)]) : e \in Collisions(D, M)}
<1>1. Verdicts(D, M) = Classify(D, M, lost)
    BY DEF Verdicts
<1> HIDE DEF lost
<1>2. d \in D <=> Classify(D, M, lost)[d].class # "ABSENT"
    BY DEF Classify, StillManaged, Matched
<1> QED BY <1>1, <1>2

\* Which step makes a row: an upsert of step 11.
LEMMA UpsertsOnly ==
    ASSUME TypeInv, [Next]_vars, NEW d \in Discovered, table[d].status = "NONE", table'[d].status # "NONE"
    PROVE  \E c \in Discovered : UpsertFinding(c) /\ table' = Upsert(table, c, verdict[c])
<1>0. TableOK(table)
    BY DEF TypeInv, TypeOK, TableOK, Consistency
<1>1. ~\E c \in Discovered : Dismiss(c)
    <2> SUFFICES ASSUME NEW c \in Discovered, Dismiss(c) PROVE FALSE
        OBVIOUS
    <2>1. c # d
        BY DEF Dismiss
    <2> QED BY <1>0, <2>1 DEF Dismiss, TableOK
<1>2. table' # MarkResolved(table, confirmed) /\ table' # MarkStale(table, Quiet)
    BY <1>0, SetStatusAt DEF MarkResolved, MarkStale, Active
<1>3. table' # UpdateGroupSpec(table, cur.group, cur.spec) /\ table' # MarkPushed(table, cur.group, cur.cid)
    BY DEF UpdateGroupSpec, MarkPushed, ActiveInGroup, Active
<1>4. table' # MarkPushedSkipped(table, cur.group)
    BY <1>0, SetStatusAt DEF MarkPushedSkipped, WithStatus
<1>5. ~UNCHANGED table
    OBVIOUS
<1> QED BY <1>1, <1>2, <1>3, <1>4, <1>5, TableSteps

\* Once seen, an operation stays seen, and while a comparison runs no other is.
LEMMA TrafficSteps ==
    ASSUME TypeInv, [Next]_vars, NEW d \in Discovered
    PROVE  /\ traffic'[d] = "none" => traffic[d] = "none"
           /\ traffic[d] = "none" /\ phase # "idle" => traffic'[d] = "none"
<1>0. traffic \in [Discovered -> Traffic]
    BY DEF TypeInv, TypeOK
<1>1. CASE Environment
    BY <1>0, <1>1 DEF Environment, Discover, GoQuiet, SyncManaged, Dismiss, OperatorDelete, ForeignCreate
<1>2. CASE Compare
    BY <1>2 DEF Compare, BeginComparison, SkipComparison, NothingToUpsert, UpsertFinding,
                ResolveFindings, ExpireFindings, world
<1>3. CASE Generate
    BY <1>3 DEF Generate, ListDetectedGroups, FetchGroup, PersistSpec, FinishSpecGen, world
<1>4. CASE Push
    BY <1>4 DEF Push, ListGeneratedGroups, PushGroup, FinishPush, GetService, UpdateService,
                DeleteService, CreateService, SearchByName, MarkGroupPushed, MarkGroupSkipped, world
<1>5. CASE Crash \/ UNCHANGED vars
    BY <1>5 DEF Crash, world, vars
<1> QED BY <1>1, <1>2, <1>3, <1>4, <1>5 DEF Next, Engine

\* Rows stay those of seen operations: an upsert is of an unmanaged one.
LEMMA NextRowsAreSeen == TypeInv /\ ReasonInv /\ [Next]_vars => RowsAreSeen'
<1> SUFFICES ASSUME TypeInv, ReasonInv, [Next]_vars, NEW d \in Discovered, table'[d].status # "NONE"
             PROVE  traffic'[d] # "none"
    BY DEF RowsAreSeen, Seen
<1>0. TableOK(table) /\ traffic \in [Discovered -> Traffic]
    BY DEF TypeInv, TypeOK, TableOK, Consistency
<1>1. traffic[d] # "none"
    <2>1. CASE table[d].status # "NONE"
        BY <2>1 DEF ReasonInv, RowsAreSeen, Seen
    <2>2. CASE table[d].status = "NONE"
        <3>1. PICK c \in Discovered : UpsertFinding(c) /\ table' = Upsert(table, c, verdict[c])
            BY <2>2, UpsertsOnly
        <3>2. c = d
            BY <1>0, <2>2, <3>1 DEF Upsert, TableOK
        <3>3. phase = "upsert" /\ verdict[d].class # "ABSENT"
            BY <3>1, <3>2 DEF UpsertFinding, TypeInv, TypeOK, Unmanaged
        <3> QED BY <3>3 DEF ReasonInv, VerdictsAreOfSeen, Seen
    <2> QED BY <2>1, <2>2
<1>2. \A c \in Discovered : traffic'[c] = "none" => traffic[c] = "none"
    BY <1>0, TrafficSteps
<1> QED BY <1>0, <1>1, <1>2

\* Which steps lead to the upserts and to MarkResolved.
LEMMA ClosingPhases ==
    ASSUME [Next]_vars, phase' \in {"upsert", "resolve"}
    PROVE  \/ BeginComparison \/ NothingToUpsert \/ \E d \in Discovered : UpsertFinding(d)
           \/ /\ phase' = phase /\ UNCHANGED phase3 /\ UNCHANGED faults
<1>1. CASE Environment
    BY <1>1 DEF Environment, Discover, GoQuiet, SyncManaged, Dismiss, OperatorDelete, ForeignCreate
<1>2. CASE Compare
    BY <1>2 DEF Compare, SkipComparison, ResolveFindings, ExpireFindings
<1>3. CASE Generate
    BY <1>3 DEF Generate, ListDetectedGroups, FetchGroup, PersistSpec, FinishSpecGen, NoFault
<1>4. CASE Push
    BY <1>4 DEF Push, ListGeneratedGroups, PushGroup, FinishPush, GetService, UpdateService, NextGroup,
                DeleteService, CreateService, SearchByName, MarkGroupPushed, MarkGroupSkipped, NoFault
<1>5. CASE Crash \/ UNCHANGED vars
    BY <1>5 DEF Crash, vars, phase3
<1> QED BY <1>1, <1>2, <1>3, <1>4, <1>5 DEF Next, Engine

\* The verdicts and the confirmed rows account for everything that was seen.
LEMMA NextAccounted ==
    TypeInv /\ ReasonInv /\ [Next]_vars => VerdictsAreOfSeen' /\ NoneForgotten'
<1> SUFFICES ASSUME TypeInv, ReasonInv, [Next]_vars, phase' \in {"upsert", "resolve"}
             PROVE  /\ \A d \in Discovered : d \in Seen' <=> verdict'[d].class # "ABSENT"
                    /\ faults' = 0 => Unmanaged(verdict') \subseteq confirmed' \cup pending'
    BY DEF VerdictsAreOfSeen, NoneForgotten
<1>1. CASE BeginComparison
    <2>1. Seen' = Seen /\ verdict' = Verdicts(Seen, managed) /\ pending' = Unmanaged(verdict')
        BY <1>1 DEF BeginComparison, world, Seen
    <2> QED BY <2>1, VerdictsAbsent
<1>2. ASSUME phase # "idle", phase \in {"upsert", "resolve"}, UNCHANGED verdict
      PROVE  \A d \in Discovered : d \in Seen' <=> verdict'[d].class # "ABSENT"
    BY <1>2, TrafficSteps DEF ReasonInv, VerdictsAreOfSeen, Seen
<1>3. CASE NothingToUpsert
    <2>1. phase = "upsert" /\ UNCHANGED <<verdict, pending, confirmed, faults>>
        BY <1>3 DEF NothingToUpsert, phase3, NoFault
    <2> QED BY <1>2, <2>1 DEF ReasonInv, NoneForgotten
<1>4. ASSUME NEW c \in Discovered, UpsertFinding(c)
      PROVE  /\ \A d \in Discovered : d \in Seen' <=> verdict'[d].class # "ABSENT"
             /\ faults' = 0 => Unmanaged(verdict') \subseteq confirmed' \cup pending'
    <2>1. phase = "upsert" /\ UNCHANGED verdict /\ pending' = pending \ {c}
        BY <1>4 DEF UpsertFinding
    <2>2. \/ confirmed' = confirmed \cup {c} /\ faults' = faults
          \/ faults' = faults + 1
        BY <1>4 DEF UpsertFinding, Fault, NoFault
    <2>3. faults \in Nat
        BY DEF TypeInv, TypeOK
    <2>4. faults' = 0 => Unmanaged(verdict) \subseteq confirmed' \cup pending'
        BY <2>1, <2>2, <2>3 DEF ReasonInv, NoneForgotten
    <2> QED BY <1>2, <2>1, <2>4
<1>5. CASE phase' = phase /\ UNCHANGED phase3 /\ UNCHANGED faults
    <2>1. UNCHANGED <<verdict, pending, confirmed>>
        BY <1>5 DEF phase3
    <2> QED BY <1>2, <1>5, <2>1 DEF ReasonInv, NoneForgotten
<1> QED BY <1>1, <1>3, <1>4, <1>5, ClosingPhases

\* The invariant of closing holds in every reachable state.
LEMMA ReasonInvHolds == Spec => []ReasonInv
<1>1. Init => ReasonInv
    BY DEF Init, ReasonInv, RowsAreSeen, VerdictsAreOfSeen, NoneForgotten, NoRow
<1>2. TypeInv /\ ReasonInv /\ [Next]_vars => ReasonInv'
    BY NextRowsAreSeen, NextAccounted DEF ReasonInv
<1> QED BY <1>1, <1>2, TypeInvHolds, PTL DEF Spec

\* comparison.go:132-156: without a failure a finding is resolved only when the
\* comparison finds it managed; no finding that the cycle wrote is resolved,
\* and only those without traffic become stale.
THEOREM ClosedForReasonHolds == Spec => ClosedForReason
<1>1. TypeInv /\ ReasonInv /\ [Next]_vars =>
        [\A d \in Discovered : table'[d].status # table[d].status =>
            /\ table'[d].status = "RESOLVED" =>
                  d \notin confirmed /\ (verdict[d].class = "MANAGED" \/ faults > 0)
            /\ table'[d].status = "STALE" => traffic[d] = "quiet"]_vars
    <2> SUFFICES ASSUME TypeInv, ReasonInv, [Next]_vars, NEW d \in Discovered,
                        table'[d].status \in {"RESOLVED", "STALE"}, table'[d].status # table[d].status
                 PROVE  /\ table'[d].status = "RESOLVED" =>
                              d \notin confirmed /\ (verdict[d].class = "MANAGED" \/ faults > 0)
                        /\ table'[d].status = "STALE" => traffic[d] = "quiet"
        OBVIOUS
    <2>0. TableOK(table)
        BY DEF TypeInv, TypeOK, TableOK, Consistency
    <2>1. CASE UNCHANGED table
        BY <2>1
    <2>2. CASE \E c \in Discovered : Dismiss(c)
        <3>1. PICK c \in Discovered : Dismiss(c)
            BY <2>2
        <3>2. table' = [table EXCEPT ![c] = [table[c] EXCEPT !.status = "DISMISSED"]]
            BY <3>1 DEF Dismiss
        <3>3. c = d => table'[d].status = "DISMISSED"
            BY <2>0, <3>2 DEF TableOK, Row
        <3>4. c # d => table'[d] = table[d]
            BY <2>0, <3>2 DEF TableOK
        <3> QED BY <3>3, <3>4
    <2>3. CASE \E c \in Discovered : table' = Upsert(table, c, verdict[c])
        <3>1. PICK c \in Discovered : table' = Upsert(table, c, verdict[c])
            BY <2>3
        <3>2. verdict[c] \in Verdict
            BY DEF TypeInv, TypeOK
        <3> QED BY <2>0, <3>1, <3>2, UpsertAt
    <2>4. CASE phase = "resolve" /\ table' = MarkResolved(table, confirmed)
        <3>1. table'[d].status = "RESOLVED" /\ d \notin confirmed /\ table[d].status # "NONE"
            BY <2>0, <2>4, SetStatusAt DEF MarkResolved, Active
        <3>2. d \notin pending /\ faults \in Nat /\ verdict[d] \in Verdict
            BY <2>4 DEF TypeInv, TypeOK, PendingDone
        <3>3. verdict[d].class # "ABSENT"
            BY <2>4, <3>1 DEF ReasonInv, RowsAreSeen, VerdictsAreOfSeen
        <3>4. faults = 0 => d \notin Unmanaged(verdict)
            BY <2>4, <3>1, <3>2 DEF ReasonInv, NoneForgotten
        <3>5. faults = 0 => verdict[d].class = "MANAGED"
            BY <3>2, <3>3, <3>4 DEF Unmanaged, Verdict
        <3> QED BY <3>1, <3>2, <3>5
    <2>5. CASE table' = MarkStale(table, Quiet)
        BY <2>0, <2>5, SetStatusAt DEF MarkStale, Quiet
    <2>6. CASE table' = UpdateGroupSpec(table, cur.group, cur.spec)
        <3>1. d \in ActiveInGroup(table, cur.group) => table'[d].status = "SPEC_GENERATED"
            BY <2>0, <2>6 DEF UpdateGroupSpec, TableOK, Row
        <3> QED BY <2>0, <2>6, <3>1 DEF UpdateGroupSpec
    <2>7. CASE table' = MarkPushed(table, cur.group, cur.cid)
        <3>1. d \in ActiveInGroup(table, cur.group) => table'[d].status = "PUSHED"
            BY <2>0, <2>7 DEF MarkPushed, TableOK, Row
        <3> QED BY <2>0, <2>7, <3>1 DEF MarkPushed
    <2>8. CASE table' = MarkPushedSkipped(table, cur.group)
        BY <2>0, <2>8, SetStatusAt DEF MarkPushedSkipped
    <2> QED BY <2>1, <2>2, <2>3, <2>4, <2>5, <2>6, <2>7, <2>8, TableSteps
<1> QED BY <1>1, TypeInvHolds, ReasonInvHolds, PTL DEF Spec, ClosedForReason

-----------------------------------------------------------------------------
(***************************************************************************)
(* The life cycle that Pipeline implements.                                *)
(***************************************************************************)
stateBar    == [d \in Discovered |-> LifecycleState(table[d])]
parentBar   == [d \in Discovered |-> table[d].mid]
documentBar == [d \in Discovered |-> WaitingDocument(table[d])]
linkBar     == [d \in Discovered |-> LinkOf(table[d])]
entryBar    == [id \in CatalogId |-> CatalogDocument(id)]

lifecycleBar == <<stateBar, parentBar, documentBar, linkBar, entryBar, Answered>>

\* A group is given up only when that is configured.
ForgoneIfConfigured == phase = "skip" => ~RePushDeleted

LEMMA NextForgoneIfConfigured == ForgoneIfConfigured /\ [Next]_vars => ForgoneIfConfigured'
<1> SUFFICES ASSUME ForgoneIfConfigured, [Next]_vars, phase' = "skip" PROVE ~RePushDeleted
    BY DEF ForgoneIfConfigured
<1>1. ASSUME UNCHANGED phase PROVE ~RePushDeleted
    BY <1>1 DEF ForgoneIfConfigured
<1>2. Environment => UNCHANGED phase
    BY DEF Environment, Discover, GoQuiet, SyncManaged, Dismiss, OperatorDelete, ForeignCreate
<1>3. ~Compare /\ ~Generate /\ ~Crash
    BY DEF Compare, BeginComparison, SkipComparison, NothingToUpsert, UpsertFinding,
        ResolveFindings, ExpireFindings, Generate, ListDetectedGroups, FetchGroup,
        PersistSpec, FinishSpecGen, Crash
<1>4. Push => GetService
    BY DEF Push, ListGeneratedGroups, PushGroup, FinishPush, UpdateService, DeleteService,
        CreateService, SearchByName, MarkGroupPushed, MarkGroupSkipped, NextGroup
<1>5. GetService => ~RePushDeleted
    BY PipelineAssumption DEF GetService
<1>6. UNCHANGED vars => UNCHANGED phase
    BY DEF vars
<1> QED BY <1>1, <1>2, <1>3, <1>4, <1>5, <1>6 DEF Next, Engine

\* No step writes to the table and to the catalog.
LEMMA TableOrCatalog == ASSUME [Next]_vars PROVE UNCHANGED table \/ UNCHANGED catalog
<1>1. Environment => UNCHANGED table \/ UNCHANGED catalog
    BY DEF Environment, Discover, GoQuiet, SyncManaged, Dismiss, OperatorDelete, ForeignCreate
<1>2. Compare \/ Generate \/ Crash => UNCHANGED catalog
    BY DEF Compare, BeginComparison, SkipComparison, NothingToUpsert, UpsertFinding,
        ResolveFindings, ExpireFindings, Generate, ListDetectedGroups, FetchGroup,
        PersistSpec, FinishSpecGen, Crash
<1>3. Push => UNCHANGED table \/ UNCHANGED catalog
    BY DEF Push, ListGeneratedGroups, PushGroup, FinishPush, GetService, UpdateService, DeleteService,
        CreateService, SearchByName, MarkGroupPushed, MarkGroupSkipped
<1>4. UNCHANGED vars => UNCHANGED table
    BY DEF vars
<1> QED BY <1>1, <1>2, <1>3, <1>4 DEF Next, Engine

\* A group that phase 5 handles has its id from a row of the group, and that row keeps
\* it: only the group's own MarkPushed writes another one, and no group is listed twice.
Known(t, j) ==
    j.cid # NoId => \E d \in Discovered : /\ t[d].status # "NONE" /\ GroupOf(t, d) = j.group
                                          /\ t[d].cid = j.cid

SkippedIsGone == phase = "skip" => cur.cid \in CatalogId /\ ~Exists(cur.cid)

JobsKnown ==
    /\ phase \in JobPhases \cup {"push"} =>
          \A j \in todo : Known(table, j) /\ \A k \in todo : j.group = k.group => j = k
    /\ phase \in JobPhases => \A j \in todo : j.group # cur.group
    /\ phase \in {"get", "skip"} => Known(table, cur)
    /\ SkippedIsGone

\* Which steps phase 5 is made of, by what they do to its groups.
LEMMA JobSteps ==
    ASSUME TypeInv, [Next]_vars, phase' \in JobPhases \cup {"push"}
    PROVE  \/ ListGeneratedGroups /\ phase' = "push"
           \/ \E j \in todo : PushGroup(j)
           \/ /\ phase' = "push" /\ phase \in JobPhases \cup {"push"} /\ UNCHANGED todo
           \/ /\ phase' = phase /\ phase \in JobPhases /\ UNCHANGED <<todo, cur>>
           \/ GetService
           \/ /\ phase' \in JobPhases \ {"get", "skip"} /\ phase \in JobPhases /\ UNCHANGED todo
              /\ cur'.group = cur.group
<1>1. ASSUME Environment PROVE UNCHANGED <<phase, todo, cur>>
    BY <1>1 DEF Environment, Discover, GoQuiet, SyncManaged, Dismiss, OperatorDelete, ForeignCreate, work
<1>2. ~Compare /\ ~Generate /\ ~Crash
    BY DEF Compare, BeginComparison, SkipComparison, NothingToUpsert, UpsertFinding,
        ResolveFindings, ExpireFindings, Generate, ListDetectedGroups, FetchGroup,
        PersistSpec, FinishSpecGen, Crash, JobPhases
<1>3. ListGeneratedGroups => phase' = "push"
    BY DEF ListGeneratedGroups, JobPhases
<1>4. ~FinishPush
    BY DEF FinishPush, JobPhases
<1>5. MarkGroupPushed \/ MarkGroupSkipped => phase' = "push" /\ phase \in JobPhases /\ UNCHANGED todo
    BY DEF MarkGroupPushed, MarkGroupSkipped, NextGroup, JobPhases
<1>6. ASSUME UpdateService \/ DeleteService \/ CreateService \/ SearchByName
      PROVE  /\ phase \in JobPhases /\ UNCHANGED todo
             /\ phase' = "push" \/ (phase' \in JobPhases \ {"get", "skip"} /\ cur'.group = cur.group)
    <2>1. phase \in JobPhases /\ cur \in Job
        BY <1>6 DEF UpdateService, DeleteService, CreateService, SearchByName, JobPhases, TypeInv, TypeOK
    <2>2. \A id : [cur EXCEPT !.cid = id].group = cur.group
        BY <2>1 DEF Job
    <2>3. CASE UpdateService
        BY <2>1, <2>3 DEF UpdateService, NextGroup, JobPhases
    <2>4. CASE DeleteService
        BY <2>1, <2>4 DEF DeleteService, NextGroup, JobPhases
    <2>5. CASE CreateService
        BY <2>1, <2>2, <2>5 DEF CreateService, NextGroup, JobPhases
    <2>6. CASE SearchByName
        BY <2>1, <2>2, <2>6 DEF SearchByName, NextGroup, JobPhases
    <2> QED BY <1>6, <2>3, <2>4, <2>5, <2>6
<1>7. UNCHANGED vars => UNCHANGED <<phase, todo, cur>>
    BY DEF vars
<1> QED BY <1>1, <1>2, <1>3, <1>4, <1>5, <1>6, <1>7 DEF Next, Engine, Push

\* While phase 5 runs, the rows of a group keep their ids, but for those of the group
\* that MarkPushed is called for.
LEMMA KnownKept ==
    ASSUME TypeInv, [Next]_vars, phase \in JobPhases \cup {"push"}, NEW j, Known(table, j),
           phase = "mark" => j.group # cur.group
    PROVE  Known(table', j)
<1>0. TableOK(table)
    BY DEF TypeInv, TypeOK, TableOK, Consistency
<1> SUFFICES ASSUME j.cid # NoId
             PROVE  \E d \in Discovered : /\ table'[d].status # "NONE" /\ GroupOf(table', d) = j.group
                                          /\ table'[d].cid = j.cid
    BY DEF Known
<1>1. PICK d \in Discovered : table[d].status # "NONE" /\ GroupOf(table, d) = j.group /\ table[d].cid = j.cid
    BY DEF Known
<1>2. ASSUME table'[d].status # "NONE", table'[d].class = table[d].class, table'[d].mid = table[d].mid,
             table'[d].cid = table[d].cid
      PROVE  table'[d].status # "NONE" /\ GroupOf(table', d) = j.group /\ table'[d].cid = j.cid
    BY <1>1, <1>2 DEF GroupOf
<1>3. ASSUME NEW S, NEW s \in Statuses, table' = SetStatus(table, S, s)
      PROVE  /\ table'[d].status # "NONE" /\ table'[d].class = table[d].class
             /\ table'[d].mid = table[d].mid /\ table'[d].cid = table[d].cid
    <2>1. table[d] \in Row
        BY <1>0 DEF TableOK
    <2>2. table'[d] = IF d \in S THEN [table[d] EXCEPT !.status = s] ELSE table[d]
        BY <1>3 DEF SetStatus
    <2> QED BY <1>1, <2>1, <2>2 DEF Row, Statuses
<1>4. CASE UNCHANGED table
    BY <1>1, <1>2, <1>4
<1>5. CASE \E c \in Discovered : Dismiss(c)
    <2>1. PICK c \in Discovered : Dismiss(c)
        BY <1>5
    <2>2. table' = SetStatus(table, {c}, "DISMISSED")
        BY <1>0, <2>1 DEF Dismiss, SetStatus, TableOK
    <2> QED BY <1>2, <1>3, <2>2 DEF Statuses
<1>6. CASE phase = "skip" /\ table' = MarkPushedSkipped(table, cur.group)
    BY <1>2, <1>3, <1>6 DEF MarkPushedSkipped, Statuses
<1>7. CASE phase = "mark" /\ table' = MarkPushed(table, cur.group, cur.cid)
    <2>1. cur.group \in Group /\ Consistent(cur.group)
        BY <1>7 DEF TypeInv, TypeOK, Job, Consistency
    <2>2. ~InGroup(table, d, cur.group)
        BY <1>0, <1>1, <1>7, <2>1, InGroupIsGroupOf
    <2>3. table'[d] = table[d]
        BY <1>7, <2>2 DEF MarkPushed, ActiveInGroup
    <2> QED BY <1>1, <1>2, <2>3
<1> QED BY <1>4, <1>5, <1>6, <1>7, TableSteps DEF UpsertFinding, JobPhases

\* An entry that is gone does not come back under its id while phase 5 holds it.
LEMMA NextSkippedIsGone == TypeInv /\ SkippedIsGone /\ [Next]_vars => SkippedIsGone'
<1> SUFFICES ASSUME TypeInv, SkippedIsGone, [Next]_vars, phase' = "skip"
             PROVE  cur'.cid \in CatalogId /\ ~Exists(cur.cid)'
    BY DEF SkippedIsGone
<1>1. CASE GetService
    <2>1. phase = "get" /\ UNCHANGED <<cur, catalog>> /\ ~Exists(cur.cid)
        BY <1>1 DEF GetService, work
    <2> QED BY <2>1 DEF Exists, TypeInv, TypeOK, Job
<1>2. CASE phase = "skip" /\ UNCHANGED cur
    <2>1. cur.cid \in CatalogId /\ ~Exists(cur.cid)
        BY <1>2 DEF SkippedIsGone
    <2>2. catalog'[cur.cid] = catalog[cur.cid] \/ catalog'[cur.cid] = Absent
        <3>1. CASE UNCHANGED catalog
            BY <3>1
        <3>2. ASSUME NEW id \in CatalogId, OperatorDelete(id)
              PROVE  catalog'[cur.cid] = catalog[cur.cid] \/ catalog'[cur.cid] = Absent
            BY <2>1, <3>2 DEF OperatorDelete, TypeInv, TypeOK
        <3>3. ASSUME NEW name \in Names, ForeignCreate(name)
              PROVE  catalog'[cur.cid] = catalog[cur.cid]
            <4>1. First(FreeIds) # cur.cid
                BY <3>3, FreeIdType DEF ForeignCreate, FreeIds
            <4> QED BY <2>1, <3>3, <4>1 DEF ForeignCreate, TypeInv, TypeOK
        <3>4. Environment => \/ UNCHANGED catalog \/ \E id \in CatalogId : OperatorDelete(id)
                             \/ \E name \in Names : ForeignCreate(name)
            BY DEF Environment, Discover, GoQuiet, SyncManaged, Dismiss
        <3>5. Compare \/ Generate \/ Crash => UNCHANGED catalog
            BY DEF Compare, BeginComparison, SkipComparison, NothingToUpsert, UpsertFinding,
                ResolveFindings, ExpireFindings, Generate, ListDetectedGroups, FetchGroup,
                PersistSpec, FinishSpecGen, Crash
        <3>6. Push => UNCHANGED catalog
            BY <1>2 DEF Push, ListGeneratedGroups, PushGroup, FinishPush, GetService, UpdateService, DeleteService,
                CreateService, SearchByName, MarkGroupPushed, MarkGroupSkipped
        <3>7. UNCHANGED vars => UNCHANGED catalog
            BY DEF vars
        <3> QED BY <3>1, <3>2, <3>3, <3>4, <3>5, <3>6, <3>7 DEF Next, Engine
    <2> QED BY <1>2, <2>1, <2>2 DEF Exists, Absent
<1>3. \A j \in todo : ~PushGroup(j)
    BY DEF PushGroup
<1> QED BY <1>1, <1>2, <1>3, JobSteps DEF JobPhases

\* The groups of phase 5 keep a row with their id.
LEMMA NextJobsKnown == TypeInv /\ JobsKnown /\ [Next]_vars => JobsKnown'
<1> SUFFICES ASSUME TypeInv, JobsKnown, [Next]_vars PROVE JobsKnown'
    OBVIOUS
<1> DEFINE late == JobPhases \cup {"push"}
<1>1. SkippedIsGone'
    BY NextSkippedIsGone DEF JobsKnown
<1>2. ASSUME phase \in late, NEW j \in todo PROVE Known(table', j)
    BY <1>2, KnownKept DEF JobsKnown, JobPhases
<1> SUFFICES ASSUME phase' \in late
             PROVE  /\ \A j \in todo' : Known(table', j) /\ \A k \in todo' : j.group = k.group => j = k
                    /\ phase' \in JobPhases => \A j \in todo' : j.group # cur'.group
                    /\ phase' \in {"get", "skip"} => Known(table', cur')
    BY <1>1 DEF JobsKnown, JobPhases, Known
<1>3. CASE ListGeneratedGroups /\ phase' = "push"
    <2> DEFINE groups == {g \in GetSpecGeneratedGroups(table) : g.class \in PushClasses}
    <2>1. PICK pick \in [groups -> Discovered] :
              /\ \A g \in groups : pick[g] \in Representatives(table, g)
              /\ todo' = {[group |-> g, cid |-> table[pick[g]].cid,
                           spec |-> table[pick[g]].spec] : g \in groups}
        BY <1>3 DEF ListGeneratedGroups
    <2>2. ASSUME NEW j \in todo' PROVE Known(table, j)
        <3>1. PICK g \in groups : j = [group |-> g, cid |-> table[pick[g]].cid, spec |-> table[pick[g]].spec]
            BY <2>1
        <3>2. pick[g] \in WithStatus(table, "SPEC_GENERATED") /\ GroupOf(table, pick[g]) = g
            BY <2>1 DEF Representatives, Pushable
        <3>3. pick[g] \in Discovered /\ table[pick[g]].status # "NONE"
            BY <3>2 DEF WithStatus
        <3>4. j.group = g /\ j.cid = table[pick[g]].cid
            BY <3>1
        <3> QED BY <3>2, <3>3, <3>4 DEF Known
    <2>3. \A j, k \in todo' : j.group = k.group => j = k
        BY <2>1
    <2>4. UNCHANGED table
        BY <1>3 DEF ListGeneratedGroups
    <2> QED BY <1>3, <2>2, <2>3, <2>4 DEF JobPhases, Known
<1>4. ASSUME NEW j \in todo, PushGroup(j)
      PROVE  /\ \A i \in todo' : Known(table', i) /\ \A k \in todo' : i.group = k.group => i = k
             /\ phase' \in JobPhases => \A i \in todo' : i.group # cur'.group
             /\ phase' \in {"get", "skip"} => Known(table', cur')
    <2>1. phase \in late /\ todo' = todo \ {j} /\ cur' = j
        BY <1>4 DEF PushGroup
    <2>2. \A i \in todo : Known(table', i)
        BY <1>2, <2>1
    <2>3. \A i, k \in todo : i.group = k.group => i = k
        BY <2>1 DEF JobsKnown
    <2> QED BY <2>1, <2>2, <2>3
<1>5. CASE phase' = "push" /\ phase \in late /\ UNCHANGED todo
    <2>1. \A i \in todo : Known(table', i) /\ \A k \in todo : i.group = k.group => i = k
        BY <1>2, <1>5 DEF JobsKnown
    <2> QED BY <1>5, <2>1 DEF JobPhases
<1>6. CASE phase' = phase /\ phase \in JobPhases /\ UNCHANGED <<todo, cur>>
    <2>1. \A i \in todo : Known(table', i) /\ i.group # cur.group /\ \A k \in todo : i.group = k.group => i = k
        BY <1>2, <1>6 DEF JobsKnown
    <2>2. phase \in {"get", "skip"} => Known(table', cur)
        BY <1>6, KnownKept DEF JobsKnown, JobPhases
    <2> QED BY <1>6, <2>1, <2>2
<1>7. CASE GetService
    <2>1. phase = "get" /\ UNCHANGED <<todo, cur, table>>
        BY <1>7 DEF GetService, work
    <2>2. \A i \in todo : Known(table', i) /\ i.group # cur.group /\ \A k \in todo : i.group = k.group => i = k
        BY <1>2, <2>1 DEF JobsKnown, JobPhases
    <2>3. Known(table', cur)
        BY <2>1, KnownKept DEF JobsKnown, JobPhases
    <2> QED BY <2>1, <2>2, <2>3
<1>8. CASE /\ phase' \in JobPhases \ {"get", "skip"} /\ phase \in JobPhases /\ UNCHANGED todo
           /\ cur'.group = cur.group
    <2>1. \A i \in todo : Known(table', i) /\ i.group # cur.group /\ \A k \in todo : i.group = k.group => i = k
        BY <1>2, <1>8 DEF JobsKnown
    <2> QED BY <1>8, <2>1
<1> QED BY <1>3, <1>4, <1>5, <1>6, <1>7, <1>8, JobSteps

\* It holds in every state.
LEMMA JobsKnownHolds == Spec => []JobsKnown
<1>1. Init => JobsKnown
    BY DEF Init, JobsKnown, JobPhases, SkippedIsGone
<1> QED BY <1>1, NextJobsKnown, TypeInvHolds, PTL DEF Spec

\* The states of a life cycle, one by one.
LEMMA StatesOfRows ==
    ASSUME NEW r, r.status \in Statuses \cup {"NONE"}
    PROVE  /\ LifecycleState(r) = "none" <=> r.status = "NONE"
           /\ LifecycleState(r) = "detected" <=> r.status = "DETECTED"
           /\ LifecycleState(r) = "waiting" <=> r.status = "SPEC_GENERATED"
           /\ LifecycleState(r) = "published" <=> r.status = "PUSHED"
           /\ LifecycleState(r) = "dismissed" <=> r.status = "DISMISSED"
           /\ LifecycleState(r) = "closed" <=> r.status \in {"RESOLVED", "STALE"}
           /\ LifecycleState(r) \in {"detected", "waiting", "published"} <=> Active(r)
BY DEF LifecycleState, Statuses, Active, Inactive

\* The open findings are the active rows, and a group is what the WHERE clause of its
\* statements selects.
LEMMA GroupsOfRows ==
    ASSUME TableOK(table)
    PROVE  /\ Lifecycle!Open = {d \in Discovered : Active(table[d])}
           /\ \A d \in Discovered : Lifecycle!Group(d) =
                 {c \in Discovered : Active(table[c]) /\ GroupOf(table, c) = GroupOf(table, d)}
<1>1. \A d \in Discovered : /\ table[d].status \in Statuses \cup {"NONE"}
                            /\ table[d].class \in {"SHADOW", "DRIFT"}
                            /\ Consistent(table[d])
    BY RowFields DEF TableOK
<1>2. Lifecycle!Open = {d \in Discovered : Active(table[d])}
    BY <1>1, StatesOfRows DEF Lifecycle!Open
<1>3. \A c, d \in Discovered :
          GroupOf(table, c) = GroupOf(table, d) <=>
              ServiceKey[c] = ServiceKey[d] /\ table[c].mid = table[d].mid
    BY <1>1 DEF GroupOf, Consistent
<1> QED BY <1>2, <1>3 DEF Lifecycle!Group

\* The active rows that a group's statements select are a group, if there are any.
LEMMA ActiveInGroupIsGroup ==
    ASSUME TableOK(table), NEW g \in Group, Consistent(g), NEW f \in ActiveInGroup(table, g)
    PROVE  /\ f \in Lifecycle!Open /\ table[f].mid = g.mid
           /\ Lifecycle!Group(f) = ActiveInGroup(table, g)
<1>1. \A d \in Discovered : InGroup(table, d, g) <=> GroupOf(table, d) = g
    BY InGroupIsGroupOf
<1>2. f \in Discovered /\ Active(table[f]) /\ GroupOf(table, f) = g
    BY <1>1 DEF ActiveInGroup
<1>3. table[f].mid = g.mid
    BY <1>2 DEF GroupOf
<1> QED BY <1>1, <1>2, <1>3, GroupsOfRows DEF ActiveInGroup

\* What a statement makes of each row is what it makes of the finding.
LEMMA RowsBecome ==
    ASSUME NEW S, NEW s, NEW doc,
           \A d \in Discovered :
               /\ LifecycleState(table'[d]) = IF d \in S THEN s ELSE LifecycleState(table[d])
               /\ WaitingDocument(table'[d]) = IF d \in S THEN doc ELSE WaitingDocument(table[d])
    PROVE  Lifecycle!Become(S, s, doc)
BY DEF Lifecycle!Become

LEMMA SetStatusBecomes ==
    ASSUME TableOK(table), NEW S, NEW s \in Statuses \ {"SPEC_GENERATED"}, NEW b,
           table' = SetStatus(table, S, s), UNCHANGED catalog,
           \A r : r.status = s => LifecycleState(r) = b,
           \A d \in Discovered : d \in S => table[d].status # "NONE"
    PROVE  Lifecycle!Become(S, b, NoSpec) /\ UNCHANGED <<parentBar, linkBar, entryBar>>
<1>1. ASSUME NEW d \in Discovered
      PROVE  /\ d \notin S => table'[d] = table[d]
             /\ d \in S => /\ table'[d].status = s /\ table'[d].mid = table[d].mid
                          /\ table'[d].cid = table[d].cid
    <2>1. table'[d] = IF d \in S THEN [table[d] EXCEPT !.status = s] ELSE table[d]
        BY DEF SetStatus
    <2>2. table[d] \in Row
        BY DEF TableOK
    <2> QED BY <2>1, <2>2 DEF Row
<1>2. Lifecycle!Become(S, b, NoSpec)
    BY <1>1, RowsBecome DEF WaitingDocument
<1>3. UNCHANGED parentBar
    BY <1>1 DEF parentBar
<1>4. UNCHANGED entryBar
    BY DEF entryBar, CatalogDocument, Exists
<1>5. UNCHANGED linkBar
    BY <1>1 DEF linkBar, LinkOf, Statuses
<1> QED BY <1>2, <1>3, <1>4, <1>5

\* Without findings there is nothing to publish.
LEMMA InitLifecycle == Init => Lifecycle!Init
<1> SUFFICES ASSUME Init PROVE Lifecycle!Init
    OBVIOUS
<1>1. \A d \in Discovered : table[d] = NoRow
    BY DEF Init
<1>2. \A id \in CatalogId : CatalogDocument(id) = NoSpec
    BY DEF Init, CatalogDocument, Exists, Absent
<1>3. /\ LifecycleState(NoRow) = "none" /\ WaitingDocument(NoRow) = NoSpec /\ NoRow.mid = NoApi
      /\ LinkOf(NoRow) = NoId
    BY DEF LifecycleState, WaitingDocument, LinkOf, NoRow
<1>4. Answered = Lifecycle!Nothing
    BY DEF Init, Answered, Lifecycle!Nothing, Lifecycle!NoDocument, NoSpec
<1> QED BY <1>1, <1>2, <1>3, <1>4 DEF Lifecycle!Init, Lifecycle!NoDocument, NoSpec

\* How a request of phase 5 comes to be answered, and what becomes of the answer.
LEMMA AnswerSteps ==
    ASSUME TypeInv, [Next]_vars
    PROVE  \/ phase # "mark" /\ phase' # "mark"
           \/ /\ phase = "mark" /\ phase' = "mark" /\ UNCHANGED cur
              /\ CatalogDocument(cur.cid)' \in {CatalogDocument(cur.cid), NoSpec}
           \/ phase = "mark" /\ phase' # "mark" /\ UNCHANGED catalog
           \/ /\ phase # "mark" /\ phase' = "mark" /\ UNCHANGED table
              /\ cur \in Job /\ cur'.cid \in CatalogId /\ cur'.spec = cur.spec
              /\ catalog' = [catalog EXCEPT ![cur'.cid] = Published(cur)]
<1>1. ASSUME Environment
      PROVE  /\ UNCHANGED <<phase, cur>>
             /\ phase = "mark" => CatalogDocument(cur.cid)' \in {CatalogDocument(cur.cid), NoSpec}
    <2>1. UNCHANGED <<phase, cur>>
        BY <1>1 DEF Environment, Discover, GoQuiet, SyncManaged, Dismiss, OperatorDelete, ForeignCreate, work
    <2>2. phase = "mark" => cur.cid \in CatalogId
        BY DEF TypeInv, TypeOK, Job
    <2>3. ASSUME NEW id \in CatalogId, OperatorDelete(id), phase = "mark"
          PROVE  CatalogDocument(cur.cid)' \in {CatalogDocument(cur.cid), NoSpec}
        <3>1. catalog'[cur.cid] \in {catalog[cur.cid], Absent}
            BY <2>2, <2>3 DEF OperatorDelete, TypeInv, TypeOK
        <3> QED BY <2>1, <3>1 DEF CatalogDocument, Exists, Absent
    <2>4. ASSUME NEW name \in Names, ForeignCreate(name), phase = "mark"
          PROVE  CatalogDocument(cur.cid)' \in {CatalogDocument(cur.cid), NoSpec}
        <3>1. First(FreeIds) # cur.cid
            BY <2>4, FreeIdType DEF ForeignCreate, FreeIds
        <3>2. catalog'[cur.cid] = catalog[cur.cid]
            BY <2>2, <2>4, <3>1 DEF ForeignCreate, TypeInv, TypeOK
        <3> QED BY <2>1, <3>2 DEF CatalogDocument, Exists
    <2>5. UNCHANGED <<catalog, cur>> => CatalogDocument(cur.cid)' = CatalogDocument(cur.cid)
        BY DEF CatalogDocument, Exists
    <2>6. \/ UNCHANGED catalog \/ \E id \in CatalogId : OperatorDelete(id)
          \/ \E name \in Names : ForeignCreate(name)
        BY <1>1 DEF Environment, Discover, GoQuiet, SyncManaged, Dismiss
    <2> QED BY <2>1, <2>3, <2>4, <2>5, <2>6
<1>2. Compare \/ Generate => phase # "mark" /\ phase' # "mark"
    BY DEF Compare, BeginComparison, SkipComparison, NothingToUpsert, UpsertFinding,
        ResolveFindings, ExpireFindings, Generate, ListDetectedGroups, FetchGroup,
        PersistSpec, FinishSpecGen
<1>3. Crash => phase' # "mark" /\ UNCHANGED catalog
    BY DEF Crash
<1>4. ASSUME Push
      PROVE  \/ phase # "mark" /\ phase' # "mark"
             \/ MarkGroupPushed
             \/ (UpdateService \/ CreateService) /\ phase' = "mark"
    BY <1>4 DEF Push, ListGeneratedGroups, PushGroup, FinishPush, GetService, UpdateService, DeleteService,
        CreateService, SearchByName, MarkGroupSkipped, NextGroup
<1>5. MarkGroupPushed => phase = "mark" /\ phase' # "mark" /\ UNCHANGED catalog
    BY DEF MarkGroupPushed, NextGroup
<1>6. ASSUME UpdateService, phase' = "mark"
      PROVE  /\ phase # "mark" /\ UNCHANGED table
             /\ cur \in Job /\ cur'.cid \in CatalogId /\ cur'.spec = cur.spec
             /\ catalog' = [catalog EXCEPT ![cur'.cid] = Published(cur)]
    <2>1. phase = "put" /\ cur' = cur /\ catalog' = [catalog EXCEPT ![cur.cid] = Published(cur)] /\ UNCHANGED table
        BY <1>6 DEF UpdateService, NextGroup
    <2>2. cur \in Job /\ cur.cid \in CatalogId
        BY <2>1 DEF TypeInv, TypeOK, Job
    <2> QED BY <2>1, <2>2
<1>7. ASSUME CreateService, phase' = "mark"
      PROVE  /\ phase # "mark" /\ UNCHANGED table
             /\ cur \in Job /\ cur'.cid \in CatalogId /\ cur'.spec = cur.spec
             /\ catalog' = [catalog EXCEPT ![cur'.cid] = Published(cur)]
    <2> DEFINE id == First(FreeIds)
    <2>1. /\ phase = "post" /\ UNCHANGED table /\ FreeIds # {} /\ cur' = [cur EXCEPT !.cid = id]
          /\ catalog' = [catalog EXCEPT ![id] = Published(cur)]
        BY <1>7 DEF CreateService, NextGroup
    <2>2. cur \in Job /\ id \in CatalogId
        BY <2>1, FreeIdType DEF FreeIds, TypeInv, TypeOK
    <2>3. cur'.cid = id /\ cur'.spec = cur.spec
        BY <2>1, <2>2 DEF Job
    <2> QED BY <2>1, <2>2, <2>3
<1>8. UNCHANGED vars => UNCHANGED <<phase, cur, catalog>>
    BY DEF vars
<1>9. UNCHANGED <<cur, catalog>> => CatalogDocument(cur.cid)' = CatalogDocument(cur.cid)
    BY DEF CatalogDocument, Exists
<1> QED BY <1>1, <1>2, <1>3, <1>4, <1>5, <1>6, <1>7, <1>8, <1>9 DEF Next, Engine

\* What does not touch the table is, to its readers, a change of the catalog, or the
\* catalog's answer, or an answer that is lost.
LEMMA CatalogStep ==
    ASSUME TypeInv, TypeInv', [Next]_vars, UNCHANGED table
    PROVE  Lifecycle!Next
<1>1. UNCHANGED <<stateBar, parentBar, documentBar, linkBar>>
    BY DEF stateBar, parentBar, documentBar, linkBar
<1>2. entryBar' \in [CatalogId -> Spec0]
    <2>1. NoSpec \in Spec0
        BY DEF NoSpec, Spec0
    <2>2. \A id \in CatalogId : CatalogDocument(id)' \in Spec0
        BY <2>1 DEF TypeInv, TypeOK, Entry, CatalogDocument, Exists
    <2> QED BY <2>2 DEF entryBar
<1>3. \A id \in CatalogId : CatalogDocument(id)' = entryBar'[id] /\ CatalogDocument(id) = entryBar[id]
    BY DEF entryBar
<1>4. ASSUME UNCHANGED Answered,
             phase = "mark" => CatalogDocument(cur.cid)' \in {CatalogDocument(cur.cid), NoSpec} /\ UNCHANGED cur
      PROVE  Lifecycle!ChangeCatalog
    <2>1. phase = "mark" => cur.cid \in CatalogId
        BY DEF TypeInv, TypeOK, Job
    <2>2. Answered \in Lifecycle!Answer => phase = "mark" /\ Answered.id = cur.cid
        BY CatalogIdAssumption DEF Answered, Lifecycle!Answer, NoId
    <2>3. Answered \in Lifecycle!Answer => entryBar'[Answered.id] \in {entryBar[Answered.id], NoSpec}
        BY <1>3, <1>4, <2>1, <2>2
    <2> QED BY <1>1, <1>2, <1>4, <2>3 DEF Lifecycle!ChangeCatalog, Lifecycle!Document,
            Lifecycle!NoDocument, NoSpec, Spec0, stateBar, parentBar, documentBar, linkBar, entryBar
<1>5. CASE phase # "mark" /\ phase' # "mark"
    BY <1>4, <1>5 DEF Answered, Lifecycle!Next
<1>6. CASE /\ phase = "mark" /\ phase' = "mark" /\ UNCHANGED cur
           /\ CatalogDocument(cur.cid)' \in {CatalogDocument(cur.cid), NoSpec}
    BY <1>4, <1>6 DEF Answered, Lifecycle!Next
<1>7. CASE phase = "mark" /\ phase' # "mark" /\ UNCHANGED catalog
    <2>1. UNCHANGED entryBar
        BY <1>7 DEF entryBar, CatalogDocument, Exists
    <2>2. Answered' = Lifecycle!Nothing
        BY <1>7 DEF Answered, Lifecycle!Nothing, Lifecycle!NoDocument, NoSpec
    <2>3. Lifecycle!Forget
        BY <1>1, <2>1, <2>2 DEF Lifecycle!Forget, stateBar, parentBar, documentBar, linkBar, entryBar
    <2> QED BY <2>3 DEF Lifecycle!Next
<1>8. CASE /\ phase # "mark" /\ phase' = "mark" /\ UNCHANGED table
           /\ cur \in Job /\ cur'.cid \in CatalogId /\ cur'.spec = cur.spec
           /\ catalog' = [catalog EXCEPT ![cur'.cid] = Published(cur)]
    <2> DEFINE i == cur'.cid
    <2>1. Answered = Lifecycle!Nothing /\ Answered' = [id |-> i, doc |-> cur.spec]
        BY <1>8 DEF Answered, Lifecycle!Nothing, Lifecycle!NoDocument, NoSpec
    <2>2. \A id \in CatalogId : catalog'[id] = IF id = i THEN Published(cur) ELSE catalog[id]
        BY <1>8 DEF TypeInv, TypeOK
    <2>3. ASSUME NEW id \in CatalogId
          PROVE  CatalogDocument(id)' = IF id = i THEN cur.spec ELSE CatalogDocument(id)
        <3>1. id # i => CatalogDocument(id)' = CatalogDocument(id)
            BY <2>2 DEF CatalogDocument, Exists
        <3>2. CatalogName(cur) # NoName
            BY <1>8, PipelineAssumption DEF CatalogName, Job, Group, Spec0, Keys
        <3>3. id = i => CatalogDocument(id)' = cur.spec
            BY <2>2, <3>2 DEF CatalogDocument, Exists, Published
        <3> QED BY <3>1, <3>3
    <2>4. entryBar' = [entryBar EXCEPT ![i] = cur.spec]
        BY <1>8, <2>3 DEF entryBar
    <2>5. cur.spec \in Lifecycle!Document
        BY <1>8 DEF Job, Spec0, Lifecycle!Document
    <2>6. Lifecycle!Accept(i, cur.spec)
        BY <1>1, <2>1, <2>4 DEF Lifecycle!Accept, stateBar, parentBar, documentBar, linkBar, entryBar
    <2> QED BY <1>8, <2>5, <2>6 DEF Lifecycle!Next
<1> QED BY <1>5, <1>6, <1>7, <1>8, AnswerSteps

LEMMA DismissStep ==
    ASSUME TypeInv, NEW d \in Discovered, Dismiss(d)
    PROVE  Lifecycle!Dismiss(d)
<1>0. TableOK(table) /\ \A c \in Discovered : table[c].status \in Statuses \cup {"NONE"}
    BY RowFields DEF TypeInv, TypeOK, TableOK, Consistency
<1>1. table' = SetStatus(table, {d}, "DISMISSED") /\ UNCHANGED catalog /\ table[d].status # "NONE"
    BY <1>0 DEF Dismiss, SetStatus, TableOK
<1>2. "DISMISSED" \in Statuses \ {"SPEC_GENERATED"} /\ \A r : r.status = "DISMISSED" => LifecycleState(r) = "dismissed"
    BY DEF Statuses, LifecycleState
<1>3. Lifecycle!Become({d}, "dismissed", NoSpec) /\ UNCHANGED <<parentBar, linkBar, entryBar>>
    BY <1>0, <1>1, <1>2, SetStatusBecomes
<1>4. LifecycleState(table[d]) # "none"
    BY <1>0, <1>1, StatesOfRows
<1>5. UNCHANGED Answered
    BY DEF Dismiss, work, Answered
<1> QED BY <1>3, <1>4, <1>5 DEF Lifecycle!Dismiss, Lifecycle!NoDocument, NoSpec, parentBar, linkBar, entryBar

\* What an upsert makes of its row, to the readers of the table: it is detected, or
\* nothing has changed.
LEMMA UpsertStep ==
    ASSUME TypeInv, NEW d \in Discovered, UpsertFinding(d), table' = Upsert(table, d, verdict[d]),
           NEW p, p = verdict[d].mid
    PROVE  Lifecycle!Detect(d, p) \/ UNCHANGED lifecycleBar
<1> DEFINE v == verdict[d]
<1>0. TableOK(table) /\ table[d] \in Row /\ Consistent(table[d]) /\ table[d].status \in Statuses \cup {"NONE"}
    BY RowFields DEF TypeInv, TypeOK, TableOK, Consistency
<1>1. v \in Verdict /\ v.class \in {"SHADOW", "DRIFT"} /\ Consistent(v)
    BY DEF UpsertFinding, TypeInv, TypeOK, Unmanaged, Consistency
<1>2. UNCHANGED <<entryBar, Answered>>
    BY DEF UpsertFinding, work, entryBar, CatalogDocument, Exists, Answered
<1>3. \A c \in Discovered : c # d => table'[c] = table[c]
    BY <1>0 DEF Upsert, TableOK
<1> DEFINE back == table[d].class # v.class \/ table[d].mid # v.mid \/ table[d].status \in {"RESOLVED", "STALE"}
           new == IF table[d].status = "NONE" THEN [NoRow EXCEPT !.status = "DETECTED"]
                  ELSE [table[d] EXCEPT !.status = IF back THEN "DETECTED" ELSE @]
<1>4. new \in Row
    BY <1>0 DEF Row, NoRow, NoSpec, Spec0, Statuses
<1>5. table'[d] = [new EXCEPT !.class = v.class, !.mid = v.mid]
    BY <1>0 DEF Upsert, TableOK
<1>6. table'[d].status = new.status /\ table'[d].mid = v.mid /\ table'[d].spec = new.spec
      /\ table'[d].cid = new.cid
    BY <1>4, <1>5 DEF Row
<1>9. UNCHANGED linkBar
    <2>1. LinkOf(table'[d]) = LinkOf(table[d])
        BY <1>0, <1>6 DEF LinkOf, NoRow, Row
    <2> QED BY <1>3, <2>1 DEF linkBar
<1>7. CASE table[d].status = "NONE" \/ back
    <2>1. table'[d].status = "DETECTED"
        BY <1>0, <1>6, <1>7 DEF NoRow, Row
    <2>2. LifecycleState(table'[d]) = "detected" /\ WaitingDocument(table'[d]) = NoSpec
        BY <2>1 DEF LifecycleState, WaitingDocument
    <2>3. Lifecycle!Become({d}, "detected", NoSpec)
        BY <1>3, <2>2, RowsBecome
    <2>4. parentBar' = [parentBar EXCEPT ![d] = p]
        BY <1>3, <1>6 DEF parentBar
    <2>5. table[d].status \in {"NONE", "RESOLVED", "STALE"} \/ v.mid # table[d].mid
        BY <1>0, <1>1, <1>7 DEF Consistent, Row
    <2>6. LifecycleState(table[d]) \in {"none", "closed"} \/ p # table[d].mid
        BY <1>0, <2>5, StatesOfRows
    <2>7. Lifecycle!Detect(d, p)
        BY <1>2, <1>9, <2>3, <2>4, <2>6
        DEF Lifecycle!Detect, Lifecycle!NoDocument, NoSpec, parentBar, linkBar, entryBar
    <2> QED BY <2>7
<1>8. CASE ~(table[d].status = "NONE" \/ back)
    <2>1. new = table[d]
        BY <1>0, <1>8 DEF Row
    <2>2. table'[d].status = table[d].status /\ table'[d].mid = table[d].mid /\ table'[d].spec = table[d].spec
        BY <1>6, <1>8, <2>1
    <2>3. \A c \in Discovered : /\ table'[c].status = table[c].status /\ table'[c].mid = table[c].mid
                                /\ table'[c].spec = table[c].spec
        BY <1>3, <2>2
    <2> QED BY <1>2, <1>9, <2>3 DEF lifecycleBar, stateBar, parentBar, documentBar, LifecycleState, WaitingDocument
<1> QED BY <1>7, <1>8

\* MarkResolved and MarkStale close open findings.
LEMMA CloseStep ==
    ASSUME TypeInv, NEW S, S \subseteq {d \in Discovered : Active(table[d])},
           NEW s \in {"RESOLVED", "STALE"}, table' = SetStatus(table, S, s), UNCHANGED <<catalog, Answered>>
    PROVE  Lifecycle!Close(S)
<1>0. TableOK(table)
    BY DEF TypeInv, TypeOK, TableOK, Consistency
<1>1. s \in Statuses \ {"SPEC_GENERATED"} /\ \A r : r.status = s => LifecycleState(r) = "closed"
    BY DEF Statuses, LifecycleState
<1>2. Lifecycle!Become(S, "closed", NoSpec) /\ UNCHANGED <<parentBar, linkBar, entryBar>>
    BY <1>0, <1>1, SetStatusBecomes DEF Active
<1>3. S \subseteq Lifecycle!Open
    BY <1>0, GroupsOfRows
<1> QED BY <1>2, <1>3 DEF Lifecycle!Close, Lifecycle!NoDocument, NoSpec, parentBar, linkBar, entryBar

\* UpdateGroupSpec documents the group that its WHERE clause selects, if any of it is left.
LEMMA DescribeStep ==
    ASSUME TypeInv, DocumentInv, phase = "write", UNCHANGED <<catalog, Answered>>,
           table' = UpdateGroupSpec(table, cur.group, cur.spec)
    PROVE  (\E f \in Discovered : Lifecycle!Describe(f, cur.spec)) \/ UNCHANGED lifecycleBar
<1> DEFINE A == ActiveInGroup(table, cur.group)
<1>0. TableOK(table) /\ cur.group \in Group /\ Consistent(cur.group)
    BY DEF TypeInv, TypeOK, TableOK, Consistency, Job
<1>1. A \subseteq cur.spec.ops /\ cur.spec.parent = cur.group.mid
    BY DEF DocumentInv, WriteCovers, Covers
<1>2. UNCHANGED entryBar
    BY DEF entryBar, CatalogDocument, Exists
<1>3. ASSUME NEW d \in Discovered
      PROVE  /\ d \notin A => table'[d] = table[d]
             /\ d \in A => /\ table'[d].status = "SPEC_GENERATED" /\ table'[d].spec = cur.spec
                          /\ table'[d].mid = table[d].mid /\ table'[d].cid = table[d].cid
    <2>1. table'[d] = IF d \in A THEN [table[d] EXCEPT !.spec = cur.spec, !.status = "SPEC_GENERATED"]
                      ELSE table[d]
        BY DEF UpdateGroupSpec
    <2>2. table[d] \in Row
        BY <1>0 DEF TableOK
    <2> QED BY <2>1, <2>2 DEF Row
<1>4. Lifecycle!Become(A, "waiting", cur.spec)
    <2>1. \A r : r.status = "SPEC_GENERATED" =>
              LifecycleState(r) = "waiting" /\ WaitingDocument(r) = r.spec
        BY DEF LifecycleState, WaitingDocument
    <2> QED BY <1>3, <2>1, RowsBecome
<1>5. UNCHANGED parentBar
    BY <1>3 DEF parentBar
<1>8. UNCHANGED linkBar
    BY <1>3 DEF linkBar, LinkOf, ActiveInGroup, Active
<1>6. CASE A = {}
    <2>1. \A d \in Discovered : table'[d] = table[d]
        BY <1>3, <1>6
    <2> QED BY <1>2, <1>5, <1>8, <2>1 DEF lifecycleBar, stateBar, documentBar
<1>7. ASSUME NEW f \in A PROVE f \in Discovered /\ Lifecycle!Describe(f, cur.spec)
    <2>1. f \in Lifecycle!Open /\ table[f].mid = cur.group.mid /\ Lifecycle!Group(f) = A
        BY <1>0, ActiveInGroupIsGroup
    <2>2. f \in Discovered
        BY DEF ActiveInGroup
    <2> QED BY <1>1, <1>2, <1>4, <1>5, <1>8, <2>1, <2>2 DEF Lifecycle!Describe, parentBar, linkBar, entryBar
<1> QED BY <1>6, <1>7

\* MarkPushed publishes a group: what still waits of it has the document that the
\* entry took, and the id of that entry is recorded in all of its rows.
LEMMA PublishStep ==
    ASSUME TypeInv, DocumentInv, phase = "mark", phase' # "mark", UNCHANGED catalog,
           table' = MarkPushed(table, cur.group, cur.cid)
    PROVE  (\E f \in Discovered : Lifecycle!Publish(f)) \/ Lifecycle!Forget
<1> DEFINE A == ActiveInGroup(table, cur.group)
<1>0. TableOK(table) /\ cur.group \in Group /\ Consistent(cur.group) /\ cur.cid \in CatalogId
    BY DEF TypeInv, TypeOK, TableOK, Consistency, Job
<1>1. ASSUME NEW d \in A, table[d].status = "SPEC_GENERATED" PROVE table[d].spec = cur.spec
    <2>1. d \in Discovered /\ InGroup(table, d, cur.group)
        BY DEF ActiveInGroup
    <2>2. GroupOf(table, d) = cur.group
        BY <1>0, <2>1, InGroupIsGroupOf
    <2> QED BY <1>1, <2>1, <2>2 DEF DocumentInv, JobsAgree, JobPhases, Agrees, WithStatus
<1>2. /\ Answered = [id |-> cur.cid, doc |-> cur.spec] /\ Answered \in Lifecycle!Answer
      /\ Answered' = Lifecycle!Nothing
    BY <1>0 DEF Answered, TypeInv, TypeOK, Job, Spec0, NoSpec, Lifecycle!Answer, Lifecycle!Document,
                Lifecycle!Nothing, Lifecycle!NoDocument
<1>3. UNCHANGED entryBar
    BY DEF entryBar, CatalogDocument, Exists
<1>4. ASSUME NEW d \in Discovered
      PROVE  /\ d \notin A => table'[d] = table[d]
             /\ d \in A => /\ table'[d].status = "PUSHED" /\ table'[d].mid = table[d].mid
                          /\ table'[d].cid = cur.cid
    <2>1. table'[d] = IF d \in A THEN [table[d] EXCEPT !.status = "PUSHED", !.cid = cur.cid] ELSE table[d]
        BY DEF MarkPushed
    <2>2. table[d] \in Row
        BY <1>0 DEF TableOK
    <2> QED BY <2>1, <2>2 DEF Row
<1>5. Lifecycle!Become(A, "published", NoSpec)
    <2>1. \A r : r.status = "PUSHED" => LifecycleState(r) = "published" /\ WaitingDocument(r) = NoSpec
        BY DEF LifecycleState, WaitingDocument
    <2> QED BY <1>4, <2>1, RowsBecome
<1>6. UNCHANGED parentBar
    BY <1>4 DEF parentBar
<1>7. CASE A = {}
    <2>1. \A d \in Discovered : table'[d] = table[d]
        BY <1>4, <1>7
    <2> QED BY <1>2, <1>3, <1>6, <2>1 DEF Lifecycle!Forget, stateBar, parentBar, documentBar, linkBar, entryBar
<1>8. ASSUME NEW f \in A PROVE f \in Discovered /\ Lifecycle!Publish(f)
    <2>1. f \in Lifecycle!Open /\ Lifecycle!Group(f) = A
        BY <1>0, ActiveInGroupIsGroup
    <2>2. f \in Discovered /\ A \subseteq Discovered
        BY DEF ActiveInGroup
    <2>3. ASSUME NEW d \in A, LifecycleState(table[d]) = "waiting"
          PROVE  WaitingDocument(table[d]) = cur.spec
        <3>1. table[d].status = "SPEC_GENERATED"
            BY <1>0, <2>2, <2>3, RowFields, StatesOfRows DEF TableOK
        <3> QED BY <1>1, <3>1 DEF WaitingDocument
    <2>4. \A d \in Lifecycle!Waiting(A) : documentBar[d] = Answered.doc
        BY <1>0, <1>2, <2>2, <2>3 DEF Lifecycle!Waiting, documentBar
    <2>5. linkBar' = [d \in Discovered |-> IF d \in A THEN Answered.id ELSE linkBar[d]]
        BY <1>2, <1>4 DEF linkBar, LinkOf
    <2> QED BY <1>2, <1>3, <1>5, <1>6, <2>1, <2>2, <2>4, <2>5
            DEF Lifecycle!Publish, Lifecycle!NoDocument, NoSpec, parentBar, linkBar, entryBar, documentBar
<1> QED BY <1>7, <1>8

\* MarkPushedSkipped forgoes what waits of a group, where that is configured.
LEMMA ForgoStep ==
    ASSUME TypeInv, ForgoneIfConfigured, JobsKnown, phase = "skip", UNCHANGED <<catalog, Answered>>,
           table' = MarkPushedSkipped(table, cur.group)
    PROVE  (\E f \in Discovered : Lifecycle!Forgo(f)) \/ UNCHANGED lifecycleBar
<1> DEFINE A == ActiveInGroup(table, cur.group)
           W == {d \in WithStatus(table, "SPEC_GENERATED") : InGroup(table, d, cur.group)}
<1>0. TableOK(table) /\ cur.group \in Group /\ Consistent(cur.group)
    BY DEF TypeInv, TypeOK, TableOK, Consistency, Job
<1>1. "PUSHED" \in Statuses \ {"SPEC_GENERATED"} /\ \A r : r.status = "PUSHED" => LifecycleState(r) = "published"
    BY DEF Statuses, LifecycleState
<1>2. Lifecycle!Become(W, "published", NoSpec) /\ UNCHANGED <<parentBar, linkBar, entryBar>>
    BY <1>0, <1>1, SetStatusBecomes DEF MarkPushedSkipped, WithStatus
<1>3. W \subseteq A /\ A \subseteq Discovered
    BY DEF WithStatus, ActiveInGroup, Active, Inactive
<1>4. CASE W = {}
    <2>1. \A d \in Discovered : table'[d] = table[d]
        BY <1>4 DEF MarkPushedSkipped, SetStatus
    <2> QED BY <1>2, <2>1 DEF lifecycleBar, stateBar, documentBar
<1>5. ASSUME NEW f \in W PROVE f \in Discovered /\ Lifecycle!Forgo(f)
    <2>1. Lifecycle!Group(f) = A
        BY <1>0, <1>3, ActiveInGroupIsGroup
    <2>2. \A d \in Discovered : LifecycleState(table[d]) = "waiting" <=> table[d].status = "SPEC_GENERATED"
        BY <1>0, RowFields, StatesOfRows DEF TableOK
    <2>3. Lifecycle!Waiting(A) = W
        BY <1>3, <2>2 DEF Lifecycle!Waiting, WithStatus, ActiveInGroup
    <2>4. ~RePushDeleted
        BY DEF ForgoneIfConfigured
    <2>5. PICK g \in Discovered : /\ table[g].status # "NONE" /\ GroupOf(table, g) = cur.group
                                 /\ table[g].cid = cur.cid /\ cur.cid \in CatalogId /\ ~Exists(cur.cid)
        <3>1. cur.cid \in CatalogId /\ ~Exists(cur.cid)
            BY DEF JobsKnown, SkippedIsGone
        <3>2. cur.cid # NoId
            BY <3>1, CatalogIdAssumption DEF NoId
        <3> QED BY <3>1, <3>2 DEF JobsKnown, Known
    <2>6. GroupOf(table, f) = cur.group
        BY <1>0, InGroupIsGroupOf DEF WithStatus
    <2>7. ServiceKey[g] = ServiceKey[f] /\ table[g].mid = table[f].mid
        BY <2>5, <2>6 DEF GroupOf
    <2>8. f \in Discovered
        BY DEF WithStatus
    <2>9. /\ parentBar[g] = parentBar[f] /\ linkBar[g] = cur.cid
          /\ entryBar[cur.cid] = NoSpec
        BY <2>5, <2>7, <2>8 DEF parentBar, linkBar, LinkOf, entryBar, CatalogDocument
    <2> QED BY <1>2, <1>3, <2>1, <2>3, <2>4, <2>5, <2>7, <2>8, <2>9
            DEF Lifecycle!Forgo, Lifecycle!NoDocument, NoSpec, parentBar, linkBar, entryBar
<1>6. W = {} \/ \E f \in Discovered : Lifecycle!Forgo(f)
    BY <1>5, Zenon
<1> QED BY <1>4, <1>6

\* Every step of the phases and of those around them is a step of the life cycle,
\* or none.
LEMMA LifecycleStep ==
    ASSUME TypeInv, TypeInv', DocumentInv, ForgoneIfConfigured, JobsKnown, [Next]_vars
    PROVE  [Lifecycle!Next]_lifecycleBar
<1>1. CASE UNCHANGED table
    BY <1>1, CatalogStep
<1>2. CASE ~UNCHANGED table
    <2>0. UNCHANGED catalog
        BY <1>2, TableOrCatalog
    <2>a. phase # "mark" => UNCHANGED Answered
        BY <1>2, AnswerSteps DEF Answered
    <2>1. CASE \E d \in Discovered : Dismiss(d)
        BY <2>1, DismissStep DEF Lifecycle!Next
    <2>2. ASSUME NEW d \in Discovered, UpsertFinding(d), table' = Upsert(table, d, verdict[d])
          PROVE  [Lifecycle!Next]_lifecycleBar
        <3>1. PICK p \in Api \cup {NoApi} : p = verdict[d].mid
            BY DEF TypeInv, TypeOK, Verdict
        <3>2. Lifecycle!Detect(d, p) \/ UNCHANGED lifecycleBar
            BY <2>2, <3>1, UpsertStep
        <3> QED BY <3>2 DEF Lifecycle!Next
    <2>3. CASE phase = "resolve" /\ table' = MarkResolved(table, confirmed)
        <3> DEFINE S == {d \in Discovered : Active(table[d]) /\ d \notin confirmed}
        <3>1. Lifecycle!Close(S)
            BY <2>0, <2>a, <2>3, CloseStep DEF MarkResolved
        <3>2. S \in SUBSET Discovered
            OBVIOUS
        <3> QED BY <3>1, <3>2 DEF Lifecycle!Next
    <2>4. CASE phase = "stale" /\ table' = MarkStale(table, Quiet)
        <3> DEFINE S == {d \in Discovered : Active(table[d]) /\ d \in Quiet}
        <3>1. Lifecycle!Close(S)
            BY <2>0, <2>a, <2>4, CloseStep DEF MarkStale
        <3>2. S \in SUBSET Discovered
            OBVIOUS
        <3> QED BY <3>1, <3>2 DEF Lifecycle!Next
    <2>5. CASE phase = "write" /\ table' = UpdateGroupSpec(table, cur.group, cur.spec)
        <3>1. cur.spec \in Lifecycle!Document
            BY <2>5 DEF TypeInv, TypeOK, Job, Spec0, Lifecycle!Document
        <3> QED BY <2>0, <2>a, <2>5, <3>1, DescribeStep DEF Lifecycle!Next
    <2>6. CASE phase = "mark" /\ phase' # "mark" /\ table' = MarkPushed(table, cur.group, cur.cid)
        BY <2>0, <2>6, PublishStep DEF Lifecycle!Next
    <2>7. CASE phase = "skip" /\ table' = MarkPushedSkipped(table, cur.group)
        BY <2>0, <2>a, <2>7, ForgoStep DEF Lifecycle!Next
    <2> QED BY <1>2, <2>1, <2>2, <2>3, <2>4, <2>5, <2>6, <2>7, TableSteps
<1> QED BY <1>1, <1>2

\* internal/models/constants.go:54-70, catalog.go:106-215: the rows live as
\* FindingLifecycle promises, for any operations, services, managed APIs, and any
\* number of failures; in particular the id recorded in a group's rows is that of the
\* entry that took the group's document.
THEOREM LifecycleImplemented == Spec => ImplementsLifecycle
<1>1. Init => ForgoneIfConfigured
    BY DEF Init, ForgoneIfConfigured
<1>2. TypeInv /\ TypeInv' /\ DocumentInv /\ ForgoneIfConfigured /\ JobsKnown /\ [Next]_vars
        => [Lifecycle!Next]_<<stateBar, parentBar, documentBar, linkBar, entryBar, Answered>>
    BY LifecycleStep DEF lifecycleBar
<1> QED
    BY <1>1, <1>2, NextForgoneIfConfigured, InitLifecycle, TypeInvHolds, DocumentInvHolds, JobsKnownHolds, PTL
    DEF Spec, ImplementsLifecycle, Lifecycle!Spec, Lifecycle!lifecycleVars, stateBar, parentBar,
        documentBar, linkBar, entryBar
=============================================================================
