--------------------------- MODULE UnmanagedStore ---------------------------
(***************************************************************************)
(* The table adc_unmanaged_apis and the SQL statements of                  *)
(* internal/store/unmanaged_repo.go that read and write it.  Every         *)
(* statement is atomic, so each one is an operator from table to table (or *)
(* to what it returns).  Timestamps are kept only as the comparisons the   *)
(* statements make with them: "confirmed" is the set of rows whose         *)
(* last_confirmed_at is not before the start of the cycle, "quiet" the set *)
(* of operations last seen more than stale_after ago.                      *)
(***************************************************************************)
EXTENDS Classification

CONSTANTS
    CatalogId       \* catalog_service_id values (UUIDs issued by the catalog)

NoId == 0           \* catalog_service_id IS NULL

ASSUME CatalogIdAssumption == CatalogId \subseteq Nat \ {0}

Keys     == {ServiceKey[d] : d \in Discovered}
Statuses == {"DETECTED", "SPEC_GENERATED", "PUSHED", "DISMISSED", "RESOLVED", "STALE"}

\* openapi_spec: the operations it lists and its parent API.  A generated
\* document always lists an operation, so the empty one stands for NULL.
Spec0  == [ops : SUBSET Discovered, parent : Api \cup {NoApi}]
NoSpec == [ops |-> {}, parent |-> NoApi]

\* A row; "NONE" is the status of an operation that has no row.
Row == [status : Statuses \cup {"NONE"},
        class  : {"SHADOW", "DRIFT"},
        mid    : Api \cup {NoApi},
        cid    : CatalogId \cup {NoId},
        spec   : Spec0]

NoRow == [status |-> "NONE", class |-> "SHADOW", mid |-> NoApi, cid |-> NoId, spec |-> NoSpec]

\* Mutant: DISMISSED is forgotten in the NOT IN lists.
InactiveForgotten == {"STALE", "RESOLVED"}
Inactive == {"DISMISSED", "STALE", "RESOLVED"}

Active(r) == r.status \notin Inactive \cup {"NONE"}

(***************************************************************************)
(* Service groups: SELECT DISTINCT service_key, classification,            *)
(* managed_api_id.                                                         *)
(***************************************************************************)
Group == [key : Keys, class : {"SHADOW", "DRIFT"}, mid : Api \cup {NoApi}]

GroupOf(t, d) == [key |-> ServiceKey[d], class |-> t[d].class, mid |-> t[d].mid]

\* WHERE service_key = .. AND classification = .. AND (.. IS NULL OR managed_api_id = ..)
InGroup(t, d, g) ==
    /\ ServiceKey[d] = g.key
    /\ t[d].class = g.class
    /\ g.mid = NoApi \/ t[d].mid = g.mid

WithStatus(t, s) == {d \in Discovered : t[d].status = s}

ActiveInGroup(t, g) == {d \in Discovered : InGroup(t, d, g) /\ Active(t[d])}

-----------------------------------------------------------------------------
\* Mutants: a change of classification or parent keeps the status; managed_api_id
\* is not among the columns that are updated.
UpsertKeepingChanged(t, d, v) ==
    LET r == t[d]
        new == IF r.status = "NONE" THEN [NoRow EXCEPT !.status = "DETECTED"]
               ELSE [r EXCEPT !.status = IF @ \in {"RESOLVED", "STALE"} THEN "DETECTED" ELSE @]
    IN  [t EXCEPT ![d] = [new EXCEPT !.class = v.class, !.mid = v.mid]]

UpsertKeepingParent(t, d, v) ==
    [t EXCEPT ![d] = [IF @.status = "NONE" THEN [NoRow EXCEPT !.mid = v.mid] ELSE @
                      EXCEPT !.class = v.class, !.status = "DETECTED"]]

\* INSERT .. ON CONFLICT (discovered_api_id) DO UPDATE
Upsert(t, d, v) ==
    LET r == t[d]
        back == r.class # v.class \/ r.mid # v.mid \/ r.status \in {"RESOLVED", "STALE"}
        new == IF r.status = "NONE" THEN [NoRow EXCEPT !.status = "DETECTED"]
               ELSE [r EXCEPT !.status = IF back THEN "DETECTED" ELSE @]
    IN  [t EXCEPT ![d] = [new EXCEPT !.class = v.class, !.mid = v.mid]]

SetStatus(t, S, s) == [d \in Discovered |-> IF d \in S THEN [t[d] EXCEPT !.status = s] ELSE t[d]]

\* Mutant: what has been pushed is never resolved.
MarkResolvedUnlessPushed(t, confirmed) ==
    SetStatus(t, {d \in Discovered : /\ Active(t[d]) /\ t[d].status # "PUSHED"
                                     /\ d \notin confirmed}, "RESOLVED")

MarkResolved(t, confirmed) ==
    SetStatus(t, {d \in Discovered : Active(t[d]) /\ d \notin confirmed}, "RESOLVED")

MarkStale(t, quiet) ==
    SetStatus(t, {d \in Discovered : Active(t[d]) /\ d \in quiet}, "STALE")

GetDetectedGroups(t) == {GroupOf(t, d) : d \in WithStatus(t, "DETECTED")}

GetGroupOperations(t, g) == ActiveInGroup(t, g)

\* Mutant: WHERE status = 'DETECTED'.
UpdateDetectedSpec(t, g, s) ==
    [d \in Discovered |-> IF d \in ActiveInGroup(t, g) /\ t[d].status = "DETECTED"
                          THEN [t[d] EXCEPT !.spec = s, !.status = "SPEC_GENERATED"]
                          ELSE t[d]]

UpdateGroupSpec(t, g, s) ==
    [d \in Discovered |-> IF d \in ActiveInGroup(t, g)
                          THEN [t[d] EXCEPT !.spec = s, !.status = "SPEC_GENERATED"]
                          ELSE t[d]]

(***************************************************************************)
(* DISTINCT ON (group) .. ORDER BY catalog_service_id NULLS LAST: one row  *)
(* of the group gives the catalog id and the document; it has an id if any *)
(* of them has one.  UUIDs order the ids arbitrarily.                      *)
(***************************************************************************)
Pushable(t) == {d \in WithStatus(t, "SPEC_GENERATED") : t[d].spec # NoSpec}

GetSpecGeneratedGroups(t) == {GroupOf(t, d) : d \in Pushable(t)}

Representatives(t, g) ==
    LET rows == {d \in Pushable(t) : GroupOf(t, d) = g}
        known == {d \in rows : t[d].cid # NoId}
    IN  IF known = {} THEN rows ELSE known

\* Mutant: catalog_service_id = COALESCE(catalog_service_id, $1).
MarkPushedKeepingId(t, g, id) ==
    [d \in Discovered |-> IF d \in ActiveInGroup(t, g)
                          THEN [t[d] EXCEPT !.status = "PUSHED",
                                            !.cid = IF @ = NoId THEN id ELSE @]
                          ELSE t[d]]

MarkPushed(t, g, id) ==
    [d \in Discovered |-> IF d \in ActiveInGroup(t, g)
                          THEN [t[d] EXCEPT !.status = "PUSHED", !.cid = id]
                          ELSE t[d]]

MarkPushedSkipped(t, g) ==
    SetStatus(t, {d \in WithStatus(t, "SPEC_GENERATED") : InGroup(t, d, g)}, "PUSHED")

TrackedCatalogServiceIDs(t) == {t[d].cid : d \in Discovered} \ {NoId}
=============================================================================
