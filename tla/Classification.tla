--------------------------- MODULE Classification ---------------------------
(***************************************************************************)
(* Phase 3 as a function: which discovered operations are managed, which   *)
(* are SHADOW and which are DRIFT (internal/comparison: matcher.go,        *)
(* collision.go, classifier.go).  Everything here is constant-level; the   *)
(* loop that the code runs is in CollisionResolution.                      *)
(*                                                                         *)
(* A discovered operation is its adc_discovered_apis.id.  Ids are numbered *)
(* in the order GetAll returns the rows (service_key, http_method,         *)
(* resource_path), service keys in string order, and APIs from the last    *)
(* apim_api_id to the first, because "first" and "last" in the code refer  *)
(* to them.  An endpoint is a pair (http_method, path); hosts carry no     *)
(* port.                                                                   *)
(***************************************************************************)
EXTENDS Integers, FiniteSets

CONSTANTS
    Discovered,     \* ids of discovered operations
    ServiceKey,     \* [Discovered -> Nat \ {0}], the service an operation belongs to
    Endpoint,       \* [Discovered -> endpoints], its (method, resource_path)
    Domain,         \* [Discovered -> hosts], its request_domain
    Api,            \* primary keys of managed APIs
    Hostname,       \* [Api -> hosts], endpoint_hostname
    NoHost          \* the empty host name

NoApi == 0          \* managed_api_id IS NULL
NoKey == 0          \* no winner

Endpoints == {Endpoint[d] : d \in Discovered}

ASSUME ClassificationAssumption ==
    /\ Discovered \subseteq Nat \ {0}
    /\ Api \subseteq Nat \ {0}
    /\ ServiceKey \in [Discovered -> Nat \ {0}]

First(S) == CHOOSE x \in S : \A y \in S : x <= y

\* GetAllActive orders by apim_api_id and Match overwrites its index entry, so
\* the last API that declares the endpoint, First in our numbering, is the one that
\* matches.
MatchedApi(M, d) ==
    LET owners == {a \in Api : Endpoint[d] \in M[a]}
    IN  IF owners = {} THEN NoApi ELSE First(owners)

Matched(D, M) == {d \in D : MatchedApi(M, d) # NoApi}

(***************************************************************************)
(* Collisions: an endpoint that operations of several services match.      *)
(***************************************************************************)
KeysAt(D, e) == {ServiceKey[d] : d \in {x \in D : Endpoint[x] = e}}

Collisions(D, M) ==
    {e \in Endpoints : /\ Cardinality(KeysAt(D, e)) > 1
                       /\ \E d \in Matched(D, M) : Endpoint[d] = e}

OwnerOf(M, e) == LET owners == {a \in Api : e \in M[a]} IN First(owners)

\* How many of the API's operations the service is seen to serve.
Affinity(D, M, k, a) == Cardinality({e \in M[a] : k \in KeysAt(D, e)})

TiedKeys(D, M, e) ==
    LET score(k) == Affinity(D, M, k, OwnerOf(M, e))
    IN  {k \in KeysAt(D, e) : \A j \in KeysAt(D, e) : score(j) <= score(k)}

\* The first non-empty request_domain of the service.
DomainOf(D, k) ==
    LET named == {d \in D : ServiceKey[d] = k /\ Domain[d] # NoHost}
    IN  IF named = {} THEN NoHost ELSE Domain[First(named)]

\* Mutant: of the services that tie, the first wins.
WinnerByName(D, M, e, host) == First(TiedKeys(D, M, e))

\* "host" is what the endpoint-hostname lookup returned: Hostname[api], or
\* NoHost when the query failed.
Winner(D, M, e, host) ==
    LET tied   == TiedKeys(D, M, e)
        onHost == {k \in tied : DomainOf(D, k) = host}
    IN  IF Cardinality(tied) = 1 THEN First(tied)
        ELSE IF onHost # {} THEN First(onHost)
        ELSE NoKey

At(D, e) == {d \in D : Endpoint[d] = e}

\* Mutant: a service that ties with the winner is not reclassified.
LosersBelow(D, M, e, host) ==
    IF Winner(D, M, e, host) = NoKey THEN {}
    ELSE {d \in At(D, e) : ServiceKey[d] \notin TiedKeys(D, M, e)}

LosersAt(D, M, e, host) ==
    LET w == Winner(D, M, e, host)
    IN  IF w = NoKey THEN {} ELSE {d \in At(D, e) : ServiceKey[d] # w}

AmbiguousAt(D, M, e, host) ==
    IF Winner(D, M, e, host) = NoKey THEN At(D, e) ELSE {}

(***************************************************************************)
(* Classify: "lost" is the set of reclassified operations.                 *)
(***************************************************************************)
StillManaged(D, M, lost) == Matched(D, M) \ lost

\* Mutant: siblings that lost their collision count.
SiblingBeforeCollisions(D, M, lost, k) ==
    LET siblings == {d \in Matched(D, M) : ServiceKey[d] = k}
    IN  IF siblings = {} THEN NoApi ELSE MatchedApi(M, First(siblings))

\* The API of the first managed operation of the service.
SiblingApi(D, M, lost, k) ==
    LET siblings == {d \in StillManaged(D, M, lost) : ServiceKey[d] = k}
    IN  IF siblings = {} THEN NoApi ELSE MatchedApi(M, First(siblings))

\* A verdict for every operation; "ABSENT" ones are not in adc_discovered_apis.
Verdict == [class : {"ABSENT", "MANAGED", "SHADOW", "DRIFT"}, mid : Api \cup {NoApi}]

Classify(D, M, lost) ==
    [d \in Discovered |->
        LET parent == SiblingApi(D, M, lost, ServiceKey[d])
        IN  IF d \notin D THEN [class |-> "ABSENT", mid |-> NoApi]
            ELSE IF d \in StillManaged(D, M, lost) THEN [class |-> "MANAGED", mid |-> MatchedApi(M, d)]
            ELSE IF parent # NoApi THEN [class |-> "DRIFT", mid |-> parent]
            ELSE [class |-> "SHADOW", mid |-> NoApi]]

Unmanaged(V) == {d \in Discovered : V[d].class \in {"SHADOW", "DRIFT"}}

\* The whole of steps 7 to 10 when every hostname lookup succeeds.
Verdicts(D, M) ==
    Classify(D, M, UNION {LosersAt(D, M, e, Hostname[OwnerOf(M, e)]) : e \in Collisions(D, M)})
=============================================================================
