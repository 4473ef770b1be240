------------------------ MODULE CollisionResolution ------------------------
(***************************************************************************)
(* The loop of ResolveCollisions followed by Classify.  The collisions     *)
(* come out of a Go map, so they are visited in any order, and each one    *)
(* may query PostgreSQL for the endpoint hostname, which may fail.         *)
(***************************************************************************)
EXTENDS Classification

\* A query returns finitely many rows.
ASSUME TablesAreFinite == IsFiniteSet(Discovered)

VARIABLES
    discovered,     \* what GetAll returned
    managed,        \* what GetAllActive returned: [Api -> SUBSET Endpoints]
    todo,           \* collisions not yet visited
    reclassified,   \* reclassify map
    ambiguous,      \* ambiguous map
    lookupFailed,   \* collisions whose hostname lookup failed
    result         \* of Classify, <<>> until it has run

vars == <<discovered, managed, todo, reclassified, ambiguous, lookupFailed, result>>

TypeOK ==
    /\ discovered \subseteq Discovered
    /\ managed \in [Api -> SUBSET Endpoints]
    /\ todo \subseteq Endpoints
    /\ lookupFailed \subseteq Endpoints
    /\ reclassified \subseteq Discovered
    /\ ambiguous \subseteq Discovered
    /\ result = <<>> \/ result \in [Discovered -> Verdict]

Init ==
    /\ discovered \in SUBSET Discovered
    /\ managed \in [Api -> SUBSET Endpoints]
    /\ todo = Collisions(discovered, managed)
    /\ reclassified = {}
    /\ ambiguous = {}
    /\ lookupFailed = {}
    /\ result = <<>>

\* Mutant: operations that have lost no longer count for their service.
ResolveSequentially(e) ==
    /\ e \in todo
    /\ LET left == discovered \ reclassified
       IN  \E host \in {Hostname[OwnerOf(managed, e)], NoHost} :
            /\ reclassified' = reclassified \cup LosersAt(left, managed, e, host)
            /\ ambiguous' = ambiguous \cup AmbiguousAt(left, managed, e, host)
            /\ lookupFailed' = IF host = Hostname[OwnerOf(managed, e)]
                               THEN lookupFailed ELSE lookupFailed \cup {e}
    /\ todo' = todo \ {e}
    /\ UNCHANGED <<discovered, managed, result>>

\* One iteration.  The hostname is only asked for when affinity ties.
Resolve(e) ==
    /\ e \in todo
    /\ \E host \in {Hostname[OwnerOf(managed, e)], NoHost} :
        /\ reclassified' = reclassified \cup LosersAt(discovered, managed, e, host)
        /\ ambiguous' = ambiguous \cup AmbiguousAt(discovered, managed, e, host)
        /\ lookupFailed' = IF host = Hostname[OwnerOf(managed, e)]
                           THEN lookupFailed ELSE lookupFailed \cup {e}
    /\ todo' = todo \ {e}
    /\ UNCHANGED <<discovered, managed, result>>

Finish ==
    /\ todo = {} /\ result = <<>>
    /\ result' = Classify(discovered, managed, reclassified)
    /\ UNCHANGED <<discovered, managed, todo, reclassified, ambiguous, lookupFailed>>

Next == (\E e \in Endpoints : Resolve(e)) \/ Finish

Spec == Init /\ [][Next]_vars

Done == result # <<>>

Reported == {d \in discovered : result[d].class \in {"SHADOW", "DRIFT"}}

-----------------------------------------------------------------------------
\* The order in which the Go map yields the collisions does not show in the
\* result: with every lookup answered, the loop computes the function Verdicts.
OrderIrrelevant ==
    Done /\ lookupFailed = {} => result = Verdicts(discovered, managed)

\* A managed operation is never credited to two services: unless the collision
\* was declared ambiguous, the operations that remain MANAGED at an endpoint
\* all belong to one service (collision.go, "Reclassify losers").
OneServicePerManagedOperation ==
    Done => \A c, d \in discovered \ ambiguous :
                /\ Endpoint[c] = Endpoint[d]
                /\ result[c].class = "MANAGED"
                /\ result[d].class = "MANAGED"
                => ServiceKey[c] = ServiceKey[d]

\* Why w keeps an endpoint that k serves too: it serves more operations of the
\* API, or as many, and then its host, or the lack of one, is what the lookup
\* returned; of several such services it is the first.
Prevails(w, k, e) ==
    LET a     == OwnerOf(managed, e)
        mine  == Affinity(discovered, managed, w, a)
        other == Affinity(discovered, managed, k, a)
        host  == IF e \in lookupFailed THEN NoHost ELSE Hostname[a]
    IN  \/ other < mine
        \/ /\ other = mine
           /\ DomainOf(discovered, w) = host
           /\ DomainOf(discovered, k) = host => w < k

\* An endpoint is lost to one service, the winner: it keeps all of its operations
\* there, every other service loses all of its own, and it prevails over each of
\* them, whatever was lost at other endpoints before.  Nobody loses to nobody:
\* what is ambiguous is not reclassified (collision.go:140-189).
LosersYieldToWinner ==
    /\ ambiguous \cap reclassified = {}
    /\ \A d \in reclassified :
          LET e == Endpoint[d]
          IN  \E w \in KeysAt(discovered, e) :
                  /\ \A c \in At(discovered, e) : c \in reclassified <=> ServiceKey[c] # w
                  /\ \A k \in KeysAt(discovered, e) \ {w} : Prevails(w, k, e)

\* A DRIFT finding names an API that really manages another operation of the
\* same service after the collisions were resolved, and a SHADOW service has
\* no managed operation left (classifier.go:17-18).
DriftHasManagedSibling ==
    Done => \A d \in Reported :
        LET siblings == {c \in discovered : /\ ServiceKey[c] = ServiceKey[d]
                                            /\ result[c].class = "MANAGED"}
        IN  IF result[d].class = "DRIFT"
            THEN \E c \in siblings : result[c].mid = result[d].mid
            ELSE siblings = {}
=============================================================================
