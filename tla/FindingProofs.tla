--------------------------- MODULE FindingProofs ---------------------------
(***************************************************************************)
(* Theorems about what makes a finding and what lets it go.  The verdict   *)
(* of phase 3 (CollisionResolution): for any finite set of discovered      *)
(* operations, any services, declarations and host names, every order of   *)
(* the collisions and every answer of the host name lookups.  The row      *)
(* against the daily cleanup (Retention): for any retentions, and any      *)
(* number of changes and failures.                                         *)
(***************************************************************************)
EXTENDS CollisionResolution, Retention, TLAPS, FiniteSetTheorems

-----------------------------------------------------------------------------
(***************************************************************************)
(* Collisions: the inductive invariant.                                    *)
(***************************************************************************)
Visited == Collisions(discovered, managed) \ todo

\* What the lookup for a collision returned.
HostAt(e) == IF e \in lookupFailed THEN NoHost ELSE Hostname[OwnerOf(managed, e)]

LostAt(e) == LosersAt(discovered, managed, e, HostAt(e))
TiedAt(e) == AmbiguousAt(discovered, managed, e, HostAt(e))

\* The maps hold what every collision that was visited has left in them, and nothing else.
MapsHoldVisited ==
    /\ lookupFailed \subseteq Visited
    /\ reclassified = UNION {LostAt(e) : e \in Visited}
    /\ ambiguous = UNION {TiedAt(e) : e \in Visited}

ResultIsFinal ==
    Done => todo = {} /\ result = Classify(discovered, managed, reclassified)

CollisionInv ==
    /\ TypeOK
    /\ todo \subseteq Collisions(discovered, managed)
    /\ MapsHoldVisited
    /\ ResultIsFinal

-----------------------------------------------------------------------------
(***************************************************************************)
(* Lemmas about the operators of Classification.  D is what GetAll may     *)
(* return, M what GetAllActive may return.                                 *)
(***************************************************************************)

\* "First" is an element, and none comes before it.
LEMMA FirstIsIn ==
    ASSUME NEW S, S \subseteq Nat, S # {}
    PROVE  First(S) \in S /\ \A y \in S : First(S) <= y
<1> DEFINE R == {ss \in Nat \X Nat : ss[1] < ss[2]}
<1>1. IsWellFoundedOn(R, Nat)
  BY NatLessThanWellFounded DEF OpToRel
<1>2. \E x \in S : \A y \in S : ~ (<<y, x>> \in R)
  <2> HIDE DEF R
  <2> QED BY <1>1, WFMin
<1>3. ASSUME NEW x \in Nat, NEW y \in Nat, ~ (<<y, x>> \in R) PROVE x <= y
  <2>1. ~ (y < x)
    BY <1>3
  <2> QED BY <2>1
<1> HIDE DEF R
<1>4. \E x \in S : \A y \in S : x <= y
  BY <1>2, <1>3
<1> QED BY <1>4 DEF First

\* The API that matches an operation declares its endpoint.
LEMMA MatchedApiIsApi ==
    ASSUME NEW M, NEW d
    PROVE  MatchedApi(M, d) \in Api \cup {NoApi}
<1> DEFINE owners == {a \in Api : Endpoint[d] \in M[a]}
<1>1. owners \subseteq Nat /\ owners \subseteq Api
  BY ClassificationAssumption
<1>2. owners # {} => First(owners) \in owners
  BY <1>1, FirstIsIn
<1> QED BY <1>1, <1>2 DEF MatchedApi

\* The parent of a service is the API of an operation of it that stays managed.
LEMMA SiblingApiIsOfSibling ==
    ASSUME NEW D \in SUBSET Discovered, NEW M, NEW lost, NEW k
    PROVE  LET siblings == {d \in StillManaged(D, M, lost) : ServiceKey[d] = k}
           IN  /\ SiblingApi(D, M, lost, k) \in Api \cup {NoApi}
               /\ SiblingApi(D, M, lost, k) = NoApi => siblings = {}
               /\ SiblingApi(D, M, lost, k) # NoApi =>
                     \E c \in siblings : MatchedApi(M, c) = SiblingApi(D, M, lost, k)
<1> DEFINE siblings == {d \in StillManaged(D, M, lost) : ServiceKey[d] = k}
<1>1. siblings \subseteq Nat /\ siblings \subseteq Matched(D, M)
  BY ClassificationAssumption DEF StillManaged, Matched
<1>2. siblings # {} => First(siblings) \in siblings /\ MatchedApi(M, First(siblings)) # NoApi
  BY <1>1, FirstIsIn DEF Matched
<1>3. SiblingApi(D, M, lost, k) = IF siblings = {} THEN NoApi ELSE MatchedApi(M, First(siblings))
  BY DEF SiblingApi
<1> HIDE DEF siblings
<1>4. /\ SiblingApi(D, M, lost, k) \in Api \cup {NoApi}
      /\ SiblingApi(D, M, lost, k) = NoApi => siblings = {}
      /\ SiblingApi(D, M, lost, k) # NoApi =>
            \E c \in siblings : MatchedApi(M, c) = SiblingApi(D, M, lost, k)
  BY <1>2, <1>3, MatchedApiIsApi
<1> QED BY <1>4 DEF siblings

\* What Classify says of an operation.
LEMMA VerdictOf ==
    ASSUME NEW D \in SUBSET Discovered, NEW M, NEW lost, NEW d \in D
    PROVE  LET v      == Classify(D, M, lost)[d]
               parent == SiblingApi(D, M, lost, ServiceKey[d])
           IN  /\ v.class = "MANAGED" <=> d \in StillManaged(D, M, lost)
               /\ v.class = "MANAGED" => v.mid = MatchedApi(M, d)
               /\ v.class = "DRIFT" => parent # NoApi /\ v.mid = parent
               /\ v.class = "SHADOW" => parent = NoApi
BY DEF Classify

LEMMA ClassifyTyped ==
    ASSUME NEW D \in SUBSET Discovered, NEW M, NEW lost
    PROVE  Classify(D, M, lost) \in [Discovered -> Verdict]
<1>1. \A d \in Discovered : /\ MatchedApi(M, d) \in Api \cup {NoApi}
                            /\ SiblingApi(D, M, lost, ServiceKey[d]) \in Api \cup {NoApi}
  BY MatchedApiIsApi, SiblingApiIsOfSibling
<1> QED BY <1>1 DEF Classify, Verdict

\* Finitely many services serve an endpoint.
LEMMA KeysAreFinite ==
    ASSUME NEW D \in SUBSET Discovered, NEW e
    PROVE  IsFiniteSet(KeysAt(D, e)) /\ KeysAt(D, e) \subseteq Nat \ {0}
<1> DEFINE ops == {x \in D : Endpoint[x] = e}
           f   == [d \in ops |-> ServiceKey[d]]
<1>1. IsFiniteSet(ops)
  BY TablesAreFinite, FS_Subset
<1>2. f \in Surjection(ops, KeysAt(D, e))
  BY DEF KeysAt, Surjection
<1>3. IsFiniteSet(KeysAt(D, e))
  BY <1>1, <1>2, FS_Surjection
<1> QED BY <1>3, ClassificationAssumption DEF KeysAt

\* Two services at an endpoint make a collision when an API declares it.
LEMMA TwoServicesCollide ==
    ASSUME NEW D \in SUBSET Discovered, NEW M, NEW c \in Matched(D, M), NEW d \in D,
           Endpoint[c] = Endpoint[d], ServiceKey[c] # ServiceKey[d]
    PROVE  Endpoint[c] \in Collisions(D, M)
<1> DEFINE e == Endpoint[c]
<1>1. c \in D /\ e \in Endpoints
  BY DEF Matched, Endpoints
<1>2. ServiceKey[c] \in KeysAt(D, e) /\ ServiceKey[d] \in KeysAt(D, e)
  BY <1>1 DEF KeysAt
<1>3. Cardinality(KeysAt(D, e)) # 0 /\ Cardinality(KeysAt(D, e)) # 1
  BY <1>2, KeysAreFinite, FS_EmptySet, FS_Singleton
<1>4. Cardinality(KeysAt(D, e)) \in Nat
  BY KeysAreFinite, FS_CardinalityType
<1>5. Cardinality(KeysAt(D, e)) > 1
  BY <1>3, <1>4
<1> QED BY <1>1, <1>5 DEF Collisions

\* A winner is one of those that tie for the highest affinity.
LEMMA WinnerIsTied ==
    ASSUME NEW D \in SUBSET Discovered, NEW M, NEW e, NEW host, Winner(D, M, e, host) # NoKey
    PROVE  Winner(D, M, e, host) \in TiedKeys(D, M, e)
<1> DEFINE tied   == TiedKeys(D, M, e)
           onHost == {k \in tied : DomainOf(D, k) = host}
<1>1. tied \subseteq KeysAt(D, e)
  BY DEF TiedKeys
<1>2. IsFiniteSet(tied) /\ tied \subseteq Nat
  BY <1>1, KeysAreFinite, FS_Subset
<1> HIDE DEF tied
<1>3. Cardinality(tied) = 1 => First(tied) \in tied
  <2>1. Cardinality(tied) = 1 => tied # {}
    BY FS_EmptySet
  <2> QED BY <1>2, <2>1, FirstIsIn
<1>4. onHost # {} => First(onHost) \in tied
  <2>1. onHost \subseteq Nat
    BY <1>2
  <2>2. onHost # {} => First(onHost) \in onHost
    BY <2>1, FirstIsIn
  <2> QED BY <2>2
<1>5. Winner(D, M, e, host) = IF Cardinality(tied) = 1 THEN First(tied)
                              ELSE IF onHost # {} THEN First(onHost) ELSE NoKey
  BY DEF Winner, tied
<1>6. Winner(D, M, e, host) \in tied
  BY <1>3, <1>4, <1>5
<1> QED BY <1>6 DEF tied

\* Affinities are numbers: of what an API declares, only finitely many endpoints
\* have been discovered.
LEMMA AffinityIsNat ==
    ASSUME NEW D \in SUBSET Discovered, NEW M, NEW k, NEW a
    PROVE  Affinity(D, M, k, a) \in Nat
<1> DEFINE served == {e \in M[a] : k \in KeysAt(D, e)}
           found  == {Endpoint[x] : x \in D}
           f      == [x \in D |-> Endpoint[x]]
<1>1. IsFiniteSet(D)
  BY TablesAreFinite, FS_Subset
<1>2. f \in Surjection(D, found)
  BY DEF Surjection
<1>3. IsFiniteSet(found)
  BY <1>1, <1>2, FS_Surjection
<1>4. served \subseteq found
  BY DEF KeysAt
<1> QED BY <1>3, <1>4, FS_Subset, FS_CardinalityType DEF Affinity

\* A winner has more affinity than another service of the endpoint, or as much and
\* the host; the first of these wins.
LEMMA WinnerPrevails ==
    ASSUME NEW D \in SUBSET Discovered, NEW M, NEW e, NEW host,
           NEW w, w = Winner(D, M, e, host), w # NoKey,
           NEW k \in KeysAt(D, e) \ {w}
    PROVE  LET a == OwnerOf(M, e)
           IN  \/ Affinity(D, M, k, a) < Affinity(D, M, w, a)
               \/ /\ Affinity(D, M, k, a) = Affinity(D, M, w, a)
                  /\ DomainOf(D, w) = host
                  /\ DomainOf(D, k) = host => w < k
<1> DEFINE tied     == TiedKeys(D, M, e)
           onHost   == {j \in tied : DomainOf(D, j) = host}
           score(j) == Affinity(D, M, j, OwnerOf(M, e))
<1>1. w \in tied /\ tied \subseteq KeysAt(D, e) /\ KeysAt(D, e) \subseteq Nat \ {0}
  BY WinnerIsTied, KeysAreFinite DEF TiedKeys
<1>2. \A j : score(j) \in Nat
  BY AffinityIsNat
<1>3. \A j \in KeysAt(D, e) : score(j) <= score(w)
  BY <1>1 DEF TiedKeys
<1>4. CASE k \notin tied
  <2>1. PICK j \in KeysAt(D, e) : ~(score(j) <= score(k))
    BY <1>4 DEF TiedKeys
  <2>2. score(k) < score(w)
    <3> HIDE DEF score
    <3> QED BY <1>2, <1>3, <2>1
  <2> QED BY <2>2
<1>5. CASE k \in tied
  <2>1. score(w) <= score(k)
    BY <1>1, <1>5 DEF TiedKeys
  <2>2. score(k) = score(w)
    <3> HIDE DEF score
    <3> QED BY <1>2, <1>3, <2>1
  <2>3. Cardinality(tied) # 1
    <3>1. SUFFICES ASSUME Cardinality(tied) = 1 PROVE FALSE
      OBVIOUS
    <3>2. IsFiniteSet(tied)
      BY <1>1, KeysAreFinite, FS_Subset
    <3> HIDE DEF tied
    <3>3. PICK x : tied = {x}
      BY <3>1, <3>2, FS_Singleton
    <3> QED BY <1>1, <1>5, <3>3
  <2>4. onHost # {} /\ w = First(onHost)
    BY <2>3 DEF Winner
  <2>5. onHost \subseteq Nat
    BY <1>1
  <2>6. w \in onHost /\ \A j \in onHost : w <= j
    BY <2>4, <2>5, FirstIsIn
  <2>7. DomainOf(D, w) = host /\ (DomainOf(D, k) = host => w < k)
    BY <1>1, <1>5, <2>6
  <2> QED BY <2>2, <2>7
<1> QED BY <1>4, <1>5

-----------------------------------------------------------------------------
(***************************************************************************)
(* The invariant holds.                                                    *)
(***************************************************************************)
LEMMA InitGood == ASSUME Init PROVE CollisionInv
<1>1. Collisions(discovered, managed) \subseteq Endpoints
  BY DEF Collisions
<1>2. TypeOK
  BY <1>1 DEF Init, TypeOK
<1>3. Visited = {}
  BY DEF Init, Visited
<1> QED
  BY <1>2, <1>3
  DEF Init, CollisionInv, MapsHoldVisited, ResultIsFinal, Done

\* One iteration of the loop.
LEMMA ResolveKeepsInv ==
    ASSUME CollisionInv, NEW e \in Endpoints, Resolve(e)
    PROVE  CollisionInv'
<1>1. PICK host \in {Hostname[OwnerOf(managed, e)], NoHost} :
          /\ reclassified' = reclassified \cup LosersAt(discovered, managed, e, host)
          /\ ambiguous' = ambiguous \cup AmbiguousAt(discovered, managed, e, host)
          /\ lookupFailed' = IF host = Hostname[OwnerOf(managed, e)]
                             THEN lookupFailed ELSE lookupFailed \cup {e}
  BY DEF Resolve
<1>2. e \in todo /\ todo' = todo \ {e} /\ UNCHANGED <<discovered, managed, result>>
  BY DEF Resolve
<1>3. /\ TypeOK /\ discovered \in SUBSET Discovered
      /\ todo \subseteq Collisions(discovered, managed) /\ MapsHoldVisited
  BY DEF CollisionInv, TypeOK
<1>4. /\ LosersAt(discovered, managed, e, host) \subseteq Discovered
      /\ AmbiguousAt(discovered, managed, e, host) \subseteq Discovered
  BY <1>3 DEF LosersAt, AmbiguousAt, At
<1>5. Visited' = Visited \cup {e} /\ e \notin Visited
  BY <1>2, <1>3 DEF Visited
<1>6. TypeOK'
  BY <1>1, <1>2, <1>3, <1>4 DEF TypeOK
<1>7. MapsHoldVisited'
  <2>1. HostAt(e)' = host
    BY <1>1, <1>2, <1>3, <1>5 DEF HostAt, MapsHoldVisited
  <2>2. \A x \in Visited : HostAt(x)' = HostAt(x)
    BY <1>1, <1>2, <1>5 DEF HostAt
  <2>3. /\ LostAt(e)' = LosersAt(discovered, managed, e, host)
        /\ TiedAt(e)' = AmbiguousAt(discovered, managed, e, host)
    BY <1>2, <2>1 DEF LostAt, TiedAt
  <2>4. \A x \in Visited : LostAt(x)' = LostAt(x) /\ TiedAt(x)' = TiedAt(x)
    BY <1>2, <2>2 DEF LostAt, TiedAt
  <2>5. reclassified' = UNION {LostAt(x)' : x \in Visited'}
    BY <1>1, <1>3, <1>5, <2>3, <2>4 DEF MapsHoldVisited
  <2>6. ambiguous' = UNION {TiedAt(x)' : x \in Visited'}
    BY <1>1, <1>3, <1>5, <2>3, <2>4 DEF MapsHoldVisited
  <2>7. lookupFailed' \subseteq Visited'
    BY <1>1, <1>3, <1>5 DEF MapsHoldVisited
  <2> QED BY <2>5, <2>6, <2>7 DEF MapsHoldVisited
<1>8. ResultIsFinal'
  BY <1>2 DEF CollisionInv, ResultIsFinal, Done
<1> QED BY <1>2, <1>3, <1>6, <1>7, <1>8 DEF CollisionInv

LEMMA FinishKeepsInv ==
    ASSUME CollisionInv, Finish
    PROVE  CollisionInv'
<1>1. /\ UNCHANGED <<discovered, managed, todo, reclassified, ambiguous, lookupFailed>>
      /\ todo = {} /\ result' = Classify(discovered, managed, reclassified)
  BY DEF Finish
<1>2. TypeOK'
  BY <1>1, ClassifyTyped DEF CollisionInv, TypeOK
<1>3. (todo \subseteq Collisions(discovered, managed))' /\ MapsHoldVisited'
  BY <1>1 DEF CollisionInv, MapsHoldVisited, Visited, LostAt, TiedAt, HostAt
<1>4. ResultIsFinal'
  BY <1>1 DEF ResultIsFinal
<1> QED BY <1>2, <1>3, <1>4 DEF CollisionInv

LEMMA StepKeepsInv == ASSUME CollisionInv, [Next]_vars PROVE CollisionInv'
<1>1. CASE UNCHANGED vars
  BY <1>1
  DEF vars, CollisionInv, TypeOK, MapsHoldVisited, Visited, LostAt, TiedAt, HostAt,
      ResultIsFinal, Done
<1> QED BY <1>1, ResolveKeepsInv, FinishKeepsInv DEF Next

\* The maps hold what the collisions visited so far have left in them, whatever the
\* order and the answers, and the result is made of the maps when none is left.
THEOREM CollisionInvariant == Spec => []CollisionInv
BY InitGood, StepKeepsInv, PTL DEF Spec

-----------------------------------------------------------------------------
(***************************************************************************)
(* The theorems.                                                           *)
(***************************************************************************)

\* When every lookup is answered, the order of the collisions does not show.
THEOREM OrderIrrelevantHolds == Spec => []OrderIrrelevant
<1>1. CollisionInv => OrderIrrelevant
  <2> SUFFICES ASSUME CollisionInv, Done, lookupFailed = {}
               PROVE  result = Verdicts(discovered, managed)
    BY DEF OrderIrrelevant
  <2>1. Visited = Collisions(discovered, managed) /\ result = Classify(discovered, managed, reclassified)
    BY DEF CollisionInv, ResultIsFinal, Visited
  <2>2. reclassified = UNION {LostAt(e) : e \in Collisions(discovered, managed)}
    BY <2>1 DEF CollisionInv, MapsHoldVisited
  <2>3. \A e : LostAt(e) = LosersAt(discovered, managed, e, Hostname[OwnerOf(managed, e)])
    BY DEF LostAt, HostAt
  <2> QED BY <2>1, <2>2, <2>3 DEF Verdicts
<1> QED BY <1>1, CollisionInvariant, PTL

\* Unless a collision is ambiguous, one service keeps the operations of an endpoint.
THEOREM OneServiceHolds == Spec => []OneServicePerManagedOperation
<1>1. CollisionInv => OneServicePerManagedOperation
  <2> SUFFICES ASSUME CollisionInv, Done,
                      NEW c \in discovered \ ambiguous, NEW d \in discovered \ ambiguous,
                      Endpoint[c] = Endpoint[d],
                      result[c].class = "MANAGED", result[d].class = "MANAGED",
                      ServiceKey[c] # ServiceKey[d]
               PROVE  FALSE
    BY DEF OneServicePerManagedOperation
  <2> DEFINE e == Endpoint[c]
  <2>1. discovered \in SUBSET Discovered /\ todo = {}
        /\ result = Classify(discovered, managed, reclassified)
    BY DEF CollisionInv, TypeOK, ResultIsFinal
  <2>2. /\ c \in StillManaged(discovered, managed, reclassified)
        /\ d \in StillManaged(discovered, managed, reclassified)
    BY <2>1, VerdictOf
  <2>3. c \in Matched(discovered, managed) /\ c \notin reclassified /\ d \notin reclassified
    BY <2>2 DEF StillManaged
  <2>4. e \in Visited
    BY <2>1, <2>3, TwoServicesCollide DEF Visited
  <2> DEFINE host == HostAt(e)
  <2>5. /\ LosersAt(discovered, managed, e, host) \subseteq reclassified
        /\ AmbiguousAt(discovered, managed, e, host) \subseteq ambiguous
    BY <2>4 DEF CollisionInv, MapsHoldVisited, LostAt, TiedAt
  <2>6. c \in At(discovered, e) /\ d \in At(discovered, e)
    BY DEF At
  <2>7. Winner(discovered, managed, e, host) # NoKey
    BY <2>5, <2>6 DEF AmbiguousAt
  <2>8. /\ ServiceKey[c] = Winner(discovered, managed, e, host)
        /\ ServiceKey[d] = Winner(discovered, managed, e, host)
    BY <2>3, <2>5, <2>6, <2>7 DEF LosersAt
  <2> QED BY <2>8
<1> QED BY <1>1, CollisionInvariant, PTL

\* An endpoint that is lost is lost to one service, which keeps it and prevails over
\* every other one, also when affinities tie and when the lookup has failed.
THEOREM LosersYieldToWinnerHolds == Spec => []LosersYieldToWinner
<1>1. CollisionInv => LosersYieldToWinner
  <2> SUFFICES ASSUME CollisionInv PROVE LosersYieldToWinner
    OBVIOUS
  <2> USE DEF At
  <2>1. /\ discovered \in SUBSET Discovered
        /\ reclassified = UNION {LostAt(x) : x \in Visited}
        /\ ambiguous = UNION {TiedAt(x) : x \in Visited}
    BY DEF CollisionInv, TypeOK, MapsHoldVisited
  <2>2. ASSUME NEW c \in reclassified
        PROVE  Endpoint[c] \in Visited /\ c \in LostAt(Endpoint[c])
    <3>1. PICK x \in Visited : c \in LostAt(x)
      BY <2>1
    <3>2. Endpoint[c] = x
      BY <3>1 DEF LostAt, LosersAt
    <3> QED BY <3>1, <3>2
  <2>3. ambiguous \cap reclassified = {}
    <3> SUFFICES ASSUME NEW c \in reclassified, c \in ambiguous PROVE FALSE
      OBVIOUS
    <3>1. PICK x \in Visited : c \in TiedAt(x)
      BY <2>1
    <3>2. Endpoint[c] = x /\ Winner(discovered, managed, x, HostAt(x)) = NoKey
      BY <3>1 DEF TiedAt, AmbiguousAt
    <3> QED BY <2>2, <3>2 DEF LostAt, LosersAt
  <2>4. ASSUME NEW d \in reclassified
        PROVE  \E w \in KeysAt(discovered, Endpoint[d]) :
                  /\ \A c \in At(discovered, Endpoint[d]) : c \in reclassified <=> ServiceKey[c] # w
                  /\ \A k \in KeysAt(discovered, Endpoint[d]) \ {w} : Prevails(w, k, Endpoint[d])
    <3> DEFINE e == Endpoint[d]
               w == Winner(discovered, managed, e, HostAt(e))
    <3>1. e \in Visited /\ d \in LostAt(e)
      BY <2>2
    <3>2. w # NoKey /\ LostAt(e) = {c \in At(discovered, e) : ServiceKey[c] # w}
      BY <3>1 DEF LostAt, LosersAt
    <3>3. w \in KeysAt(discovered, e)
      BY <2>1, <3>2, WinnerIsTied DEF TiedKeys
    <3>4. \A c \in At(discovered, e) : c \in reclassified <=> ServiceKey[c] # w
      BY <2>1, <2>2, <3>1, <3>2
    <3>5. ASSUME NEW k \in KeysAt(discovered, e) \ {w} PROVE Prevails(w, k, e)
      BY <2>1, <3>2, WinnerPrevails DEF Prevails, HostAt
    <3> QED BY <3>3, <3>4, <3>5
  <2> QED BY <2>3, <2>4 DEF LosersYieldToWinner
<1> QED BY <1>1, CollisionInvariant, PTL

\* DRIFT names the API of a managed sibling; SHADOW has none.
THEOREM DriftHolds == Spec => []DriftHasManagedSibling
<1>1. CollisionInv => DriftHasManagedSibling
  <2> SUFFICES ASSUME CollisionInv, Done, NEW d \in Reported
               PROVE  LET siblings == {c \in discovered : /\ ServiceKey[c] = ServiceKey[d]
                                                          /\ result[c].class = "MANAGED"}
                      IN  IF result[d].class = "DRIFT"
                          THEN \E c \in siblings : result[c].mid = result[d].mid
                          ELSE siblings = {}
    BY DEF DriftHasManagedSibling
  <2> DEFINE parent  == SiblingApi(discovered, managed, reclassified, ServiceKey[d])
             managedOf == {c \in StillManaged(discovered, managed, reclassified) :
                              ServiceKey[c] = ServiceKey[d]}
  <2>1. discovered \in SUBSET Discovered /\ result = Classify(discovered, managed, reclassified)
    BY DEF CollisionInv, TypeOK, ResultIsFinal
  <2>2. d \in discovered /\ result[d].class \in {"SHADOW", "DRIFT"}
    BY DEF Reported
  <2>3. StillManaged(discovered, managed, reclassified) \subseteq discovered
    BY DEF StillManaged, Matched
  <2>4. {c \in discovered : ServiceKey[c] = ServiceKey[d] /\ result[c].class = "MANAGED"} = managedOf
    BY <2>1, <2>3, VerdictOf
  <2>5. \A c \in managedOf : result[c].mid = MatchedApi(managed, c)
    BY <2>1, <2>3, VerdictOf
  <2>6. /\ result[d].class = "DRIFT" => parent # NoApi /\ result[d].mid = parent
        /\ result[d].class = "SHADOW" => parent = NoApi
    BY <2>1, <2>2, VerdictOf
  <2>7. /\ parent = NoApi => managedOf = {}
        /\ parent # NoApi => \E c \in managedOf : MatchedApi(managed, c) = parent
    BY <2>1, SiblingApiIsOfSibling
  <2> HIDE DEF parent, managedOf
  <2> QED BY <2>2, <2>4, <2>5, <2>6, <2>7
<1> QED BY <1>1, CollisionInvariant, PTL

-----------------------------------------------------------------------------
(***************************************************************************)
(* Retention: the inductive invariant.                                     *)
(***************************************************************************)
\* The foreign key: a finding is about a row of adc_discovered_apis.
RowsAreSeen == \A d \in Discovered : table[d].status # "NONE" => d \in Seen

\* What is about to be upserted has been seen.
ReadIsSeen == pc = "confirm" => Unmanaged(verdict) \subseteq Seen

\* How young a row is: a day passes after a comparison, and one that does not
\* upsert what the last one confirmed is a failure.
Young(d) == updated[d] <= faults + (IF compared THEN 0 ELSE 1)

ConfirmedIsYoung == \A d \in confirmed : table[d].status # "NONE" => Young(d)

RetentionInv ==
    /\ RetentionTypeOK /\ faults <= MaxFaults
    /\ RowsAreSeen
    /\ ReadIsSeen
    /\ ConfirmedIsYoung

-----------------------------------------------------------------------------
(***************************************************************************)
(* Lemmas about the statements on adc_unmanaged_apis.                      *)
(***************************************************************************)

\* Only what is in adc_discovered_apis is a finding.
LEMMA VerdictsAreOfDiscovered ==
    ASSUME NEW D \in SUBSET Discovered, NEW M
    PROVE  Verdicts(D, M) \in [Discovered -> Verdict] /\ Unmanaged(Verdicts(D, M)) \subseteq D
<1> DEFINE lost == UNION {LosersAt(D, M, e, Hostname[OwnerOf(M, e)]) : e \in Collisions(D, M)}
<1>1. Verdicts(D, M) = Classify(D, M, lost)
  BY DEF Verdicts
<1> HIDE DEF lost
<1>2. \A d \in Discovered : d \notin D => Classify(D, M, lost)[d].class = "ABSENT"
  BY DEF Classify
<1>3. Unmanaged(Classify(D, M, lost)) \subseteq D
  BY <1>2 DEF Unmanaged
<1> QED BY <1>1, <1>3, ClassifyTyped

\* An upsert leaves a row.
LEMMA UpsertMakesRow ==
    ASSUME NEW d \in Discovered, table \in [Discovered -> Row],
           verdict[d] \in Verdict, verdict[d].class \in {"SHADOW", "DRIFT"}
    PROVE  /\ Upsert(table, d, verdict[d])[d] \in Row
           /\ Upsert(table, d, verdict[d])[d].status # "NONE"
<1> DEFINE r == table[d]
           v == verdict[d]
           back == r.class # v.class \/ r.mid # v.mid \/ r.status \in {"RESOLVED", "STALE"}
           new == IF r.status = "NONE" THEN [NoRow EXCEPT !.status = "DETECTED"]
                  ELSE [r EXCEPT !.status = IF back THEN "DETECTED" ELSE @]
<1>1. r \in Row /\ v.class \in {"SHADOW", "DRIFT"} /\ v.mid \in Api \cup {NoApi}
  BY DEF Verdict
<1>2. new \in Row /\ new.status # "NONE"
  BY <1>1 DEF Row, NoRow, NoSpec, Spec0, Statuses
<1>3. Upsert(table, d, v)[d] = [new EXCEPT !.class = v.class, !.mid = v.mid]
  BY DEF Upsert
<1> HIDE DEF new, r, v
<1>4. [new EXCEPT !.class = v.class, !.mid = v.mid] \in Row
  BY <1>1, <1>2 DEF Row
<1>5. [new EXCEPT !.class = v.class, !.mid = v.mid].status = new.status
  BY <1>2 DEF Row
<1> QED BY <1>2, <1>3, <1>4, <1>5 DEF v

\* The upserts of a comparison make rows of what they confirm, and of nothing else.
LEMMA UpsertAllMakesRows ==
    ASSUME NEW S \in SUBSET Unmanaged(verdict), table \in [Discovered -> Row],
           verdict \in [Discovered -> Verdict]
    PROVE  /\ UpsertAll(S) \in [Discovered -> Row]
           /\ \A d \in Discovered : UpsertAll(S)[d].status = "NONE" <=>
                                       d \notin S /\ table[d].status = "NONE"
<1>1. ASSUME NEW d \in S
      PROVE  /\ Upsert(table, d, verdict[d])[d] \in Row
             /\ Upsert(table, d, verdict[d])[d].status # "NONE"
  BY UpsertMakesRow DEF Unmanaged
<1>2. \A d \in Discovered : UpsertAll(S)[d] = IF d \in S THEN Upsert(table, d, verdict[d])[d] ELSE table[d]
  BY DEF UpsertAll
<1>3. UpsertAll(S) = [d \in Discovered |-> UpsertAll(S)[d]]
  BY DEF UpsertAll
<1> QED BY <1>1, <1>2, <1>3

\* Setting the status of some rows neither makes nor deletes a row.
LEMMA SetStatusKeepsRows ==
    ASSUME NEW t \in [Discovered -> Row], NEW s \in Statuses, NEW S \in SUBSET Discovered,
           \A d \in S : t[d].status # "NONE"
    PROVE  /\ SetStatus(t, S, s) \in [Discovered -> Row]
           /\ \A d \in Discovered : SetStatus(t, S, s)[d].status = "NONE" <=> t[d].status = "NONE"
<1>1. \A d \in Discovered : /\ [t[d] EXCEPT !.status = s] \in Row
                            /\ [t[d] EXCEPT !.status = s].status = s
  BY DEF Row
<1>2. SetStatus(t, S, s) = [d \in Discovered |-> IF d \in S THEN [t[d] EXCEPT !.status = s] ELSE t[d]]
  BY DEF SetStatus
<1> QED BY <1>1, <1>2 DEF Statuses

\* What a comparison leaves in the table.
LEMMA ComparisonMakesRows ==
    ASSUME NEW S \in SUBSET Unmanaged(verdict), table \in [Discovered -> Row],
           verdict \in [Discovered -> Verdict]
    PROVE  LET t == MarkStale(MarkResolved(UpsertAll(S), S), Quiet)
           IN  /\ t \in [Discovered -> Row]
               /\ \A d \in Discovered : t[d].status = "NONE" <=> d \notin S /\ table[d].status = "NONE"
<1> DEFINE u == UpsertAll(S)
           v == MarkResolved(u, S)
           t == MarkStale(v, Quiet)
<1>1. /\ u \in [Discovered -> Row]
      /\ \A d \in Discovered : u[d].status = "NONE" <=> d \notin S /\ table[d].status = "NONE"
  BY UpsertAllMakesRows
<1> HIDE DEF u
<1>2. v \in [Discovered -> Row] /\ \A d \in Discovered : v[d].status = "NONE" <=> u[d].status = "NONE"
  BY <1>1, SetStatusKeepsRows DEF MarkResolved, Active, Statuses
<1> HIDE DEF v
<1>3. t \in [Discovered -> Row] /\ \A d \in Discovered : t[d].status = "NONE" <=> v[d].status = "NONE"
  BY <1>2, SetStatusKeepsRows DEF MarkStale, Active, Statuses
<1> HIDE DEF t
<1>4. /\ t \in [Discovered -> Row]
      /\ \A d \in Discovered : t[d].status = "NONE" <=> d \notin S /\ table[d].status = "NONE"
  BY <1>1, <1>2, <1>3
<1> QED BY <1>4 DEF t, u, v

-----------------------------------------------------------------------------
(***************************************************************************)
(* Retention: the steps.                                                   *)
(***************************************************************************)

\* Nothing has been seen at first.
LEMMA RetentionInitGood == ASSUME RetentionInit PROVE RetentionInv
<1>0. /\ DiscoveredRetention \in Nat \ {0} /\ ManagedRetention \in Nat \ {0}
      /\ UnmanagedRetention \in Nat \ {0} /\ MaxFaults \in Nat
  BY RetentionAssumption
<1>1. verdict \in [Discovered -> Verdict]
  BY VerdictsAreOfDiscovered DEF RetentionInit
<1>2. NoRow \in Row
  BY DEF NoRow, Row, NoSpec, Spec0
<1>3. RetentionTypeOK
  <2>1. /\ -1 \in -1 .. DiscoveredRetention + 1 /\ -2 \in -2 .. ManagedRetention + 1
        /\ 0 \in 0 .. UnmanagedRetention + 1
    BY <1>0
  <2>2. /\ lastSeen \in [Discovered -> -1 .. DiscoveredRetention + 1]
        /\ apiDeleted \in [Api -> -2 .. ManagedRetention + 1]
        /\ updated \in [Discovered -> 0 .. UnmanagedRetention + 1]
    BY <2>1 DEF RetentionInit, NoAge, Purged
  <2>3. table \in [Discovered -> Row]
    BY <1>2 DEF RetentionInit
  <2> QED BY <1>1, <2>2, <2>3 DEF RetentionInit, RetentionTypeOK, NoAge, Purged
<1>4. RowsAreSeen
  BY DEF RetentionInit, RowsAreSeen, NoRow
<1>5. faults <= MaxFaults /\ ReadIsSeen /\ ConfirmedIsYoung
  BY <1>0 DEF RetentionInit, ReadIsSeen, ConfirmedIsYoung
<1> QED BY <1>3, <1>4, <1>5 DEF RetentionInv

\* A step after which no more is confirmed, rows are neither new nor older, and
\* as much has been seen keeps what is said of them.
LEMMA NoOlderKeepsInv ==
    ASSUME RetentionInv, RetentionTypeOK',
           faults' \in {faults, faults + 1}, faults' <= MaxFaults,
           compared' = compared \/ faults' = faults + 1,
           updated' = updated, confirmed' \subseteq confirmed,
           \A d \in Discovered : table[d].status = "NONE" => table'[d].status = "NONE",
           \A d \in Discovered : d \in Seen /\ table'[d].status # "NONE" => d \in Seen',
           ReadIsSeen'
    PROVE  RetentionInv'
<1>1. RowsAreSeen'
  BY DEF RetentionInv, RowsAreSeen
<1>2. ConfirmedIsYoung'
  <2> SUFFICES ASSUME NEW d \in confirmed', table'[d].status # "NONE" PROVE Young(d)'
    BY DEF ConfirmedIsYoung
  <2>1. d \in Discovered /\ d \in confirmed /\ table[d].status # "NONE"
    BY DEF RetentionInv, RetentionTypeOK
  <2>2. Young(d) /\ updated[d] \in Nat /\ faults \in Nat
    BY <2>1, RetentionAssumption DEF RetentionInv, RetentionTypeOK, ConfirmedIsYoung
  <2> QED BY <2>2 DEF Young
<1> QED BY <1>1, <1>2 DEF RetentionInv

\* What every step keeps of the types.
LEMMA RetentionParameters ==
    /\ DiscoveredRetention \in Nat \ {0} /\ ManagedRetention \in Nat \ {0}
    /\ UnmanagedRetention \in Nat \ {0} /\ MaxFaults \in Nat /\ MaxEdits \in Nat
BY RetentionAssumption

\* Traffic, and the APIs that phase 2 finds published or gone.
LEMMA ObservingKeepsInv ==
    ASSUME RetentionInv,
           \/ \E d \in Discovered : Traffic(d)
           \/ \E a \in Api : PublishApi(a) \/ RemoveApi(a)
    PROVE  RetentionInv'
<1>t. RetentionTypeOK
  BY DEF RetentionInv
<1>1. ASSUME NEW d \in Discovered, Traffic(d) PROVE RetentionInv'
  <2>1. /\ lastSeen' = [lastSeen EXCEPT ![d] = 0]
        /\ UNCHANGED <<apiDeleted, table, updated, verdict, confirmed, compared, pc, cleaned, edits, faults>>
    BY <1>1 DEF Traffic
  <2>2. 0 \in NoAge .. DiscoveredRetention + 1
    BY RetentionParameters DEF NoAge
  <2>3. RetentionTypeOK'
    BY <1>t, <2>1, <2>2 DEF RetentionTypeOK
  <2>4. Seen \subseteq Seen'
    BY <1>t, <2>1 DEF Seen, NoAge, RetentionTypeOK
  <2>5. ReadIsSeen'
    BY <2>1, <2>4 DEF RetentionInv, ReadIsSeen, Unmanaged
  <2> QED BY <2>1, <2>3, <2>4, <2>5, NoOlderKeepsInv DEF RetentionInv, RetentionTypeOK
<1>2. ASSUME NEW a \in Api, PublishApi(a) \/ RemoveApi(a) PROVE RetentionInv'
  <2>1. /\ apiDeleted' \in {[apiDeleted EXCEPT ![a] = NoAge], [apiDeleted EXCEPT ![a] = 0]}
        /\ edits' = edits + 1
        /\ UNCHANGED <<lastSeen, table, updated, verdict, confirmed, compared, pc, cleaned, faults>>
    BY <1>2 DEF PublishApi, RemoveApi, Edit
  <2>2. 0 \in Purged .. ManagedRetention + 1 /\ NoAge \in Purged .. ManagedRetention + 1
    BY RetentionParameters DEF NoAge, Purged
  <2>3. RetentionTypeOK'
    BY <1>t, <2>1, <2>2 DEF RetentionTypeOK
  <2>4. Seen' = Seen /\ ReadIsSeen'
    BY <2>1 DEF RetentionInv, ReadIsSeen, Unmanaged, Seen
  <2> QED BY <2>1, <2>3, <2>4, NoOlderKeepsInv DEF RetentionInv, RetentionTypeOK
<1> QED BY <1>1, <1>2

\* A dismissed finding keeps its row.
LEMMA DismissKeepsInv ==
    ASSUME RetentionInv, NEW d \in Discovered, Dismiss(d)
    PROVE  RetentionInv'
<1>1. /\ table[d].status # "NONE" /\ table' = [table EXCEPT ![d].status = "DISMISSED"]
      /\ UNCHANGED <<lastSeen, apiDeleted, updated, verdict, confirmed, compared, pc, cleaned, edits, faults>>
  BY DEF Dismiss
<1>2. table \in [Discovered -> Row]
  BY DEF RetentionInv, RetentionTypeOK
<1>3. [table[d] EXCEPT !.status = "DISMISSED"] \in Row
  BY <1>2 DEF Row, Statuses
<1>4. table' \in [Discovered -> Row] /\ \A c \in Discovered : c # d => table'[c] = table[c]
  BY <1>1, <1>2, <1>3
<1>5. RetentionTypeOK'
  BY <1>1, <1>4 DEF RetentionInv, RetentionTypeOK
<1>6. Seen' = Seen /\ ReadIsSeen'
  BY <1>1 DEF RetentionInv, ReadIsSeen, Unmanaged, Seen
<1>7. \A c \in Discovered : table[c].status = "NONE" => table'[c].status = "NONE"
  BY <1>1, <1>4
<1>8. \A c \in Discovered : table'[c].status # "NONE" => table[c].status # "NONE"
  BY <1>1, <1>4
<1> QED BY <1>1, <1>5, <1>6, <1>7, NoOlderKeepsInv DEF RetentionInv, RetentionTypeOK

\* A day passes only after a comparison, so that a row is still young after it.
LEMMA NextDayKeepsInv == ASSUME RetentionInv, NextDay PROVE RetentionInv'
<1>t. RetentionTypeOK
  BY DEF RetentionInv
<1>1. /\ compared /\ ~compared' /\ ~cleaned' /\ pc = "idle"
      /\ lastSeen' = [d \in Discovered |-> Later(lastSeen[d], DiscoveredRetention)]
      /\ apiDeleted' = [a \in Api |-> Later(apiDeleted[a], ManagedRetention)]
      /\ updated' = [d \in Discovered |-> IF table[d].status = "NONE" THEN 0
                                          ELSE Later(updated[d], UnmanagedRetention)]
      /\ UNCHANGED <<table, verdict, confirmed, pc, edits, faults>>
      /\ cleaned' \in BOOLEAN /\ compared' \in BOOLEAN
  BY DEF NextDay
<1>2. \A d \in Discovered : /\ Later(lastSeen[d], DiscoveredRetention) \in NoAge .. DiscoveredRetention + 1
                            /\ lastSeen[d] # NoAge <=> Later(lastSeen[d], DiscoveredRetention) # NoAge
  BY <1>t, RetentionParameters DEF Later, RetentionTypeOK, NoAge
<1>3. \A a \in Api : Later(apiDeleted[a], ManagedRetention) \in Purged .. ManagedRetention + 1
  BY <1>t, RetentionParameters DEF Later, RetentionTypeOK, Purged
<1>4. \A d \in Discovered : /\ Later(updated[d], UnmanagedRetention) \in 0 .. UnmanagedRetention + 1
                            /\ Later(updated[d], UnmanagedRetention) <= updated[d] + 1
  BY <1>t, RetentionParameters DEF Later, RetentionTypeOK
<1>5. /\ lastSeen' \in [Discovered -> NoAge .. DiscoveredRetention + 1]
      /\ apiDeleted' \in [Api -> Purged .. ManagedRetention + 1]
  BY <1>1, <1>2, <1>3
<1>6. updated' \in [Discovered -> 0 .. UnmanagedRetention + 1]
  <2>1. 0 \in 0 .. UnmanagedRetention + 1
    BY RetentionParameters
  <2> QED BY <1>1, <1>4, <2>1
<1>7. RetentionTypeOK'
  BY <1>t, <1>1, <1>5, <1>6 DEF RetentionTypeOK
<1>8. Seen' = Seen
  BY <1>1, <1>2 DEF Seen
<1>9. RowsAreSeen' /\ ReadIsSeen'
  BY <1>1, <1>8 DEF RetentionInv, RowsAreSeen, ReadIsSeen, Unmanaged
<1>10. ConfirmedIsYoung'
  <2> SUFFICES ASSUME NEW d \in confirmed, table[d].status # "NONE" PROVE Young(d)'
    BY <1>1 DEF ConfirmedIsYoung
  <2>1. d \in Discovered /\ updated[d] \in Nat /\ faults \in Nat
    BY <1>t, RetentionParameters DEF RetentionTypeOK
  <2>2. updated[d] <= faults
    BY <1>1, <2>1 DEF RetentionInv, ConfirmedIsYoung, Young
  <2>3. updated'[d] \in Int /\ updated'[d] <= updated[d] + 1
    BY <1>1, <1>4, <2>1
  <2> QED BY <1>1, <2>1, <2>2, <2>3 DEF Young
<1> QED BY <1>1, <1>7, <1>9, <1>10 DEF RetentionInv

\* A comparison that reads, or that does not come to it.
LEMMA CompareApisKeepsInv == ASSUME RetentionInv, CompareApis PROVE RetentionInv'
<1>t. RetentionTypeOK
  BY DEF RetentionInv
<1>0. UNCHANGED <<lastSeen, apiDeleted, table, updated, confirmed, cleaned, edits>> /\ Seen' = Seen
  BY DEF CompareApis, Seen
<1>1. CASE NoFault /\ verdict' = Verdicts(Seen, Managed) /\ pc' = "confirm" /\ UNCHANGED compared
  <2>1. verdict' \in [Discovered -> Verdict] /\ Unmanaged(verdict') \subseteq Seen
    BY <1>1, VerdictsAreOfDiscovered DEF Seen
  <2>2. RetentionTypeOK'
    BY <1>t, <1>0, <1>1, <2>1 DEF RetentionTypeOK, NoFault
  <2>3. ReadIsSeen'
    BY <1>0, <2>1 DEF ReadIsSeen, Unmanaged
  <2> QED BY <1>t, <1>0, <1>1, <2>2, <2>3, NoOlderKeepsInv DEF RetentionInv, RetentionTypeOK, NoFault
<1>2. CASE Fault /\ compared' = TRUE /\ UNCHANGED <<verdict, pc>>
  <2>1. RetentionTypeOK' /\ ReadIsSeen'
    BY <1>t, <1>0, <1>2 DEF RetentionInv, RetentionTypeOK, Fault, ReadIsSeen, Unmanaged
  <2> QED BY <1>t, <1>0, <1>2, <2>1, RetentionParameters, NoOlderKeepsInv
      DEF RetentionInv, RetentionTypeOK, Fault
<1>3. CASE Seen = {} /\ NoFault /\ compared' = TRUE /\ UNCHANGED <<verdict, pc>>
  <2>1. RetentionTypeOK' /\ ReadIsSeen'
    BY <1>t, <1>0, <1>3 DEF RetentionInv, RetentionTypeOK, NoFault, ReadIsSeen, Unmanaged
  <2>2. \A d \in Discovered : table[d].status = "NONE"
    BY <1>3 DEF RetentionInv, RowsAreSeen
  <2>3. RowsAreSeen' /\ ConfirmedIsYoung'
    BY <1>t, <1>0, <2>2 DEF RowsAreSeen, ConfirmedIsYoung, RetentionTypeOK
  <2> QED BY <1>3, <2>1, <2>3 DEF RetentionInv, NoFault
<1> QED BY <1>1, <1>2, <1>3 DEF CompareApis

\* A comparison that writes: what it confirms is of this day.
LEMMA ConfirmKeepsInv == ASSUME RetentionInv, Confirm PROVE RetentionInv'
<1>t. RetentionTypeOK
  BY DEF RetentionInv
<1>1. /\ pc = "confirm" /\ pc' = "idle" /\ compared' = TRUE
      /\ confirmed' \subseteq Unmanaged(verdict)
      /\ faults' \in {faults, faults + 1} /\ faults' <= MaxFaults
      /\ table' = MarkStale(MarkResolved(UpsertAll(confirmed'), confirmed'), Quiet)
      /\ updated' = [d \in Discovered |-> IF d \in Touched(confirmed') THEN 0 ELSE updated[d]]
      /\ UNCHANGED <<lastSeen, apiDeleted, verdict, cleaned, edits>>
  BY <1>t, RetentionParameters DEF RetentionInv, RetentionTypeOK, Confirm, Fault, NoFault
<1>2. /\ table' \in [Discovered -> Row]
      /\ \A d \in Discovered : table'[d].status = "NONE" <=> d \notin confirmed' /\ table[d].status = "NONE"
  BY <1>t, <1>1, ComparisonMakesRows DEF RetentionTypeOK
<1>3. updated' \in [Discovered -> 0 .. UnmanagedRetention + 1]
  <2>1. 0 \in 0 .. UnmanagedRetention + 1
    BY RetentionParameters
  <2> QED BY <1>t, <1>1, <2>1 DEF RetentionTypeOK
<1>4. RetentionTypeOK'
  BY <1>t, <1>1, <1>2, <1>3 DEF RetentionTypeOK, Unmanaged
<1>5. Seen' = Seen /\ RowsAreSeen' /\ ReadIsSeen'
  BY <1>1, <1>2 DEF RetentionInv, RowsAreSeen, ReadIsSeen, Seen
<1>6. ConfirmedIsYoung'
  BY <1>t, <1>1 DEF ConfirmedIsYoung, Young, Touched, Unmanaged, RetentionTypeOK
<1> QED BY <1>1, <1>4, <1>5, <1>6 DEF RetentionInv

\* The cleanup: an operation goes only when it has no row.
LEMMA CleanupKeepsInv == ASSUME RetentionInv, Cleanup PROVE RetentionInv'
<1>t. RetentionTypeOK
  BY DEF RetentionInv
<1>f. ASSUME NoFault \/ Fault
      PROVE  /\ faults' \in Nat /\ faults' \in {faults, faults + 1} /\ faults' <= MaxFaults
  BY <1>f, <1>t, RetentionParameters DEF RetentionInv, RetentionTypeOK, NoFault, Fault
<1>1. CASE PurgeDiscovered
  <2>1. /\ pc' = "managed" /\ (NoFault \/ Fault)
        /\ \/ UNCHANGED lastSeen
           \/ /\ Referenced(ExpiredDiscovered) = {}
              /\ lastSeen' = [d \in Discovered |-> IF d \in ExpiredDiscovered THEN NoAge ELSE lastSeen[d]]
        /\ UNCHANGED <<apiDeleted, table, updated, verdict, confirmed, compared, cleaned, edits>>
    BY <1>1 DEF PurgeDiscovered
  <2>2. NoAge \in NoAge .. DiscoveredRetention + 1
    BY RetentionParameters DEF NoAge
  <2>3. lastSeen' \in [Discovered -> NoAge .. DiscoveredRetention + 1]
    BY <1>t, <2>1, <2>2 DEF RetentionTypeOK
  <2>4. RetentionTypeOK'
    BY <1>t, <1>f, <2>1, <2>3 DEF RetentionTypeOK
  <2>5. \A d \in Discovered : d \in Seen /\ table'[d].status # "NONE" => d \in Seen'
    BY <2>1 DEF Seen, Referenced
  <2>6. ReadIsSeen'
    BY <2>1 DEF ReadIsSeen
  <2> QED BY <1>t, <1>f, <2>1, <2>4, <2>5, <2>6, NoOlderKeepsInv DEF RetentionTypeOK
<1>2. CASE PurgeManaged
  <2>1. /\ pc' = "unmanaged" /\ (NoFault \/ Fault)
        /\ \/ UNCHANGED apiDeleted
           \/ apiDeleted' = [a \in Api |-> IF a \in ExpiredApis THEN Purged ELSE apiDeleted[a]]
        /\ UNCHANGED <<lastSeen, table, updated, verdict, confirmed, compared, cleaned, edits>>
    BY <1>2 DEF PurgeManaged
  <2>2. Purged \in Purged .. ManagedRetention + 1
    BY RetentionParameters DEF Purged
  <2>3. apiDeleted' \in [Api -> Purged .. ManagedRetention + 1]
    BY <1>t, <2>1, <2>2 DEF RetentionTypeOK
  <2>4. RetentionTypeOK' /\ Seen' = Seen /\ ReadIsSeen'
    BY <1>t, <1>f, <2>1, <2>3 DEF RetentionTypeOK, Seen, ReadIsSeen
  <2> QED BY <1>t, <1>f, <2>1, <2>4, NoOlderKeepsInv DEF RetentionTypeOK
<1>3. CASE PurgeUnmanaged
  <2>1. /\ pc' = "idle" /\ cleaned' = TRUE /\ (NoFault \/ Fault)
        /\ confirmed' \subseteq confirmed
        /\ \/ UNCHANGED table
           \/ table' = [d \in Discovered |-> IF d \in ExpiredFindings THEN NoRow ELSE table[d]]
        /\ UNCHANGED <<lastSeen, apiDeleted, updated, verdict, compared, edits>>
    BY <1>3 DEF PurgeUnmanaged
  <2>2. NoRow \in Row /\ NoRow.status = "NONE"
    BY DEF NoRow, Row, NoSpec, Spec0
  <2>3. /\ table' \in [Discovered -> Row]
        /\ \A d \in Discovered : table[d].status = "NONE" => table'[d].status = "NONE"
    BY <1>t, <2>1, <2>2 DEF RetentionTypeOK
  <2>4. RetentionTypeOK' /\ Seen' = Seen /\ ReadIsSeen'
    BY <1>t, <1>f, <2>1, <2>3 DEF RetentionTypeOK, Seen, ReadIsSeen
  <2> QED BY <1>t, <1>f, <2>1, <2>3, <2>4, NoOlderKeepsInv DEF RetentionTypeOK
<1> QED BY <1>1, <1>2, <1>3 DEF Cleanup

LEMMA RetentionStepKeepsInv == ASSUME RetentionInv, [RetentionNext]_retentionVars PROVE RetentionInv'
<1>1. CASE Restart
  <2>1. /\ pc' = "idle" /\ cleaned' = FALSE /\ Fault
        /\ UNCHANGED <<lastSeen, apiDeleted, table, updated, verdict, confirmed, compared, edits>>
    BY <1>1 DEF Restart
  <2>2. RetentionTypeOK'
    <3>1. faults \in Nat => faults' \in Nat
      BY <2>1 DEF Fault
    <3>2. cleaned' \in BOOLEAN
      BY <2>1
    <3> QED BY <2>1, <3>1, <3>2 DEF RetentionInv, RetentionTypeOK
  <2>3. Seen' = Seen /\ ReadIsSeen'
    BY <2>1 DEF Seen, ReadIsSeen
  <2> QED BY <2>1, <2>2, <2>3, RetentionParameters, NoOlderKeepsInv DEF RetentionInv, RetentionTypeOK, Fault
<1>2. CASE UNCHANGED retentionVars
  BY <1>2 DEF retentionVars, RetentionInv, RetentionTypeOK, RowsAreSeen, ReadIsSeen, Seen, Unmanaged,
              ConfirmedIsYoung, Young
<1> QED
  BY <1>1, <1>2, ObservingKeepsInv, DismissKeepsInv, NextDayKeepsInv, CompareApisKeepsInv,
     ConfirmKeepsInv, CleanupKeepsInv
  DEF RetentionNext, Compare

-----------------------------------------------------------------------------
(***************************************************************************)
(* Retention: the theorems.                                                *)
(***************************************************************************)

\* The invariant holds for ever: a finding is about an operation that is still in
\* the table, and the row of one that was confirmed is as old as comparisons failed.
THEOREM RetentionInvariant == RetentionSpec => []RetentionInv
BY RetentionInitGood, RetentionStepKeepsInv, PTL DEF RetentionSpec

\* The variables keep their types.
THEOREM RetentionTypeCorrect == RetentionSpec => []RetentionTypeOK
<1>1. RetentionInv => RetentionTypeOK
  BY DEF RetentionInv
<1> QED BY <1>1, RetentionInvariant, PTL

\* cleanup.go: provided that no more comparisons fail than the retention of findings
\* has days, the cleanup never deletes a dismissal that was confirmed.
THEOREM DismissalSurvivesCleanupHolds ==
    ASSUME MaxFaults < UnmanagedRetention
    PROVE  RetentionSpec => DismissalSurvivesCleanup
<1>1. ASSUME RetentionInv, [RetentionNext]_retentionVars, NEW d \in confirmed,
             table[d].status = "DISMISSED"
      PROVE  table'[d].status # "NONE"
  <2>t. RetentionTypeOK /\ d \in Discovered
    BY <1>1 DEF RetentionInv, RetentionTypeOK
  <2>1. d \notin ExpiredFindings
    <3>1. updated[d] <= faults + 1 /\ faults <= MaxFaults /\ updated[d] \in Nat /\ faults \in Nat
      BY <1>1, <2>t, RetentionParameters DEF RetentionInv, ConfirmedIsYoung, Young, RetentionTypeOK
    <3> QED BY <3>1, RetentionParameters DEF ExpiredFindings
  <2>2. CASE Confirm
    <3>1. confirmed' \subseteq Unmanaged(verdict)
      BY <2>2 DEF Confirm
    <3> QED BY <1>1, <2>t, <2>2, <3>1, ComparisonMakesRows DEF Confirm, RetentionTypeOK
  <2>3. CASE PurgeUnmanaged
    BY <1>1, <2>t, <2>1, <2>3 DEF PurgeUnmanaged
  <2>4. ASSUME NEW c \in Discovered, Dismiss(c) PROVE table'[d].status # "NONE"
    BY <1>1, <2>t, <2>4 DEF Dismiss, RetentionTypeOK, Row
  <2>5. CASE UNCHANGED table
    BY <1>1, <2>5
  <2> QED
    BY <1>1, <2>2, <2>3, <2>4, <2>5
    DEF RetentionNext, Compare, Cleanup, retentionVars, Traffic, PublishApi, RemoveApi, NextDay,
        CompareApis, PurgeDiscovered, PurgeManaged, Restart
<1>2. RetentionInv /\ [RetentionNext]_retentionVars
        => [\A d \in confirmed : table[d].status = "DISMISSED" => table'[d].status # "NONE"]_retentionVars
  BY <1>1
<1> QED BY <1>2, RetentionInvariant, PTL DEF RetentionSpec, DismissalSurvivesCleanup
=============================================================================
