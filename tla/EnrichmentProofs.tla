-------------------------- MODULE EnrichmentProofs --------------------------
(***************************************************************************)
(* Theorems about Enrichment, for any finite set of requests, whatever     *)
(* DeepFlow knows of them, in every assignment to seconds, with every      *)
(* order of signatures and rows, every sample and any failing queries.     *)
(***************************************************************************)
EXTENDS Enrichment, TLAPS, FiniteSetTheorems

-----------------------------------------------------------------------------
(***************************************************************************)
(* The inductive invariant.                                                *)
(***************************************************************************)

\* Time goes on; between the query of the signatures and the upsert there are records.
Times ==
    /\ second \in [Request -> 0 .. MaxSecond - 1]
    /\ pc \in {"idle", "query", "sp", "s", "upsert"}
    /\ window \in [start : 0 .. MaxSecond, end : 0 .. MaxSecond]
    /\ pc \in {"idle", "query"} => records = <<>>

\* A record, by its fields.
Record(members, sample, domain, host, sp, failed) ==
    [members |-> members, sample |-> sample, domain |-> domain,
     host |-> host, sp |-> sp, failed |-> failed]

\* A record has the sample that stands for its members, and nothing but queries fail.
Shaped(rec) ==
    /\ rec = Record(rec.members, rec.sample, rec.domain, rec.host, rec.sp, rec.failed)
    /\ rec.sample \in Observed
    /\ rec.members = {r \in Observed : SameRecord(Signature(r), Signature(rec.sample))}
    /\ rec.sp \in Request \cup {None}

\* There is one record for all that dedup takes for the same.
RecordsApart ==
    /\ DOMAIN records \subseteq Nat
    /\ \A i \in DOMAIN records : Shaped(records[i])
    /\ \A i, j \in DOMAIN records :
          SameRecord(Signature(records[i].sample), Signature(records[j].sample)) => i = j
    /\ pc \notin {"idle", "query"} => \A r \in Observed : \E i \in DOMAIN records : r \in records[i].members

\* A request fits the record of a number.
FitsAt(i, r) == Fits(records[i], r)

\* What a record has been given comes from rows that fit it, and its sample's own
\* domain is never replaced.
OnlyFitting ==
    \A i \in DOMAIN records :
        /\ \A r \in Request : records[i].sp = r => r \in Rows /\ MatchRow(i, r)
        /\ records[i].domain # "" =>
              \E r \in Request : FitsAt(i, r) /\ Flow[r].domain = records[i].domain
        /\ Flow[records[i].sample].domain # "" =>
              records[i].domain = Flow[records[i].sample].domain
        /\ records[i].host # "" =>
              \E r \in Request : FitsAt(i, r) /\ Flow[r].host = records[i].host

\* A query that has not failed has given a record what its rows have for it.
FilledIn ==
    \A i \in DOMAIN records : \A r \in Rows : MatchRow(i, r) =>
        /\ pc \in {"s", "upsert"} /\ "sp" \notin records[i].failed => records[i].sp # None
        /\ pc = "upsert" /\ "s" \notin records[i].failed =>
              records[i].host # "" \/ Flow[r].host = ""

RecordsInv == Times /\ RecordsApart /\ OnlyFitting /\ FilledIn

EnrichmentInv == RecordsInv /\ RowsAreRequested /\ CountedForItsService

-----------------------------------------------------------------------------
(***************************************************************************)
(* Numbers and orders.                                                     *)
(***************************************************************************)

\* A set of natural numbers has a least element.
LEMMA MinIsIn ==
    ASSUME NEW S, S \subseteq Nat, S # {}
    PROVE  Min(S) \in S /\ \A x \in S : Min(S) <= x
<1> DEFINE R == {ss \in Nat \X Nat : ss[1] < ss[2]}
<1>1. IsWellFoundedOn(R, Nat)
  BY NatLessThanWellFounded DEF OpToRel
<1>2. \E x \in S : \A y \in S : ~ (<<y, x>> \in R)
  <2> HIDE DEF R
  <2> QED BY <1>1, WFMin
<1>3. ASSUME NEW x \in Nat, NEW y \in Nat, ~ (<<y, x>> \in R) PROVE x <= y
  <2>1. ~ (y < x)
    BY <1>3
  <2> QED BY <2>1
<1> HIDE DEF R
<1>4. \E x \in S : \A y \in S : x <= y
  BY <1>2, <1>3
<1> QED BY <1>4 DEF Min

\* One that is bounded has a greatest.
LEMMA MaxIsIn ==
    ASSUME NEW n \in Nat, NEW S, S \subseteq 1 .. n, S # {}
    PROVE  Max(S) \in S
<1> DEFINE T == {n - x : x \in S}
<1>1. T \subseteq Nat /\ T # {}
  <2>1. \A x \in S : n - x \in Nat
    OBVIOUS
  <2>2. PICK x \in S : TRUE
    OBVIOUS
  <2>3. n - x \in T
    OBVIOUS
  <2> QED BY <2>1, <2>3
<1>2. PICK m \in T : \A y \in T : m <= y
  <2> HIDE DEF T
  <2> QED BY <1>1, MinIsIn
<1>3. PICK x \in S : m = n - x
  OBVIOUS
<1>4. \A y \in S : x >= y
  <2> SUFFICES ASSUME NEW y \in S PROVE x >= y
    OBVIOUS
  <2>1. n - y \in T
    OBVIOUS
  <2>2. n - x <= n - y
    BY <1>2, <1>3, <2>1
  <2> QED BY <2>2
<1> QED BY <1>4 DEF Max

\* An order of a finite set numbers all of its elements.
LEMMA OrderNumbersAll ==
    ASSUME NEW S, IsFiniteSet(S), NEW order \in SetToSeqs(S)
    PROVE  \E n \in Nat : /\ DOMAIN order = 1 .. n /\ order \in [1 .. n -> S]
                          /\ \A x \in S : \E k \in 1 .. n : order[k] = x
<1> DEFINE n == Cardinality(S)
<1>1. n \in Nat
  BY FS_CardinalityType
<1>2. order \in [1 .. n -> S] /\ \A i, j \in 1 .. n : i # j => order[i] # order[j]
  BY DEF SetToSeqs
<1>3. order \in Injection(1 .. n, S)
  BY <1>2 DEF Injection, IsInjective
<1>4. IsFiniteSet(1 .. n) /\ Cardinality(1 .. n) = n
  BY <1>1, FS_Interval
<1>5. order \in Surjection(1 .. n, S)
  BY <1>3, <1>4, FS_Injection
<1>6. \A x \in S : \E k \in 1 .. n : order[k] = x
  BY <1>5 DEF Surjection
<1> QED BY <1>1, <1>2, <1>6

-----------------------------------------------------------------------------
(***************************************************************************)
(* Dedup.                                                                  *)
(***************************************************************************)

\* What is taken for the same is one operation at one port of one agent.
LEMMA SameRecordMeans ==
    ASSUME NEW q, NEW r, SameRecord(Signature(q), Signature(r))
    PROVE  SameOperation(q, r) /\ SameServer(q, r)
BY DEF SameRecord, DedupKey, Signature, SameOperation, SameServer, ResourceOf

\* A record is what its fields are.
LEMMA Fields ==
    ASSUME NEW rec, NEW members, NEW sample, NEW domain, NEW host, NEW sp, NEW failed,
           rec = Record(members, sample, domain, host, sp, failed)
    PROVE  /\ rec.members = members /\ rec.sample = sample /\ rec.domain = domain
           /\ rec.host = host /\ rec.sp = sp /\ rec.failed = failed
           /\ rec = Record(rec.members, rec.sample, rec.domain, rec.host, rec.sp, rec.failed)
BY DEF Record

\* There are finitely many signatures.
LEMMA ObservedFinite == IsFiniteSet(Observed) /\ IsFiniteSet({Signature(r) : r \in Observed})
<1>1. IsFiniteSet(Observed)
  BY EnrichmentAssumption, FS_Subset DEF Observed
<1> DEFINE f == [r \in Observed |-> Signature(r)]
           T == {Signature(r) : r \in Observed}
<1>2. f \in Surjection(Observed, T)
  BY DEF Surjection
<1>3. IsFiniteSet(T)
  <2> HIDE DEF f, T
  <2> QED BY <1>1, <1>2, FS_Surjection
<1> QED BY <1>1, <1>3

\* The sample of a group is one of its requests.
LEMMA GroupSampleIsOfGroup ==
    ASSUME NEW order \in Orders, NEW sample \in Samples,
           NEW group, group \subseteq DOMAIN order, group # {}
    PROVE  /\ GroupSample(order, group, sample) \in Observed
           /\ \E j \in group : Signature(GroupSample(order, group, sample)) = order[j]
<1> DEFINE Sigs      == {Signature(r) : r \in Observed}
           before(i) == {r \in Observed : \E j \in group : j < i /\ Signature(r) = order[j]}
           wins      == {i \in group : HitCount(order[i]) > Cardinality(before(i))}
           m         == Min(group)
<1>1. PICK n \in Nat : DOMAIN order = 1 .. n /\ order \in [1 .. n -> Sigs]
  BY ObservedFinite, OrderNumbersAll DEF Orders
<1>2. m \in group /\ \A j \in group : m <= j
  <2>1. group \subseteq Nat
    BY <1>1
  <2> QED BY <2>1, MinIsIn
<1>3. m \in 1 .. n /\ order[m] \in Sigs
  BY <1>1, <1>2
<1>4. before(m) = {}
  <2>1. \A j \in group : ~ (j < m)
    BY <1>1, <1>2, <1>3
  <2> QED BY <2>1
<1>5. Cardinality(before(m)) = 0
  BY <1>4, FS_EmptySet
<1>6. HitCount(order[m]) \in Nat /\ HitCount(order[m]) # 0
  <2> DEFINE Hits == {r \in Observed : Signature(r) = order[m]}
  <2>1. Hits # {}
    BY <1>3
  <2>2. IsFiniteSet(Hits)
    BY ObservedFinite, FS_Subset
  <2>3. Cardinality(Hits) \in Nat /\ Cardinality(Hits) # 0
    <3> HIDE DEF Hits
    <3> QED BY <2>1, <2>2, FS_CardinalityType, FS_EmptySet
  <2> QED BY <2>3 DEF HitCount
<1>7. wins # {} /\ wins \subseteq 1 .. n
  <2>1. m \in wins
    <3> HIDE DEF m
    <3> QED BY <1>2, <1>5, <1>6
  <2> QED BY <1>1, <2>1
<1>8. Max(wins) \in wins
  <2> HIDE DEF wins
  <2> QED BY <1>7, MaxIsIn
<1>9. GroupSample(order, group, sample) = sample[order[Max(wins)]]
  BY DEF GroupSample
<1>10. Max(wins) \in group /\ order[Max(wins)] \in Sigs
  BY <1>1, <1>8
<1> HIDE DEF wins
<1>11. sample[order[Max(wins)]] \in Observed /\ Signature(sample[order[Max(wins)]]) = order[Max(wins)]
  BY <1>10 DEF Samples
<1> QED BY <1>9, <1>10, <1>11

\* Dedup makes one record of all that it takes for the same.
LEMMA DedupTakesEachOnce ==
    ASSUME NEW order \in Orders, NEW sample \in Samples
    PROVE  LET D == Dedup(order, sample)
           IN  /\ DOMAIN D \subseteq Nat
               /\ \A i \in DOMAIN D : /\ Shaped(D[i]) /\ D[i].sp = None /\ D[i].host = ""
                                      /\ D[i].domain = Flow[D[i].sample].domain
               /\ \A i, j \in DOMAIN D :
                     SameRecord(Signature(D[i].sample), Signature(D[j].sample)) => i = j
               /\ \A r \in Observed : \E i \in DOMAIN D : r \in D[i].members
<1> DEFINE D        == Dedup(order, sample)
           Sigs     == {Signature(r) : r \in Observed}
           group(i) == {j \in DOMAIN order : SameRecord(order[j], order[i])}
           firsts   == {i \in DOMAIN order : \A j \in 1 .. i - 1 : ~SameRecord(order[j], order[i])}
           q(i)     == GroupSample(order, group(i), sample)
           rec(i)   == [members |-> {r \in Observed : SameRecord(Signature(r), order[i])},
                        sample |-> q(i), domain |-> Flow[q(i)].domain, host |-> "", sp |-> None,
                        failed |-> {}]
<1>1. PICK n \in Nat : /\ DOMAIN order = 1 .. n /\ order \in [1 .. n -> Sigs]
                       /\ \A s \in Sigs : \E k \in 1 .. n : order[k] = s
  <2>1. order \in SetToSeqs(Sigs) /\ IsFiniteSet(Sigs)
    BY ObservedFinite DEF Orders
  <2> HIDE DEF Sigs
  <2> QED BY <2>1, OrderNumbersAll
<1>2. D = [i \in firsts |-> rec(i)]
  BY DEF Dedup
<1>3. ASSUME NEW i \in DOMAIN order
      PROVE  q(i) \in Observed /\ SameRecord(Signature(q(i)), order[i])
  <2>1. group(i) \subseteq DOMAIN order /\ group(i) # {}
    BY DEF SameRecord
  <2>2. q(i) \in Observed /\ \E j \in group(i) : Signature(q(i)) = order[j]
    BY <2>1, GroupSampleIsOfGroup
  <2> QED BY <2>2
<1> HIDE DEF q
<1>4. DOMAIN D = firsts /\ DOMAIN D \subseteq Nat /\ \A i \in firsts : D[i] = rec(i)
  <2>1. firsts \subseteq Nat
    BY <1>1
  <2> HIDE DEF D, rec, firsts
  <2> QED BY <1>2, <2>1
<1>5. ASSUME NEW i \in firsts
      PROVE  /\ D[i].members = {r \in Observed : SameRecord(Signature(r), order[i])}
             /\ D[i].sample = q(i) /\ D[i].domain = Flow[q(i)].domain
             /\ D[i].host = "" /\ D[i].sp = None
             /\ D[i] = Record(D[i].members, D[i].sample, D[i].domain, D[i].host, D[i].sp, D[i].failed)
  <2> DEFINE same == {r \in Observed : SameRecord(Signature(r), order[i])}
  <2>1. D[i] = Record(same, q(i), Flow[q(i)].domain, "", None, {})
    BY <1>4 DEF Record
  <2> HIDE DEF D, same
  <2>2. /\ D[i].members = same
        /\ D[i].sample = q(i) /\ D[i].domain = Flow[q(i)].domain
        /\ D[i].host = "" /\ D[i].sp = None
        /\ D[i] = Record(D[i].members, D[i].sample, D[i].domain, D[i].host, D[i].sp, D[i].failed)
    <3>1. PICK rr : rr = D[i]
      OBVIOUS
    <3>e. PICK empty : empty = ""
      OBVIOUS
    <3>n. PICK nothing : nothing = {}
      OBVIOUS
    <3>2. rr = Record(same, q(i), Flow[q(i)].domain, empty, None, nothing)
      BY <2>1, <3>1, <3>e, <3>n
    <3>3. /\ rr.members = same /\ rr.sample = q(i) /\ rr.domain = Flow[q(i)].domain
          /\ rr.host = empty /\ rr.sp = None
          /\ rr = Record(rr.members, rr.sample, rr.domain, rr.host, rr.sp, rr.failed)
      BY <3>2, Fields
    <3> QED BY <3>1, <3>3, <3>e
  <2> QED BY <2>2 DEF same
<1> HIDE DEF D
<1>6. ASSUME NEW i \in firsts
      PROVE  /\ Shaped(D[i]) /\ D[i].sp = None /\ D[i].host = ""
             /\ D[i].domain = Flow[D[i].sample].domain
  <2>1. \A r : SameRecord(Signature(r), order[i]) <=> SameRecord(Signature(r), Signature(q(i)))
    BY <1>3 DEF SameRecord
  <2>2. D[i].members = {r \in Observed : SameRecord(Signature(r), Signature(D[i].sample))}
    BY <1>5, <2>1
  <2> QED BY <1>3, <1>5, <2>2 DEF Shaped
<1>7. ASSUME NEW i \in firsts, NEW j \in firsts,
             SameRecord(Signature(D[i].sample), Signature(D[j].sample))
      PROVE  i = j
  <2>1. SameRecord(order[i], order[j]) /\ SameRecord(order[j], order[i])
    BY <1>3, <1>5, <1>7 DEF SameRecord
  <2>2. i \in Nat /\ j \in Nat /\ i >= 1 /\ j >= 1
    BY <1>1
  <2>3. ~(i < j) /\ ~(j < i)
    BY <2>1, <2>2
  <2> QED BY <2>2, <2>3
<1>8. ASSUME NEW r \in Observed
      PROVE  \E i \in firsts : r \in D[i].members
  <2>1. PICK k \in 1 .. n : order[k] = Signature(r)
    BY <1>1
  <2> DEFINE m == Min(group(k))
  <2>2. k \in group(k) /\ group(k) \subseteq Nat
    BY <1>1 DEF SameRecord
  <2>3. m \in group(k) /\ \A j \in group(k) : m <= j
    <3> HIDE DEF group
    <3> QED BY <2>2, MinIsIn
  <2> HIDE DEF m
  <2>4. m \in 1 .. n /\ SameRecord(order[m], order[k])
    BY <1>1, <2>3
  <2>5. ASSUME NEW j \in 1 .. m - 1, SameRecord(order[j], order[m]) PROVE FALSE
    <3>1. j \in 1 .. n /\ j < m
      BY <2>4
    <3>2. j \in group(k)
      BY <1>1, <2>4, <2>5, <3>1 DEF SameRecord
    <3> QED BY <2>3, <2>4, <3>1, <3>2
  <2>6. m \in firsts
    BY <1>1, <2>4, <2>5
  <2>7. SameRecord(Signature(r), order[m])
    BY <2>1, <2>4 DEF SameRecord
  <2> QED BY <1>5, <2>6, <2>7
<1> HIDE DEF firsts
<1> QED BY <1>4, <1>6, <1>7, <1>8 DEF D

-----------------------------------------------------------------------------
(***************************************************************************)
(* The invariant of the records.                                           *)
(***************************************************************************)

\* Where there are no records, there is nothing to be said of them.
LEMMA NoRecords ==
    ASSUME records = <<>>, pc \in {"idle", "query"}
    PROVE  RecordsApart /\ OnlyFitting /\ FilledIn
<1>1. DOMAIN records = {}
  OBVIOUS
<1> QED BY <1>1 DEF RecordsApart, OnlyFitting, FilledIn

LEMMA InitRecords == ASSUME Init PROVE RecordsInv
<1> USE DEF Init
<1>1. window \in [start : 0 .. MaxSecond, end : 0 .. MaxSecond]
  <2>1. MaxSecond \in Nat
    BY EnrichmentAssumption
  <2>2. 0 \in 0 .. MaxSecond
    BY <2>1
  <2> QED BY <2>2
<1>2. Times
  BY <1>1 DEF Times
<1> QED BY <1>2, NoRecords DEF RecordsInv

\* Signatures make records that have been given nothing yet.
LEMMA SignaturesKeepRecords == ASSUME RecordsInv, QuerySignatures PROVE RecordsInv'
<1> USE DEF RecordsInv, QuerySignatures
<1>1. Times'
  BY DEF Times
<1>2. CASE records' = <<>>
  <2>1. pc' = "idle"
    BY <1>2
  <2>2. (RecordsApart /\ OnlyFitting /\ FilledIn)'
    <3>1. DOMAIN records' = {}
      BY <1>2
    <3> QED BY <2>1, <3>1 DEF RecordsApart, OnlyFitting, FilledIn
  <2> QED BY <1>1, <2>2
<1>3. CASE records' # <<>>
  <2>1. PICK order \in Orders, sample \in Samples : records' = Dedup(order, sample)
    OBVIOUS
  <2> USE DEF Observed
  <2>2. pc' = "sp" /\ UNCHANGED <<second, window>>
    BY <1>3
  <2> DEFINE D == Dedup(order, sample)
  <2>3. /\ DOMAIN D \subseteq Nat
        /\ \A i \in DOMAIN D : /\ Shaped(D[i]) /\ D[i].sp = None /\ D[i].host = ""
                               /\ D[i].domain = Flow[D[i].sample].domain
        /\ \A i, j \in DOMAIN D :
              SameRecord(Signature(D[i].sample), Signature(D[j].sample)) => i = j
        /\ \A r \in Observed : \E i \in DOMAIN D : r \in D[i].members
    <3> HIDE DEF Observed
    <3> QED BY DedupTakesEachOnce
  <2>4. records' = D
    BY <2>1
  <2> HIDE DEF D
  <2>5. RecordsApart'
    BY <2>2, <2>3, <2>4 DEF RecordsApart, Shaped
  <2>6. OnlyFitting'
    <3>1. ASSUME NEW i \in DOMAIN records'
          PROVE  /\ records'[i].sp = None /\ records'[i].host = ""
                 /\ records'[i].domain = Flow[records'[i].sample].domain
                 /\ \E r \in Request : FitsAt(i, r)' /\ Flow[r].domain = records'[i].domain
      <4>1. PICK s \in Request : s = records'[i].sample
        BY <2>3, <2>4 DEF Shaped
      <4>2. FitsAt(i, s)'
        BY <2>2, <4>1 DEF FitsAt, Fits
      <4> QED BY <2>3, <2>4, <4>1, <4>2
    <3>2. None \notin Request
      BY EnrichmentAssumption
    <3> QED BY <3>1, <3>2 DEF OnlyFitting
  <2>7. FilledIn'
    BY <2>2 DEF FilledIn
  <2> QED BY <1>1, <2>5, <2>6, <2>7
<1> QED BY <1>2, <1>3

-----------------------------------------------------------------------------
(***************************************************************************)
(* What the rows of an answer give.                                        *)
(***************************************************************************)

\* A field is filled once, from a row that has something for it, and stays empty
\* only if no row has.
LEMMA FirstOfFills ==
    ASSUME NEW now, NEW names, DOMAIN names \subseteq Nat
    PROVE  LET f == FirstOf(now, names)
           IN  /\ now # "" => f = now
               /\ f = now \/ \E k \in DOMAIN names : f = names[k]
               /\ f = "" => \A k \in DOMAIN names : names[k] = ""
<1> DEFINE some == {k \in DOMAIN names : names[k] # ""}
<1>1. CASE some = {} \/ now # ""
  <2>1. FirstOf(now, names) = now
    BY <1>1 DEF FirstOf
  <2> QED BY <1>1, <2>1
<1>2. CASE some # {} /\ now = ""
  <2>1. FirstOf(now, names) = names[Min(some)]
    BY <1>2 DEF FirstOf
  <2>2. Min(some) \in some
    <3> HIDE DEF some
    <3>1. some \subseteq Nat
      BY DEF some
    <3> QED BY <1>2, <3>1, MinIsIn
  <2> QED BY <1>2, <2>1, <2>2
<1> QED BY <1>1, <1>2

\* A record keeps its members and its sample when it is given rows.
LEMMA AttachedSP ==
    ASSUME NEW rec, Shaped(rec), NEW order, NEW rows
    PROVE  LET a == AttachSP(rec, order, rows)
           IN  /\ a = Record(a.members, a.sample, a.domain, a.host, a.sp, a.failed)
               /\ a.members = rec.members /\ a.sample = rec.sample /\ a.host = rec.host
               /\ a.failed = rec.failed
               /\ a.sp = IF rows = {} THEN None ELSE order[Max(rows)]
               /\ a.domain = FirstOf(rec.domain, [k \in rows |-> Flow[order[k]].domain])
<1> DEFINE sp     == IF rows = {} THEN None ELSE order[Max(rows)]
           domain == FirstOf(rec.domain, [k \in rows |-> Flow[order[k]].domain])
<1>1. AttachSP(rec, order, rows) = [rec EXCEPT !.sp = sp, !.domain = domain]
  BY DEF AttachSP
<1> HIDE DEF sp, domain
<1>2. [rec EXCEPT !.sp = sp, !.domain = domain]
        = Record(rec.members, rec.sample, domain, rec.host, sp, rec.failed)
  <2>1. PICK r1 : r1 = [rec EXCEPT !.sp = sp]
    OBVIOUS
  <2>2. r1 = Record(rec.members, rec.sample, rec.domain, rec.host, sp, rec.failed)
    BY <2>1 DEF Shaped, Record
  <2>3. [rec EXCEPT !.sp = sp, !.domain = domain] = [r1 EXCEPT !.domain = domain]
    BY <2>1
  <2>4. [r1 EXCEPT !.domain = domain]
          = Record(rec.members, rec.sample, domain, rec.host, sp, rec.failed)
    BY <2>2 DEF Record
  <2> QED BY <2>3, <2>4
<1>3. PICK a : a = AttachSP(rec, order, rows)
  OBVIOUS
<1>4. a = Record(rec.members, rec.sample, domain, rec.host, sp, rec.failed)
  BY <1>1, <1>2, <1>3
<1>5. /\ a.members = rec.members /\ a.sample = rec.sample /\ a.domain = domain
      /\ a.host = rec.host /\ a.sp = sp /\ a.failed = rec.failed
      /\ a = Record(a.members, a.sample, a.domain, a.host, a.sp, a.failed)
  BY <1>4, Fields
<1> QED BY <1>3, <1>5 DEF sp, domain

LEMMA AttachedS ==
    ASSUME NEW rec, Shaped(rec), NEW order, NEW rows
    PROVE  LET a == AttachS(rec, order, rows)
           IN  /\ a = Record(a.members, a.sample, a.domain, a.host, a.sp, a.failed)
               /\ a.members = rec.members /\ a.sample = rec.sample /\ a.domain = rec.domain
               /\ a.sp = rec.sp /\ a.failed = rec.failed
               /\ a.host = FirstOf(rec.host, [k \in rows |-> Flow[order[k]].host])
<1> DEFINE host == FirstOf(rec.host, [k \in rows |-> Flow[order[k]].host])
<1>1. AttachS(rec, order, rows) = [rec EXCEPT !.host = host]
  BY DEF AttachS
<1> HIDE DEF host
<1>2. [rec EXCEPT !.host = host]
        = Record(rec.members, rec.sample, rec.domain, host, rec.sp, rec.failed)
  BY DEF Shaped, Record
<1>3. PICK a : a = AttachS(rec, order, rows)
  OBVIOUS
<1>4. a = Record(rec.members, rec.sample, rec.domain, host, rec.sp, rec.failed)
  BY <1>1, <1>2, <1>3
<1>5. /\ a.members = rec.members /\ a.sample = rec.sample /\ a.domain = rec.domain
      /\ a.host = host /\ a.sp = rec.sp /\ a.failed = rec.failed
      /\ a = Record(a.members, a.sample, a.domain, a.host, a.sp, a.failed)
  BY <1>4, Fields
<1> QED BY <1>3, <1>5 DEF host

-----------------------------------------------------------------------------
(***************************************************************************)
(* The two queries.                                                        *)
(***************************************************************************)

\* The window, the samples and the members of the records stay as they are.
RecordsKept ==
    /\ pc \in {"sp", "s"} /\ pc' \in {"s", "upsert"}
    /\ UNCHANGED <<second, window>>
    /\ DOMAIN records' = DOMAIN records
    /\ \A i \in DOMAIN records :
          LET rec == records'[i]
          IN  /\ rec = Record(rec.members, rec.sample, rec.domain, rec.host, rec.sp, rec.failed)
              /\ rec.members = records[i].members /\ rec.sample = records[i].sample
              /\ rec.sp \in Request \cup {None}

\* The same rows are then asked for, and they fit the same records.
LEMMA KeptRecords ==
    ASSUME RecordsInv, RecordsKept
    PROVE  /\ Times' /\ RecordsApart' /\ Rows' = Rows
           /\ \A i \in DOMAIN records : \A r : FitsAt(i, r)' <=> FitsAt(i, r)
           /\ \A i \in DOMAIN records : \A r : MatchRow(i, r)' <=> MatchRow(i, r)
<1> USE DEF RecordsKept
<1>1. Times'
  BY DEF RecordsInv, Times
<1>2. RecordsApart'
  <2>1. \A i \in DOMAIN records : Shaped(records[i])'
    BY DEF RecordsInv, RecordsApart, Shaped, Observed
  <2>2. \A r \in Observed : \E i \in DOMAIN records : r \in records[i].members
    BY DEF RecordsInv, RecordsApart
  <2> QED BY <2>1, <2>2 DEF RecordsInv, RecordsApart, Observed
<1>3. Rows' = Rows
  BY DEF Rows, Range
<1>4. \A i \in DOMAIN records : \A r : FitsAt(i, r)' <=> FitsAt(i, r)
  BY DEF FitsAt, Fits
<1>5. \A i \in DOMAIN records : \A r : MatchRow(i, r)' <=> MatchRow(i, r)
  <2>1. \A i, r : MatchRow(i, r) <=> FitsAt(i, r) /\ \A j \in DOMAIN records : j < i => ~FitsAt(j, r)
    BY DEF MatchRow, FitsAt
  <2>2. \A i, r : MatchRow(i, r)' <=> FitsAt(i, r)' /\ \A j \in DOMAIN records' : j < i => ~FitsAt(j, r)'
    BY DEF MatchRow, FitsAt, Fits
  <2> QED BY <1>4, <2>1, <2>2
<1> QED BY <1>1, <1>2, <1>3, <1>4, <1>5

\* The rows given to a record by an answer fit it, and each that it is given is there.
LEMMA MatchedRows ==
    ASSUME NEW order \in SetToSeqs(Rows), NEW i \in DOMAIN records
    PROVE  /\ Matched(i, order) \subseteq Nat
           /\ \A k \in Matched(i, order) : order[k] \in Rows /\ MatchRow(i, order[k])
           /\ \A r \in Rows : MatchRow(i, r) => \E k \in Matched(i, order) : order[k] = r
           /\ Matched(i, order) # {} => Max(Matched(i, order)) \in Matched(i, order)
<1>1. IsFiniteSet(Rows)
  BY EnrichmentAssumption, FS_Subset DEF Rows
<1>2. PICK n \in Nat : /\ DOMAIN order = 1 .. n /\ order \in [1 .. n -> Rows]
                       /\ \A r \in Rows : \E k \in 1 .. n : order[k] = r
  BY <1>1, OrderNumbersAll
<1>3. Matched(i, order) \subseteq 1 .. n
  BY <1>2 DEF Matched
<1>4. Matched(i, order) # {} => Max(Matched(i, order)) \in Matched(i, order)
  BY <1>3, MaxIsIn
<1> QED BY <1>2, <1>3, <1>4 DEF Matched

LEMMA FailureKeepsRecords ==
    ASSUME RecordsInv, NEW this, NEW next,
           (this = "sp" /\ next = "s") \/ (this = "s" /\ next = "upsert"),
           pc = this, pc' = next, UNCHANGED <<second, window>>,
           records' = [i \in DOMAIN records |-> [records[i] EXCEPT !.failed = @ \cup {this}]]
    PROVE  RecordsInv'
<1>s. \A i \in DOMAIN records : Shaped(records[i])
  BY DEF RecordsInv, RecordsApart
<1>1. DOMAIN records' = DOMAIN records
  OBVIOUS
<1>2. ASSUME NEW i \in DOMAIN records
      PROVE  LET a == records'[i]
             IN  /\ a = Record(a.members, a.sample, a.domain, a.host, a.sp, a.failed)
                 /\ a.members = records[i].members /\ a.sample = records[i].sample
                 /\ a.domain = records[i].domain /\ a.host = records[i].host
                 /\ a.sp = records[i].sp /\ a.failed = records[i].failed \cup {this}
  <2>1. PICK rec : rec = records[i]
    OBVIOUS
  <2>2. Shaped(rec)
    BY <1>s, <2>1
  <2>3. PICK a : a = records'[i]
    OBVIOUS
  <2>n. PICK failed : failed = rec.failed \cup {this}
    OBVIOUS
  <2>4. a = [rec EXCEPT !.failed = failed]
    BY <2>1, <2>3, <2>n
  <2>5. /\ a = Record(a.members, a.sample, a.domain, a.host, a.sp, a.failed)
        /\ a.members = rec.members /\ a.sample = rec.sample
        /\ a.domain = rec.domain /\ a.host = rec.host
        /\ a.sp = rec.sp /\ a.failed = failed
    <3>1. a = Record(rec.members, rec.sample, rec.domain, rec.host, rec.sp, failed)
      BY <2>2, <2>4 DEF Shaped, Record
    <3> QED BY <3>1, Fields
  <2> QED BY <2>1, <2>3, <2>n, <2>5
<1>3. RecordsKept
  <2>1. \A i \in DOMAIN records : records[i].sp \in Request \cup {None}
    BY <1>s DEF Shaped
  <2> QED BY <1>1, <1>2, <2>1 DEF RecordsKept
<1>4. Times' /\ RecordsApart' /\ Rows' = Rows
  BY <1>3, KeptRecords
<1>f. \A i \in DOMAIN records : \A r : FitsAt(i, r)' <=> FitsAt(i, r)
  BY <1>3, KeptRecords
<1>m. \A i \in DOMAIN records : \A r : MatchRow(i, r)' <=> MatchRow(i, r)
  BY <1>3, KeptRecords
<1>k. \A i \in DOMAIN records : /\ records'[i].sample = records[i].sample
                               /\ records'[i].domain = records[i].domain
                               /\ records'[i].host = records[i].host
                               /\ records'[i].sp = records[i].sp
                               /\ records'[i].failed = records[i].failed \cup {this}
  BY <1>2
<1> HIDE <1>s, <1>2, <1>3
<1>5. OnlyFitting'
  <2> SUFFICES ASSUME NEW i \in DOMAIN records
               PROVE  /\ \A r \in Request : records'[i].sp = r => r \in Rows' /\ MatchRow(i, r)'
                      /\ records'[i].domain # "" =>
                           \E r \in Request : FitsAt(i, r)' /\ Flow[r].domain = records'[i].domain
                      /\ Flow[records'[i].sample].domain # "" =>
                           records'[i].domain = Flow[records'[i].sample].domain
                      /\ records'[i].host # "" =>
                           \E r \in Request : FitsAt(i, r)' /\ Flow[r].host = records'[i].host
    BY <1>1 DEF OnlyFitting
  <2>1. \A r \in Request : records[i].sp = r => r \in Rows /\ MatchRow(i, r)
    BY DEF RecordsInv, OnlyFitting
  <2>2. \A r \in Request : records'[i].sp = r => r \in Rows' /\ MatchRow(i, r)'
    BY <1>4, <1>k, <1>m, <2>1
  <2>3. records'[i].domain # "" => \E r \in Request : FitsAt(i, r)' /\ Flow[r].domain = records'[i].domain
    <3>1. records[i].domain # "" => \E r \in Request : FitsAt(i, r) /\ Flow[r].domain = records[i].domain
      BY DEF RecordsInv, OnlyFitting
    <3> QED BY <1>f, <1>k, <3>1
  <2>4. Flow[records'[i].sample].domain # "" =>
                           records'[i].domain = Flow[records'[i].sample].domain
    BY <1>k DEF RecordsInv, OnlyFitting
  <2>5. records'[i].host # "" => \E r \in Request : FitsAt(i, r)' /\ Flow[r].host = records'[i].host
    <3>1. records[i].host # "" => \E r \in Request : FitsAt(i, r) /\ Flow[r].host = records[i].host
      BY DEF RecordsInv, OnlyFitting
    <3> QED BY <1>f, <1>k, <3>1
  <2> QED BY <2>2, <2>3, <2>4, <2>5
<1>6. FilledIn'
  <2>1. ASSUME NEW i \in DOMAIN records, NEW r \in Rows, MatchRow(i, r)
        PROVE  /\ pc' \in {"s", "upsert"} /\ "sp" \notin records'[i].failed => records'[i].sp # None
               /\ pc' = "upsert" /\ "s" \notin records'[i].failed =>
                     records'[i].host # "" \/ Flow[r].host = ""
    <3>1. CASE this = "sp" /\ next = "s"
      BY <1>k, <3>1
    <3>2. CASE this = "s" /\ next = "upsert"
      BY <1>k, <2>1, <3>2 DEF RecordsInv, FilledIn
    <3> QED BY <3>1, <3>2
  <2> QED BY <1>1, <1>4, <1>m, <2>1 DEF FilledIn
<1> QED BY <1>4, <1>5, <1>6 DEF RecordsInv

\* An answer of the s-p query: the server of the last row that fits, and a domain
\* where there was none.
LEMMA AnswerSPKeepsRecords ==
    ASSUME RecordsInv, pc = "sp", pc' = "s", UNCHANGED <<second, window>>,
           NEW order \in SetToSeqs(Rows),
           records' = [i \in DOMAIN records |-> AttachSP(records[i], order, Matched(i, order))]
    PROVE  RecordsInv'
<1>n. None \notin Request
  BY EnrichmentAssumption
<1>s. \A i \in DOMAIN records : Shaped(records[i])
  BY DEF RecordsInv, RecordsApart
<1>1. DOMAIN records' = DOMAIN records
  OBVIOUS
<1>2. ASSUME NEW i \in DOMAIN records
      PROVE  LET a == records'[i]
             IN  /\ a = Record(a.members, a.sample, a.domain, a.host, a.sp, a.failed)
                 /\ a.members = records[i].members /\ a.sample = records[i].sample
                 /\ a.host = records[i].host
                 /\ a.sp = None \/ (a.sp \in Rows /\ MatchRow(i, a.sp))
                 /\ records[i].domain # "" => a.domain = records[i].domain
                 /\ \/ a.domain = records[i].domain
                    \/ \E r \in Rows : MatchRow(i, r) /\ a.domain = Flow[r].domain
                 /\ a.sp = None => \A r \in Rows : ~MatchRow(i, r)
  <2> DEFINE rows  == Matched(i, order)
             names == [k \in rows |-> Flow[order[k]].domain]
  <2>1. PICK rec : rec = records[i]
    OBVIOUS
  <2>2. PICK a : a = records'[i]
    OBVIOUS
  <2>3. a = AttachSP(rec, order, rows) /\ Shaped(rec)
    BY <1>s, <2>1, <2>2
  <2>4. /\ rows \subseteq Nat
        /\ \A k \in rows : order[k] \in Rows /\ MatchRow(i, order[k])
        /\ \A r \in Rows : MatchRow(i, r) => \E k \in rows : order[k] = r
        /\ rows # {} => Max(rows) \in rows
    BY MatchedRows
  <2> HIDE DEF rows
  <2>5. /\ a = Record(a.members, a.sample, a.domain, a.host, a.sp, a.failed)
        /\ a.members = rec.members /\ a.sample = rec.sample /\ a.host = rec.host
        /\ a.sp = IF rows = {} THEN None ELSE order[Max(rows)]
        /\ a.domain = FirstOf(rec.domain, names)
    BY <2>3, AttachedSP
  <2>6. a.sp = None \/ (a.sp \in Rows /\ MatchRow(i, a.sp))
    BY <2>4, <2>5
  <2>7. a.sp = None => \A r \in Rows : ~MatchRow(i, r)
    <3>1. rows # {} => a.sp \in Request
      BY <2>4, <2>5 DEF Rows
    <3> QED BY <1>n, <2>4, <3>1
  <2>8. /\ rec.domain # "" => a.domain = rec.domain
        /\ a.domain = rec.domain \/ \E k \in rows : a.domain = names[k]
    <3>1. DOMAIN names = rows
      OBVIOUS
    <3>2. PICK now : now = rec.domain
      OBVIOUS
    <3> HIDE DEF names
    <3>3. a.domain = FirstOf(now, names) /\ DOMAIN names \subseteq Nat
      BY <2>4, <2>5, <3>1, <3>2
    <3>4. /\ now # "" => FirstOf(now, names) = now
          /\ FirstOf(now, names) = now \/ \E k \in DOMAIN names : FirstOf(now, names) = names[k]
      BY <3>3, FirstOfFills
    <3> QED BY <3>1, <3>2, <3>3, <3>4
  <2>9. a.domain = rec.domain \/ \E r \in Rows : MatchRow(i, r) /\ a.domain = Flow[r].domain
    BY <2>4, <2>8
  <2> QED BY <2>1, <2>2, <2>5, <2>6, <2>7, <2>8, <2>9
<1>3. RecordsKept
  <2>1. Rows \subseteq Request
    BY DEF Rows
  <2> QED BY <1>1, <1>2, <2>1 DEF RecordsKept
<1>4. Times' /\ RecordsApart' /\ Rows' = Rows
  BY <1>3, KeptRecords
<1>f. \A i \in DOMAIN records : \A r : FitsAt(i, r)' <=> FitsAt(i, r)
  BY <1>3, KeptRecords
<1>m. \A i \in DOMAIN records : \A r : MatchRow(i, r)' <=> MatchRow(i, r)
  BY <1>3, KeptRecords
<1>5. OnlyFitting'
  <2> SUFFICES ASSUME NEW i \in DOMAIN records
               PROVE  /\ \A r \in Request : records'[i].sp = r => r \in Rows' /\ MatchRow(i, r)'
                      /\ records'[i].domain # "" =>
                           \E r \in Request : FitsAt(i, r)' /\ Flow[r].domain = records'[i].domain
                      /\ Flow[records'[i].sample].domain # "" =>
                           records'[i].domain = Flow[records'[i].sample].domain
                      /\ records'[i].host # "" =>
                           \E r \in Request : FitsAt(i, r)' /\ Flow[r].host = records'[i].host
    BY <1>1 DEF OnlyFitting
  <2>1. \A r \in Request : records'[i].sp = r => r \in Rows' /\ MatchRow(i, r)'
    BY <1>2, <1>4, <1>m, <1>n
  <2>2. records'[i].domain # "" => \E r \in Request : FitsAt(i, r)' /\ Flow[r].domain = records'[i].domain
    <3>1. records[i].domain # "" => \E r \in Request : FitsAt(i, r) /\ Flow[r].domain = records[i].domain
      BY DEF RecordsInv, OnlyFitting
    <3>2. \A r \in Rows : MatchRow(i, r) => r \in Request /\ FitsAt(i, r)
      BY DEF MatchRow, FitsAt, Rows
    <3>3. \/ records'[i].domain = records[i].domain
          \/ \E r \in Rows : MatchRow(i, r) /\ records'[i].domain = Flow[r].domain
      BY <1>2
    <3> QED BY <1>f, <3>1, <3>2, <3>3
  <2>3. Flow[records'[i].sample].domain # "" =>
           records'[i].domain = Flow[records'[i].sample].domain
    <3>1. Flow[records[i].sample].domain # "" => records[i].domain = Flow[records[i].sample].domain
      BY DEF RecordsInv, OnlyFitting
    <3>2. records'[i].sample = records[i].sample
          /\ (records[i].domain # "" => records'[i].domain = records[i].domain)
      BY <1>2
    <3> QED BY <3>1, <3>2
  <2>4. records'[i].host # "" => \E r \in Request : FitsAt(i, r)' /\ Flow[r].host = records'[i].host
    <3>1. records[i].host # "" => \E r \in Request : FitsAt(i, r) /\ Flow[r].host = records[i].host
      BY DEF RecordsInv, OnlyFitting
    <3> QED BY <1>2, <1>f, <3>1
  <2> QED BY <2>1, <2>2, <2>3, <2>4
<1>6. FilledIn'
  <2>1. ASSUME NEW i \in DOMAIN records, NEW r \in Rows, MatchRow(i, r)
        PROVE  records'[i].sp # None
    BY <1>2, <2>1
  <2> QED BY <1>1, <1>4, <1>m, <2>1 DEF FilledIn
<1> QED BY <1>4, <1>5, <1>6 DEF RecordsInv

\* An answer of the s query: a host where there was none.
LEMMA AnswerSKeepsRecords ==
    ASSUME RecordsInv, pc = "s", pc' = "upsert", UNCHANGED <<second, window>>,
           NEW order \in SetToSeqs(Rows),
           records' = [i \in DOMAIN records |-> AttachS(records[i], order, Matched(i, order))]
    PROVE  RecordsInv'
<1>s. \A i \in DOMAIN records : Shaped(records[i])
  BY DEF RecordsInv, RecordsApart
<1>1. DOMAIN records' = DOMAIN records
  OBVIOUS
<1>2. ASSUME NEW i \in DOMAIN records
      PROVE  LET a == records'[i]
             IN  /\ a = Record(a.members, a.sample, a.domain, a.host, a.sp, a.failed)
                 /\ a.members = records[i].members /\ a.sample = records[i].sample
                 /\ a.domain = records[i].domain /\ a.sp = records[i].sp
                 /\ a.failed = records[i].failed
                 /\ \/ a.host = records[i].host
                    \/ \E r \in Rows : MatchRow(i, r) /\ a.host = Flow[r].host
                 /\ a.host = "" => \A r \in Rows : MatchRow(i, r) => Flow[r].host = ""
  <2> DEFINE rows  == Matched(i, order)
             names == [k \in rows |-> Flow[order[k]].host]
  <2>1. PICK rec : rec = records[i]
    OBVIOUS
  <2>2. PICK a : a = records'[i]
    OBVIOUS
  <2>3. a = AttachS(rec, order, rows) /\ Shaped(rec)
    BY <1>s, <2>1, <2>2
  <2>4. /\ rows \subseteq Nat
        /\ \A k \in rows : order[k] \in Rows /\ MatchRow(i, order[k])
        /\ \A r \in Rows : MatchRow(i, r) => \E k \in rows : order[k] = r
    BY MatchedRows
  <2> HIDE DEF rows
  <2>5. /\ a = Record(a.members, a.sample, a.domain, a.host, a.sp, a.failed)
        /\ a.members = rec.members /\ a.sample = rec.sample /\ a.domain = rec.domain
        /\ a.sp = rec.sp /\ a.failed = rec.failed
        /\ a.host = FirstOf(rec.host, names)
    BY <2>3, AttachedS
  <2>6. /\ a.host = rec.host \/ \E k \in rows : a.host = names[k]
        /\ a.host = "" => \A k \in rows : names[k] = ""
    <3>1. DOMAIN names = rows
      OBVIOUS
    <3>2. PICK now : now = rec.host
      OBVIOUS
    <3> HIDE DEF names
    <3>3. a.host = FirstOf(now, names) /\ DOMAIN names \subseteq Nat
      BY <2>4, <2>5, <3>1, <3>2
    <3>4. /\ FirstOf(now, names) = now \/ \E k \in DOMAIN names : FirstOf(now, names) = names[k]
          /\ FirstOf(now, names) = "" => \A k \in DOMAIN names : names[k] = ""
      BY <3>3, FirstOfFills
    <3> QED BY <3>1, <3>2, <3>3, <3>4
  <2>7. a.host = rec.host \/ \E r \in Rows : MatchRow(i, r) /\ a.host = Flow[r].host
    BY <2>4, <2>6
  <2>8. ASSUME a.host = "", NEW r \in Rows, MatchRow(i, r) PROVE Flow[r].host = ""
    <3>1. PICK k \in rows : order[k] = r
      BY <2>4, <2>8
    <3>2. names[k] = Flow[order[k]].host
      OBVIOUS
    <3>3. names[k] = ""
      BY <2>6, <2>8
    <3> QED BY <3>1, <3>2, <3>3
  <2> QED BY <2>1, <2>2, <2>5, <2>7, <2>8
<1>3. RecordsKept
  <2>1. \A i \in DOMAIN records : records[i].sp \in Request \cup {None}
    BY <1>s DEF Shaped
  <2> QED BY <1>1, <1>2, <2>1 DEF RecordsKept
<1>4. Times' /\ RecordsApart' /\ Rows' = Rows
  BY <1>3, KeptRecords
<1>f. \A i \in DOMAIN records : \A r : FitsAt(i, r)' <=> FitsAt(i, r)
  BY <1>3, KeptRecords
<1>m. \A i \in DOMAIN records : \A r : MatchRow(i, r)' <=> MatchRow(i, r)
  BY <1>3, KeptRecords
<1>5. OnlyFitting'
  <2> SUFFICES ASSUME NEW i \in DOMAIN records
               PROVE  /\ \A r \in Request : records'[i].sp = r => r \in Rows' /\ MatchRow(i, r)'
                      /\ records'[i].domain # "" =>
                           \E r \in Request : FitsAt(i, r)' /\ Flow[r].domain = records'[i].domain
                      /\ Flow[records'[i].sample].domain # "" =>
                           records'[i].domain = Flow[records'[i].sample].domain
                      /\ records'[i].host # "" =>
                           \E r \in Request : FitsAt(i, r)' /\ Flow[r].host = records'[i].host
    BY <1>1 DEF OnlyFitting
  <2>k. /\ records'[i].domain = records[i].domain /\ records'[i].sp = records[i].sp
        /\ records'[i].sample = records[i].sample
    BY <1>2
  <2>1. \A r \in Request : records'[i].sp = r => r \in Rows' /\ MatchRow(i, r)'
    BY <1>4, <1>m, <2>k DEF RecordsInv, OnlyFitting
  <2>2. records'[i].domain # "" => \E r \in Request : FitsAt(i, r)' /\ Flow[r].domain = records'[i].domain
    <3>1. records[i].domain # "" => \E r \in Request : FitsAt(i, r) /\ Flow[r].domain = records[i].domain
      BY DEF RecordsInv, OnlyFitting
    <3> QED BY <1>f, <2>k, <3>1
  <2>3. Flow[records'[i].sample].domain # "" =>
           records'[i].domain = Flow[records'[i].sample].domain
    BY <2>k DEF RecordsInv, OnlyFitting
  <2>4. records'[i].host # "" => \E r \in Request : FitsAt(i, r)' /\ Flow[r].host = records'[i].host
    <3>1. records[i].host # "" => \E r \in Request : FitsAt(i, r) /\ Flow[r].host = records[i].host
      BY DEF RecordsInv, OnlyFitting
    <3>2. \A r \in Rows : MatchRow(i, r) => r \in Request /\ FitsAt(i, r)
      BY DEF MatchRow, FitsAt, Rows
    <3>3. \/ records'[i].host = records[i].host
          \/ \E r \in Rows : MatchRow(i, r) /\ records'[i].host = Flow[r].host
      BY <1>2
    <3> QED BY <1>f, <3>1, <3>2, <3>3
  <2> QED BY <2>1, <2>2, <2>3, <2>4
<1>6. FilledIn'
  <2>1. ASSUME NEW i \in DOMAIN records, NEW r \in Rows, MatchRow(i, r)
        PROVE  /\ "sp" \notin records'[i].failed => records'[i].sp # None
               /\ records'[i].host # "" \/ Flow[r].host = ""
    <3>1. "sp" \notin records[i].failed => records[i].sp # None
      BY <2>1 DEF RecordsInv, FilledIn
    <3> QED BY <1>2, <2>1, <3>1
  <2> QED BY <1>1, <1>4, <1>m, <2>1 DEF FilledIn
<1> QED BY <1>4, <1>5, <1>6 DEF RecordsInv

LEMMA QueryKeepsRecords == ASSUME RecordsInv, QuerySP \/ QueryS PROVE RecordsInv'
<1>1. CASE QuerySP
  <2>1. pc = "sp" /\ pc' = "s" /\ UNCHANGED <<second, window>>
    BY <1>1 DEF QuerySP, Query
  <2>2. CASE \E order \in SetToSeqs(Rows) :
               records' = [i \in DOMAIN records |-> Attach("sp", records[i], order, Matched(i, order))]
    BY <2>1, <2>2, AnswerSPKeepsRecords DEF Attach
  <2>3. CASE records' = [i \in DOMAIN records |-> [records[i] EXCEPT !.failed = @ \cup {"sp"}]]
    BY <2>1, <2>3, FailureKeepsRecords
  <2> QED BY <1>1, <2>2, <2>3 DEF QuerySP, Query
<1>2. CASE QueryS
  <2>1. pc = "s" /\ pc' = "upsert" /\ UNCHANGED <<second, window>>
    BY <1>2 DEF QueryS, Query
  <2>2. CASE \E order \in SetToSeqs(Rows) :
               records' = [i \in DOMAIN records |-> Attach("s", records[i], order, Matched(i, order))]
    BY <2>1, <2>2, AnswerSKeepsRecords DEF Attach
  <2>3. CASE records' = [i \in DOMAIN records |-> [records[i] EXCEPT !.failed = @ \cup {"s"}]]
    BY <2>1, <2>3, FailureKeepsRecords
  <2> QED BY <1>2, <2>2, <2>3 DEF QueryS, Query
<1> QED BY <1>1, <1>2

-----------------------------------------------------------------------------
(***************************************************************************)
(* The keys.                                                               *)
(***************************************************************************)

\* The key of a record is made of something that it has been given, or of the agent.
LEMMA KeyHasName ==
    ASSUME NEW rec
    PROVE  LET name == ComputeServiceKey(rec)[2]
           IN  \/ rec.sp # None /\ name \in {Flow[rec.sp].service, Flow[rec.sp].ip}
               \/ rec.domain # "" /\ name = rec.domain
               \/ rec.host # "" /\ name = rec.host
               \/ name = Flow[rec.sample].agent
<1>1. "" \notin DnsName /\ "" \notin Address
  BY EnrichmentAssumption
<1> QED BY <1>1 DEF ComputeServiceKey

\* The key of a request is made of its own observations.
LEMMA OwnKeyIs ==
    ASSUME NEW r \in Request
    PROVE  OwnKey(r) =
             IF Flow[r].service # "" THEN <<"k8s", Flow[r].service>>
             ELSE IF Flow[r].domain \in DnsName THEN <<"dns", Flow[r].domain>>
             ELSE IF Flow[r].host \in Address THEN <<"ip", Flow[r].host, Flow[r].port>>
             ELSE IF Flow[r].ip \in Address THEN <<"ip", Flow[r].ip, Flow[r].port>>
             ELSE <<"agent", Flow[r].agent, Flow[r].port>>
<1>1. r # None
  BY EnrichmentAssumption
<1> QED BY <1>1 DEF OwnKey, ComputeServiceKey

\* The kind of a key tells what DeepFlow knows.
LEMMA OwnKeyKind ==
    ASSUME NEW r \in Request
    PROVE  /\ OwnKey(r)[1] = "k8s" <=> Flow[r].service # ""
           /\ OwnKey(r)[1] = "dns" <=> Flow[r].service = "" /\ Flow[r].domain \in DnsName
<1> DEFINE kind == OwnKey(r)[1]
<1>1. CASE Flow[r].service # ""
  <2>1. OwnKey(r) = <<"k8s", Flow[r].service>>
    BY <1>1, OwnKeyIs
  <2>2. kind = "k8s"
    BY <2>1
  <2> HIDE DEF kind
  <2>3. kind # "dns"
    BY <2>2
  <2> QED BY <1>1, <2>2, <2>3, Zenon DEF kind
<1>2. CASE Flow[r].service = "" /\ Flow[r].domain \in DnsName
  <2>1. OwnKey(r) = <<"dns", Flow[r].domain>>
    BY <1>2, OwnKeyIs
  <2>2. kind = "dns"
    BY <2>1
  <2> HIDE DEF kind
  <2>3. kind # "k8s"
    BY <2>2
  <2> QED BY <1>2, <2>2, <2>3, Zenon DEF kind
<1>3. CASE Flow[r].service = "" /\ Flow[r].domain \notin DnsName
  <2>1. \/ OwnKey(r) = <<"ip", Flow[r].host, Flow[r].port>>
        \/ OwnKey(r) = <<"ip", Flow[r].ip, Flow[r].port>>
        \/ OwnKey(r) = <<"agent", Flow[r].agent, Flow[r].port>>
    BY <1>3, OwnKeyIs
  <2>2. kind = "ip" \/ kind = "agent"
    BY <2>1
  <2> HIDE DEF kind
  <2>3. kind # "k8s" /\ kind # "dns"
    BY <2>2
  <2> QED BY <1>3, <2>3, Zenon DEF kind
<1> QED BY <1>1, <1>2, <1>3, Zenon

\* A row of the table is one that was requested of the service of its key.
LEMMA RecordIsRequested ==
    ASSUME RecordsInv, NEW i \in DOMAIN records
    PROVE  LET row == TableKey(records[i])
           IN  \E r \in Request : /\ Names(row.key, r) /\ second[r] < window.end
                                  /\ row.method = Flow[r].method /\ row.resource = ResourceOf(r)
<1>1. PICK rec : rec = records[i]
  OBVIOUS
<1>2. PICK s : s = rec.sample
  OBVIOUS
<1>3. s \in Request /\ second[s] < window.end /\ rec.sp \in Request \cup {None}
  BY <1>1, <1>2 DEF RecordsInv, RecordsApart, Shaped, Observed
<1>4. ASSUME NEW r, FitsAt(i, r)
      PROVE  /\ second[r] < window.end /\ Flow[s].method = Flow[r].method
             /\ ResourceOf(s) = ResourceOf(r)
  BY <1>1, <1>2, <1>3, <1>4 DEF FitsAt, Fits, ResourceOf
<1>5. /\ rec.sp # None => rec.sp \in Request /\ FitsAt(i, rec.sp)
      /\ rec.domain # "" => \E r \in Request : FitsAt(i, r) /\ Flow[r].domain = rec.domain
      /\ rec.host # "" => \E r \in Request : FitsAt(i, r) /\ Flow[r].host = rec.host
  BY <1>1, <1>3 DEF RecordsInv, OnlyFitting, MatchRow, FitsAt
<1>6. FitsAt(i, s)
  BY <1>1, <1>2 DEF FitsAt, Fits
<1>7. PICK key : key = ComputeServiceKey(rec)
  OBVIOUS
<1>8. \E r \in Request : FitsAt(i, r) /\ Names(key, r)
  <2>1. \/ rec.sp # None /\ key[2] \in {Flow[rec.sp].service, Flow[rec.sp].ip}
        \/ rec.domain # "" /\ key[2] = rec.domain
        \/ rec.host # "" /\ key[2] = rec.host
        \/ key[2] = Flow[s].agent
    BY <1>2, <1>7, KeyHasName
  <2> QED BY <1>3, <1>5, <1>6, <2>1 DEF Names
<1>9. /\ TableKey(rec).key = key /\ TableKey(rec).method = Flow[s].method
      /\ TableKey(rec).resource = ResourceOf(s)
  BY <1>2, <1>7 DEF TableKey
<1> QED BY <1>1, <1>4, <1>8, <1>9

\* What fits a record that is given all that its rows have, where the services and
\* the servers are not mixed up.
FitsOwn(i, r) ==
    /\ SameServer(r, records[i].sample)
    /\ OwnKey(r) = OwnKey(records[i].sample)
    /\ CleanNames(r)

\* The sample of a record is given to that record, when the same request has not been
\* made of another server in the same second.
LEMMA SampleMatches ==
    ASSUME RecordsInv, NEW i \in DOMAIN records,
           \A q \in Request : FitsAt(i, q) => SameServer(q, records[i].sample)
    PROVE  MatchRow(i, records[i].sample)
<1>1. PICK s \in Request : s = records[i].sample
  BY DEF RecordsInv, RecordsApart, Shaped, Observed
<1>2. FitsAt(i, s)
  BY <1>1 DEF FitsAt, Fits
<1>3. ASSUME NEW j \in DOMAIN records, j < i, FitsAt(j, s) PROVE FALSE
  <2>1. PICK q \in Request : q = records[j].sample
    BY DEF RecordsInv, RecordsApart, Shaped, Observed
  <2>2. FitsAt(i, q)
    BY <1>1, <1>3, <2>1 DEF FitsAt, Fits
  <2>3. Flow[q].url = Flow[s].url /\ Flow[q].method = Flow[s].method /\ SameServer(q, s)
    BY <1>1, <2>2 DEF FitsAt, Fits
  <2>4. SameRecord(Signature(q), Signature(s))
    BY <2>3 DEF SameRecord, DedupKey, Signature, SameServer
  <2>5. j = i
    BY <1>1, <2>1, <2>4 DEF RecordsInv, RecordsApart
  <2>6. i \in Nat
    BY DEF RecordsInv, RecordsApart
  <2> QED BY <1>3, <2>5, <2>6
<1> QED BY <1>1, <1>2, <1>3 DEF MatchRow, FitsAt

\* Such a record gets the key that its sample has by its own observations.
LEMMA RecordHasOwnKey ==
    ASSUME RecordsInv, pc = "upsert", NEW i \in DOMAIN records,
           records[i].failed = {}, Flow[records[i].sample].url \in ValidUrl,
           \A q \in Request : FitsAt(i, q) => FitsOwn(i, q)
    PROVE  ComputeServiceKey(records[i]) = OwnKey(records[i].sample)
<1>1. PICK rec : rec = records[i]
  OBVIOUS
<1>2. PICK s \in Request : s = rec.sample
  BY <1>1 DEF RecordsInv, RecordsApart, Shaped, Observed
<1>3. FitsAt(i, s)
  BY <1>1, <1>2 DEF FitsAt, Fits
<1>4. s \in Rows /\ MatchRow(i, s)
  <2>1. s \in Rows
    BY <1>1, <1>2 DEF Rows, Range
  <2>2. \A q \in Request : FitsAt(i, q) => SameServer(q, records[i].sample)
    BY DEF FitsOwn
  <2>3. MatchRow(i, records[i].sample)
    BY <2>2, SampleMatches
  <2> QED BY <1>1, <1>2, <2>1, <2>3
<1>5. rec.sp # None /\ (rec.host # "" \/ Flow[s].host = "")
  BY <1>1, <1>4 DEF RecordsInv, FilledIn
<1>6. PICK p \in Request : p = rec.sp
  BY <1>1, <1>5 DEF RecordsInv, RecordsApart, Shaped
<1>7. p \in Rows /\ MatchRow(i, p)
  BY <1>1, <1>6 DEF RecordsInv, OnlyFitting
<1>8. FitsAt(i, p) /\ (rec.host # "" \/ Flow[p].host = "")
  BY <1>1, <1>7 DEF RecordsInv, FilledIn, MatchRow, FitsAt
<1>9. ASSUME NEW q \in Request, FitsAt(i, q)
      PROVE  /\ OwnKey(q) = OwnKey(s)
             /\ Flow[q].port = Flow[s].port /\ Flow[q].agent = Flow[s].agent
             /\ Flow[q].domain # "" => Flow[q].domain \in DnsName
             /\ Flow[q].host # "" => Flow[q].host \in Address
  BY <1>1, <1>2, <1>9 DEF FitsOwn, SameServer, CleanNames
<1>10. /\ rec.domain # "" => \E q \in Request : FitsAt(i, q) /\ Flow[q].domain = rec.domain
       /\ rec.host # "" => \E q \in Request : FitsAt(i, q) /\ Flow[q].host = rec.host
       /\ Flow[s].domain # "" => rec.domain = Flow[s].domain
  BY <1>1, <1>2 DEF RecordsInv, OnlyFitting
<1>11. "" \notin DnsName /\ "" \notin Address
  BY EnrichmentAssumption
<1>12. ComputeServiceKey(rec) =
          IF Flow[p].service # "" THEN <<"k8s", Flow[p].service>>
          ELSE IF rec.domain \in DnsName THEN <<"dns", rec.domain>>
          ELSE IF rec.host \in Address THEN <<"ip", rec.host, Flow[s].port>>
          ELSE IF Flow[p].ip \in Address THEN <<"ip", Flow[p].ip, Flow[s].port>>
          ELSE <<"agent", Flow[s].agent, Flow[s].port>>
  BY <1>2, <1>5, <1>6 DEF ComputeServiceKey
<1> SUFFICES ComputeServiceKey(rec) = OwnKey(s)
  BY <1>1, <1>2
<1>13. CASE Flow[p].service # ""
  <2>1. OwnKey(p) = <<"k8s", Flow[p].service>>
    BY <1>13, OwnKeyIs
  <2> QED BY <1>8, <1>9, <1>12, <1>13, <2>1
<1>14. CASE Flow[p].service = ""
  <2>1. ASSUME NEW q \in Request, FitsAt(i, q) PROVE Flow[q].service = ""
    BY <1>8, <1>9, <1>14, <2>1, OwnKeyKind
  <2>2. CASE rec.domain # ""
    <3>1. PICK q \in Request : FitsAt(i, q) /\ Flow[q].domain = rec.domain
      BY <1>10, <2>2
    <3>2. rec.domain \in DnsName /\ Flow[q].service = ""
      BY <1>9, <2>1, <2>2, <3>1
    <3>3. OwnKey(q) = <<"dns", rec.domain>>
      BY <3>1, <3>2, OwnKeyIs
    <3> QED BY <1>9, <1>12, <1>14, <3>1, <3>2, <3>3
  <2>3. CASE rec.domain = ""
    <3>1. Flow[s].domain = ""
      BY <1>10, <2>3
    <3>2. ASSUME NEW q \in Request, FitsAt(i, q) PROVE Flow[q].domain \notin DnsName
      <4>1. Flow[s].service = "" /\ Flow[q].service = ""
        BY <1>3, <2>1, <3>2
      <4>2. OwnKey(s)[1] # "dns"
        BY <1>11, <3>1, <4>1, OwnKeyKind
      <4> QED BY <1>9, <3>2, <4>1, <4>2, OwnKeyKind
    <3>3. CASE rec.host # ""
      <4>1. PICK q \in Request : FitsAt(i, q) /\ Flow[q].host = rec.host
        BY <1>10, <3>3
      <4>2. /\ rec.host \in Address /\ Flow[q].service = "" /\ Flow[q].domain \notin DnsName
            /\ Flow[q].port = Flow[s].port
        BY <1>9, <2>1, <3>2, <3>3, <4>1
      <4>3. OwnKey(q) = <<"ip", rec.host, Flow[s].port>>
        BY <4>1, <4>2, OwnKeyIs
      <4> QED BY <1>9, <1>11, <1>12, <1>14, <2>3, <4>1, <4>2, <4>3
    <3>4. CASE rec.host = ""
      <4>1. /\ Flow[p].host \notin Address /\ Flow[p].domain \notin DnsName
            /\ Flow[p].port = Flow[s].port /\ Flow[p].agent = Flow[s].agent
        BY <1>8, <1>9, <1>11, <3>2, <3>4
      <4>2. OwnKey(p) = IF Flow[p].ip \in Address THEN <<"ip", Flow[p].ip, Flow[s].port>>
                        ELSE <<"agent", Flow[s].agent, Flow[s].port>>
        BY <1>14, <4>1, OwnKeyIs
      <4> QED BY <1>8, <1>9, <1>11, <1>12, <1>14, <2>3, <3>4, <4>2
    <3> QED BY <3>3, <3>4
  <2> QED BY <2>2, <2>3
<1> QED BY <1>13, <1>14

-----------------------------------------------------------------------------
(***************************************************************************)
(* The upsert.                                                             *)
(***************************************************************************)

\* The records are written and forgotten.
LEMMA UpsertKeepsRecords == ASSUME RecordsInv, Upsert PROVE RecordsInv'
<1>1. Times' /\ records' = <<>> /\ pc' = "idle"
  BY DEF RecordsInv, Times, Upsert
<1>2. DOMAIN records' = {}
  BY <1>1
<1>3. (RecordsApart /\ OnlyFitting /\ FilledIn)'
  BY <1>1, <1>2 DEF RecordsApart, OnlyFitting, FilledIn
<1> QED BY <1>1, <1>3 DEF RecordsInv

LEMMA UpsertRequested == ASSUME RecordsInv, RowsAreRequested, Upsert PROVE RowsAreRequested'
<1>1. PICK ok \in SUBSET Range(records) : table' = table \cup {TableKey(rec) : rec \in ok}
  BY DEF Upsert
<1>2. UNCHANGED <<second, window>>
  BY DEF Upsert
<1>3. ASSUME NEW row \in table'
      PROVE  \E r \in Request : /\ Names(row.key, r) /\ second[r] < window.end
                                /\ row.method = Flow[r].method /\ row.resource = ResourceOf(r)
  <2>1. CASE row \in table
    BY <2>1 DEF RowsAreRequested
  <2>2. CASE \E rec \in ok : row = TableKey(rec)
    <3>1. PICK i \in DOMAIN records : row = TableKey(records[i])
      BY <2>2 DEF Range
    <3> QED BY <3>1, RecordIsRequested
  <2> QED BY <1>1, <2>1, <2>2
<1> QED BY <1>2, <1>3 DEF RowsAreRequested

\* What is counted at a step is counted for its own service, or there is a reason.
LEMMA UpsertCounts == ASSUME RecordsInv, CountedForItsService, Upsert PROVE CountedForItsService'
<1> DEFINE Entries(rec) == {[request |-> r, sample |-> rec.sample, key |-> ComputeServiceKey(rec),
                             failed |-> rec.failed] : r \in rec.members}
           SharedPort(c) == \E q \in Request : /\ SameOperation(q, c.request) /\ SameServer(q, c.request)
                                               /\ OwnKey(q) # OwnKey(c.request)
           Confused(c) == \E q \in Request :
                             /\ SameRequest(q, c.sample) /\ second[q] = second[c.sample]
                             /\ ~SameServer(q, c.sample) \/ ~CleanNames(q)
           Right(c) == \/ c.key = OwnKey(c.request)
                       \/ c.failed # {}
                       \/ Flow[c.sample].url \notin ValidUrl
                       \/ SharedPort(c) \/ Confused(c)
<1>1. PICK ok \in SUBSET Range(records) : counted' = counted \cup UNION {Entries(rec) : rec \in ok}
  BY DEF Upsert
<1>2. UNCHANGED <<second, window>> /\ pc = "upsert"
  BY DEF Upsert
<1>3. ASSUME NEW i \in DOMAIN records, NEW r \in records[i].members, NEW c,
             c.request = r, c.sample = records[i].sample, c.key = ComputeServiceKey(records[i]),
             c.failed = records[i].failed, c.failed = {}, Flow[c.sample].url \in ValidUrl,
             ~SharedPort(c), ~Confused(c)
      PROVE  c.key = OwnKey(c.request)
  <2>1. PICK s \in Request : s = records[i].sample
    BY DEF RecordsInv, RecordsApart, Shaped, Observed
  <2>2. SameRecord(Signature(r), Signature(s))
    BY <2>1 DEF RecordsInv, RecordsApart, Shaped
  <2>3. SameOperation(r, s) /\ SameServer(r, s)
    BY <2>2, SameRecordMeans
  <2>4. \A q \in Request : SameOperation(q, r) /\ SameServer(q, r) => OwnKey(q) = OwnKey(r)
    BY <1>3
  <2>5. OwnKey(s) = OwnKey(r)
    BY <2>3, <2>4 DEF SameOperation, SameServer
  <2>6. ASSUME NEW q \in Request, FitsAt(i, q) PROVE FitsOwn(i, q)
    <3>1. SameRequest(q, s) /\ second[q] = second[s] /\ SameOperation(q, s)
      BY <2>1, <2>6 DEF FitsAt, Fits, SameRequest, SameOperation, ResourceOf
    <3>2. SameServer(q, s) /\ CleanNames(q)
      BY <1>3, <2>1, <3>1
    <3>3. SameOperation(q, r) /\ SameServer(q, r)
      BY <2>3, <3>1, <3>2 DEF SameOperation, SameServer
    <3> QED BY <2>1, <2>4, <2>5, <3>2, <3>3 DEF FitsOwn
  <2>7. ComputeServiceKey(records[i]) = OwnKey(s)
    BY <1>2, <1>3, <2>1, <2>6, RecordHasOwnKey
  <2> QED BY <1>3, <2>5, <2>7
<1> HIDE DEF SharedPort, Confused
<1>4. ASSUME NEW c \in counted' PROVE Right(c)
  <2>1. CASE c \in counted
    BY <2>1 DEF CountedForItsService, SharedPort, Confused
  <2>2. CASE \E rec \in ok : c \in Entries(rec)
    <3>1. PICK i \in DOMAIN records : c \in Entries(records[i])
      BY <2>2 DEF Range
    <3>2. PICK r \in records[i].members :
             c = [request |-> r, sample |-> records[i].sample, key |-> ComputeServiceKey(records[i]),
                  failed |-> records[i].failed]
      BY <3>1
    <3>3. /\ c.request = r /\ c.sample = records[i].sample
          /\ c.key = ComputeServiceKey(records[i]) /\ c.failed = records[i].failed
      BY <3>2
    <3> QED BY <1>3, <3>3
  <2> QED BY <1>1, <2>1, <2>2
<1> QED BY <1>2, <1>4 DEF CountedForItsService, SharedPort, Confused

-----------------------------------------------------------------------------
(***************************************************************************)
(* The theorems.                                                           *)
(***************************************************************************)

\* The first state has no records, no rows and nothing counted.
LEMMA InitEstablishesInv == ASSUME Init PROVE EnrichmentInv
<1>1. RecordsInv
  BY InitRecords
<1>2. RowsAreRequested /\ CountedForItsService
  BY DEF Init, RowsAreRequested, CountedForItsService
<1> QED BY <1>1, <1>2 DEF EnrichmentInv

\* Every step keeps the invariant.
LEMMA StepKeepsInv == ASSUME EnrichmentInv, [Next]_vars PROVE EnrichmentInv'
<1> USE DEF EnrichmentInv
<1>1. CASE BeginCycle
  <2>1. PICK e \in window.end + 1 .. MaxSecond : window' = [start |-> window.end, end |-> e]
    BY <1>1 DEF BeginCycle
  <2>2. window.end \in 0 .. MaxSecond /\ window.end < e /\ window'.end = e
        /\ window' \in [start : 0 .. MaxSecond, end : 0 .. MaxSecond]
    <3>1. window.end \in 0 .. MaxSecond /\ MaxSecond \in Nat
      BY EnrichmentAssumption DEF RecordsInv, Times
    <3>2. e \in 0 .. MaxSecond
      BY <2>1, <3>1
    <3> QED BY <2>1, <3>1, <3>2
  <2>3. pc = "idle" /\ pc' = "query" /\ UNCHANGED <<second, records, table, counted>>
    BY <1>1 DEF BeginCycle
  <2>4. Times'
    BY <2>2, <2>3 DEF RecordsInv, Times
  <2>5. (RecordsApart /\ OnlyFitting /\ FilledIn)'
    <3>1. DOMAIN records' = {}
      BY <2>3 DEF RecordsInv, Times
    <3> QED BY <2>3, <3>1 DEF RecordsApart, OnlyFitting, FilledIn
  <2>6. RowsAreRequested'
    <3>1. ASSUME NEW r \in Request, second[r] < window.end PROVE second'[r] < window'.end
      <4>1. second[r] \in 0 .. MaxSecond - 1 /\ MaxSecond \in Nat
        BY EnrichmentAssumption DEF RecordsInv, Times
      <4>2. second'[r] = second[r] /\ window.end \in Int /\ window'.end \in Int
        BY <2>2, <2>3, <4>1
      <4> QED BY <2>2, <3>1, <4>1, <4>2
    <3> QED BY <2>3, <3>1 DEF RowsAreRequested
  <2>7. CountedForItsService'
    BY <2>3 DEF CountedForItsService
  <2> QED BY <2>4, <2>5, <2>6, <2>7 DEF RecordsInv
<1>2. CASE QuerySignatures
  <2>1. UNCHANGED <<second, window, table, counted>>
    BY <1>2 DEF QuerySignatures
  <2> QED BY <1>2, <2>1, SignaturesKeepRecords DEF RowsAreRequested, CountedForItsService
<1>3. CASE QuerySP \/ QueryS
  <2>1. UNCHANGED <<second, window, table, counted>>
    BY <1>3 DEF QuerySP, QueryS, Query
  <2> QED BY <1>3, <2>1, QueryKeepsRecords DEF RowsAreRequested, CountedForItsService
<1>4. CASE Upsert
  BY <1>4, UpsertKeepsRecords, UpsertRequested, UpsertCounts
<1>5. CASE UNCHANGED vars
  <2>1. UNCHANGED <<second, pc, window, records, table, counted>>
    BY <1>5 DEF vars
  <2>2. RecordsInv'
    <3>1. Times' /\ RecordsApart'
      BY <2>1 DEF RecordsInv, Times, RecordsApart, Shaped, Observed
    <3>2. Rows' = Rows
      BY <2>1 DEF Rows
    <3>3. \A i, r : FitsAt(i, r)' <=> FitsAt(i, r)
      BY <2>1 DEF FitsAt, Fits
    <3>4. \A i, r : MatchRow(i, r)' <=> MatchRow(i, r)
      BY <2>1 DEF MatchRow, Fits
    <3>5. OnlyFitting'
      BY <2>1, <3>2, <3>3, <3>4 DEF RecordsInv, OnlyFitting
    <3>6. FilledIn'
      BY <2>1, <3>2, <3>4 DEF RecordsInv, FilledIn
    <3> QED BY <3>1, <3>5, <3>6 DEF RecordsInv
  <2> QED BY <2>1, <2>2 DEF RowsAreRequested, CountedForItsService
<1> QED BY <1>1, <1>2, <1>3, <1>4, <1>5 DEF Next

\* The records that the invariant describes are those that the type invariant does.
LEMMA RecordsAreTyped == ASSUME RecordsInv PROVE TypeOK
<1>1. ASSUME NEW rec \in Range(records)
      PROVE  rec.sample \in rec.members /\ rec.sp \in Request \cup {None}
  BY DEF RecordsInv, RecordsApart, Shaped, Range, SameRecord
<1>2. ASSUME NEW i \in DOMAIN records, NEW j \in DOMAIN records, i # j
      PROVE  records[i].members \cap records[j].members = {}
  <2> SUFFICES ASSUME NEW r \in records[i].members, r \in records[j].members PROVE i = j
    BY <1>2
  <2>1. /\ SameRecord(Signature(r), Signature(records[i].sample))
        /\ SameRecord(Signature(r), Signature(records[j].sample))
    BY DEF RecordsInv, RecordsApart, Shaped
  <2>2. SameRecord(Signature(records[i].sample), Signature(records[j].sample))
    BY <2>1 DEF SameRecord
  <2> QED BY <2>2 DEF RecordsInv, RecordsApart
<1>3. records # <<>> => UNION {rec.members : rec \in Range(records)} = Observed
  <2>1. \A rec \in Range(records) : rec.members \subseteq Observed
    BY DEF RecordsInv, RecordsApart, Shaped, Range
  <2>2. records # <<>> => \A r \in Observed : \E rec \in Range(records) : r \in rec.members
    BY DEF RecordsInv, Times, RecordsApart, Range
  <2> QED BY <2>1, <2>2
<1> QED BY <1>1, <1>2, <1>3 DEF TypeOK, RecordsInv, Times

\* The invariant holds in every reachable state.
THEOREM EnrichmentInvariant == Spec => []EnrichmentInv
<1>1. Init => EnrichmentInv
  BY InitEstablishesInv
<1>2. EnrichmentInv /\ [Next]_vars => EnrichmentInv'
  BY StepKeepsInv
<1> QED BY <1>1, <1>2, PTL DEF Spec

\* Every request of a window is a member of one record, from dedup to the upsert.
THEOREM TypeCorrect == Spec => []TypeOK
<1>1. EnrichmentInv => TypeOK
  BY RecordsAreTyped DEF EnrichmentInv
<1> QED BY <1>1, EnrichmentInvariant, PTL

\* No operation is invented: what stands in the table under a service's name was
\* requested of that service, whatever rows are mixed up and whatever query fails.
THEOREM RowsAreRequestedHolds == Spec => []RowsAreRequested
<1>1. EnrichmentInv => RowsAreRequested
  BY DEF EnrichmentInv
<1> QED BY <1>1, EnrichmentInvariant, PTL

\* A request is counted for its own service, and the five exceptions are all there are.
THEOREM CountedForItsServiceHolds == Spec => []CountedForItsService
<1>1. EnrichmentInv => CountedForItsService
  BY DEF EnrichmentInv
<1> QED BY <1>1, EnrichmentInvariant, PTL
=============================================================================
