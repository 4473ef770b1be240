----------------------------- MODULE Enrichment -----------------------------
(***************************************************************************)
(* Steps 3 to 5g of phase 1: which service each request of a window of     *)
(* Discovery is counted for.  dedup.go makes records of signatures, each   *)
(* with the URL and the second of one of its requests, the sample;         *)
(* enrichment.go reads the other observations of those URLs and gives each *)
(* to the first record it fits; servicekey.go makes the key of what a      *)
(* record has been given; the upsert merges records with equal keys.       *)
(*                                                                         *)
(* The noise filter, the LIMIT, repeated windows and hit_count are         *)
(* Discovery's.  The c-p query sets columns that no key is made of.        *)
(***************************************************************************)
EXTENDS Integers, SequencesExt

CONSTANTS
    Request,    \* requests observed by DeepFlow
    Flow,       \* [Request -> [method, url, port, agent, service, domain, host, ip]];
                \* "" where DeepFlow knows nothing;
                \* service: of the Kubernetes service, or else of the workload
    DnsName,    \* domains that a key may be made of: with a dot and a letter, no "localhost"
    Address,    \* addresses that a key may be made of: no loopback
    Endpoint,   \* [URLs -> endpoints], as DeepFlow reads them
    Resource,   \* [endpoints -> resources]: what normalisation makes of them
    ValidUrl,   \* URLs of the characters that may be put into a query
    MaxSecond,       \* bound: the end of time, in seconds
    None        \* not a request

ASSUME EnrichmentAssumption ==
    /\ IsFiniteSet(Request) /\ None \notin Request
    /\ "" \notin DnsName \cup Address
    /\ MaxSecond \in Nat

VARIABLES
    second,     \* [Request -> the second in which it was made]
    pc,
    window,     \* [start, end], in seconds: end is the watermark when idle
    records,    \* the FusedRecords of the cycle, numbered in the order of the signatures
    table,      \* keys of adc_discovered_apis: [key, method, resource]
    counted     \* history: [request, sample, key, failed]; failed: queries

vars == <<second, pc, window, records, table, counted>>

Observed == {r \in Request : window.start <= second[r] /\ second[r] < window.end}

\* The records take each request of the window once.
TypeOK ==
    /\ second \in [Request -> 0 .. MaxSecond - 1]
    /\ pc \in {"idle", "query", "sp", "s", "upsert"}
    /\ window \in [start : 0 .. MaxSecond, end : 0 .. MaxSecond]
    /\ \A rec \in Range(records) : rec.sample \in rec.members /\ rec.sp \in Request \cup {None}
    /\ \A i, j \in DOMAIN records : i # j => records[i].members \cap records[j].members = {}
    /\ records # <<>> => UNION {rec.members : rec \in Range(records)} = Observed

Init ==
    /\ second \in [Request -> 0 .. MaxSecond - 1]
    /\ pc = "idle" /\ window = [start |-> 0, end |-> 0]
    /\ records = <<>> /\ table = {} /\ counted = {}

BeginCycle ==
    /\ pc = "idle" /\ pc' = "query"
    /\ \E e \in window.end + 1 .. MaxSecond : window' = [start |-> window.end, end |-> e]
    /\ UNCHANGED <<second, records, table, counted>>

-----------------------------------------------------------------------------
(***************************************************************************)
(* Steps 1, 3 and 4.                                                       *)
(***************************************************************************)
Signature(r) == [method |-> Flow[r].method, endpoint |-> Endpoint[Flow[r].url],
                 port |-> Flow[r].port, agent |-> Flow[r].agent]

HitCount(s) == Cardinality({r \in Observed : Signature(r) = s})

\* ORDER BY hit_count DESC: ties come in any order.
Orders ==
    {o \in SetToSeqs({Signature(r) : r \in Observed}) :
        \A i, j \in DOMAIN o : i < j => HitCount(o[i]) >= HitCount(o[j])}

\* any(): one request of each signature.
Samples ==
    {f \in [{Signature(r) : r \in Observed} -> Observed] : \A s \in DOMAIN f : Signature(f[s]) = s}

DedupKey(s) ==
    [method |-> s.method, resource |-> Resource[s.endpoint], port |-> s.port, agent |-> s.agent]

SameRecord(s, u) == DedupKey(s) = DedupKey(u)

\* The sample of a group is replaced by one of a signature with more hits than
\* those before it together.
GroupSample(order, group, sample) ==
    LET before(i) == {r \in Observed : \E j \in group : j < i /\ Signature(r) = order[j]}
    IN  sample[order[Max({i \in group : HitCount(order[i]) > Cardinality(before(i))})]]

\* Groups come in the order of their first signatures.
Dedup(order, sample) ==
    LET firsts == {i \in DOMAIN order : \A j \in 1 .. i - 1 : ~SameRecord(order[j], order[i])}
    IN  [i \in firsts |->
            LET q == GroupSample(order, {j \in DOMAIN order : SameRecord(order[j], order[i])}, sample)
            IN  [members |-> {r \in Observed : SameRecord(Signature(r), order[i])},
                 sample |-> q, domain |-> Flow[q].domain, host |-> "", sp |-> None, failed |-> {}]]

QuerySignatures ==
    /\ pc = "query"
    /\ \E order \in Orders, sample \in Samples : records' = Dedup(order, sample)
    /\ pc' = IF records' = <<>> THEN "idle" ELSE "sp"
    /\ UNCHANGED <<second, window, table, counted>>

-----------------------------------------------------------------------------
(***************************************************************************)
(* Step 5.  The rows of an answer come in any order.                       *)
(***************************************************************************)
\* A window may also hold the rows of a second to either side: none of them fits.
Rows == {r \in Request : Flow[r].url \in ValidUrl /\ \E rec \in Range(records) : Flow[rec.sample].url = Flow[r].url}

\* Mutants: the path is not compared, nor the time.
FitsAnyUrl(rec, r) ==
    Flow[rec.sample].method = Flow[r].method /\ second[rec.sample] = second[r]
FitsAnyTime(rec, r) ==
    Flow[rec.sample].url = Flow[r].url /\ Flow[rec.sample].method = Flow[r].method

\* Both times are whole seconds, and so 500 ms is none.
Fits(rec, r) ==
    /\ Flow[rec.sample].url = Flow[r].url
    /\ Flow[rec.sample].method = Flow[r].method
    /\ second[rec.sample] = second[r]

\* matchRow: the first record that fits.
MatchRow(i, r) == Fits(records[i], r) /\ \A j \in DOMAIN records : j < i => ~Fits(records[j], r)

\* The rows of the answer "order" that are given to a record, by their numbers.
Matched(i, order) == {k \in DOMAIN order : MatchRow(i, order[k])}

\* Where a field is filled only once: the first row that has something for it.
FirstOf(now, names) ==
    LET some == {k \in DOMAIN names : names[k] # ""}
    IN  IF now # "" \/ some = {} THEN now ELSE names[Min(some)]

\* The last row that fits gives the names and the address of the server.
AttachSP(rec, order, rows) ==
    [rec EXCEPT !.sp = IF rows = {} THEN None ELSE order[Max(rows)],
                !.domain = FirstOf(@, [k \in rows |-> Flow[order[k]].domain])]

AttachS(rec, order, rows) ==
    [rec EXCEPT !.host = FirstOf(@, [k \in rows |-> Flow[order[k]].host])]

Attach(this, rec, order, rows) ==
    IF this = "sp" THEN AttachSP(rec, order, rows) ELSE AttachS(rec, order, rows)

\* A query that fails, or whose result cannot be read, leaves the records as they
\* are, and the phase goes on.
Query(this, next) ==
    /\ pc = this /\ pc' = next
    /\ \/ \E order \in SetToSeqs(Rows) :
             records' = [i \in DOMAIN records |-> Attach(this, records[i], order, Matched(i, order))]
       \/ records' = [i \in DOMAIN records |-> [records[i] EXCEPT !.failed = @ \cup {this}]]
    /\ UNCHANGED <<second, window, table, counted>>

QuerySP == Query("sp", "s")
QueryS  == Query("s", "upsert")

\* The six priorities; names stand without the port.
ComputeServiceKey(rec) ==
    LET port == Flow[rec.sample].port
    IN  IF rec.sp # None /\ Flow[rec.sp].service # "" THEN <<"k8s", Flow[rec.sp].service>>
        ELSE IF rec.domain \in DnsName THEN <<"dns", rec.domain>>
        ELSE IF rec.host \in Address THEN <<"ip", rec.host, port>>
        ELSE IF rec.sp # None /\ Flow[rec.sp].ip \in Address THEN <<"ip", Flow[rec.sp].ip, port>>
        ELSE <<"agent", Flow[rec.sample].agent, port>>

ResourceOf(r) == Resource[Endpoint[Flow[r].url]]

TableKey(rec) ==
    [key |-> ComputeServiceKey(rec), method |-> Flow[rec.sample].method, resource |-> ResourceOf(rec.sample)]

\* BatchUpsert goes on after records that fail.
Upsert ==
    /\ pc = "upsert" /\ pc' = "idle"
    /\ \E ok \in SUBSET Range(records) :
          /\ table' = table \cup {TableKey(rec) : rec \in ok}
          /\ counted' = counted \cup
                UNION {{[request |-> r, sample |-> rec.sample, key |-> ComputeServiceKey(rec),
                         failed |-> rec.failed] : r \in rec.members} : rec \in ok}
    /\ records' = <<>>
    /\ UNCHANGED <<second, window>>

Next == BeginCycle \/ QuerySignatures \/ QuerySP \/ QueryS \/ Upsert

Spec == Init /\ [][Next]_vars

-----------------------------------------------------------------------------
Names(key, r) == key[2] \in {Flow[r].service, Flow[r].domain, Flow[r].host, Flow[r].ip, Flow[r].agent}

\* No operation is invented: whatever rows are mixed up, whatever stands in the
\* table under a service's name was requested of that service.
RowsAreRequested ==
    \A row \in table : \E r \in Request :
        /\ Names(row.key, r) /\ second[r] < window.end
        /\ row.method = Flow[r].method /\ row.resource = ResourceOf(r)

\* The key that a request has by its own observations.
OwnKey(r) ==
    ComputeServiceKey([sample |-> r, sp |-> r, domain |-> Flow[r].domain, host |-> Flow[r].host])

SameOperation(q, r) == Flow[q].method = Flow[r].method /\ ResourceOf(q) = ResourceOf(r)
SameServer(q, r)    == Flow[q].port = Flow[r].port /\ Flow[q].agent = Flow[r].agent
SameRequest(q, r)   == Flow[q].url = Flow[r].url /\ Flow[q].method = Flow[r].method

\* Whatever was observed of a request can be made a key of.
CleanNames(q) == Flow[q].domain \in DnsName \cup {""} /\ Flow[q].host \in Address \cup {""}

\* A request is counted for its own service, with five exceptions: a query failed;
\* the URL cannot be queried; services behind one port of one agent share a record;
\* the same request was made of another server, be it another service's or a
\* replica, in the same second; an observation has a name or an address that no key
\* may be made of, which keeps a better one out.
CountedForItsService ==
    \A c \in counted :
        \/ c.key = OwnKey(c.request)
        \/ c.failed # {}
        \/ Flow[c.sample].url \notin ValidUrl
        \/ \E q \in Request : SameOperation(q, c.request) /\ SameServer(q, c.request) /\ OwnKey(q) # OwnKey(c.request)
        \/ \E q \in Request :
              /\ SameRequest(q, c.sample) /\ second[q] = second[c.sample]
              /\ ~SameServer(q, c.sample) \/ ~CleanNames(q)
=============================================================================
