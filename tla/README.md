# Verification of the API Discovery Controller (ADC)

TLA+ models of the WSO2 API Discovery Controller, the TLC runs that check them
and the TLAPS proofs about them. Paths such as `engine/engine.go` are relative
to `internal/` of the repository; `PROJECT.json` maps every definition to the
lines it stands for.

## 1. The system

ADC is one Go process with one working goroutine. Every poll interval the
engine runs a *cycle*: five phases and two housekeeping jobs, strictly one after
the other. They communicate only through four PostgreSQL tables; outside are
DeepFlow (observed traffic), the WSO2 APIM Publisher (published APIs), the APIM
Service Catalog (where findings are published), an operator who dismisses
findings by SQL, and the users of the catalog. The health server's goroutines
only read the breaker states, under the breakers' mutex.

| Component (code) | State | Operations | What is hard | What makes it correct |
|---|---|---|---|---|
| Discovery, phase 1 (`discovery/`, `store/discovered_repo.go`, `store/pipeline_state_repo.go`) | `adc_discovered_apis` with hit counts, `adc_pipeline_state` watermark | compute the window, query with a LIMIT, filter, normalise, dedup, enrich, upsert record by record, advance the watermark | rounding to seconds, late data, the LIMIT, a repeated window, a clock that steps back; rows without an id that belong to one of several records | consecutive windows neither overlap nor leave a gap; a request is counted for its own service |
| Managed sync, phase 2 (`managed/`, `apim/publisher.go`, `store/managed_*.go`) | `adc_managed_apis`, `adc_managed_api_operations` (no foreign key between them) | list page by page, fetch each detail, detect change, upsert in a transaction, soft-delete in two statements | APIM changes between two requests; any call may fail; soft-deleted rows | the baseline is a set of whole API versions that catches up |
| Comparison, phase 3 (`comparison/`) | `adc_unmanaged_apis` | match, detect and resolve collisions, classify; upsert each finding, resolve the unconfirmed, expire the quiet | Go map order, tied scores, failing lookups, failing upserts | the result is a function of the data; findings open and close for their reasons |
| Spec generation, phase 4 (`specgen/`) | column `openapi_spec`, status | list groups, read a group, assemble and validate a document, write it to the group | the SELECT and the UPDATE see different rows | a waiting row carries a document that lists it |
| Catalog push, phase 5 (`catalog/catalog.go`, `apim/catalog.go`) | the Service Catalog, column `catalog_service_id`, status | GET, PUT, DELETE, POST, search by name, mark pushed or skipped | lost responses and retried POSTs, name conflicts, other users, a mutual recursion | what is marked pushed was accepted; every finding is published in the end; every cycle ends |
| Engine and breakers (`engine/engine.go`, `engine/circuit.go`, `cmd/adc/main.go`) | timestamps, `firstFullCycleComplete`, three breakers; all in memory | ticker loop, conditions of each phase, breaker transitions, shutdown | unlucky intervals, phases of any length, a half-open breaker, `select` | no breaker sticks, comparison is not starved, a cycle counts as full only when all ran |
| Cleanup (`engine/cleanup.go`) | deletes from all four tables by age | four DELETEs, each on its own | foreign keys, comparisons that refresh ages | dismissals survive, the rest is forgotten |
| Reconciliation (`catalog/reconcile.go`) | none; deletes from the Service Catalog | load the tracked ids, list the catalog page by page, delete what nobody owns | several ADC instances with a database each, offsets that shift, an old listing, markers that users edit | never deletes what an ADC created, nor what a row of its own refers to; what has no owner goes |
| HTTP retry and authentication (`httputil/`, `apim/auth.go`) | a cached token and its expiry | retry with backoff, get and refresh the token | lost responses, requests repeated though they were served, tokens that expire or are revoked under way, cancellation | a call has the effect its answer claims; no expired token is sent |
| Start-up (`cmd/adc/main.go`, `store/postgres.go`, `store/migrate.go`) | `adc_schema_version` and the schema | connect with retries, apply the pending migrations, run the engine | two releases start at once, crashes, a lost COMMIT, a database that goes away | an engine runs only on a schema that has its migrations; in the end every process runs |
| Infrastructure (`deepflow/`, `config/`, `health/`, `logging/`) | none during a cycle | queries, parsing, reporting | | |

The repository has no tests. The hazards, each at its line, are listed in
`PROJECT.json`.

## 2. The modules

```
Classification ── CollisionResolution ── MCCollisionResolution
      │                     └─── FindingProofs ───┐
      └────────── UnmanagedStore ── Retention ────┴── MCRetention
                        └────────── Pipeline ── MCPipeline
                                     │  └────── PipelineProofs
FindingLifecycle <─ implemented by ──┘
CircuitBreaker ── Engine ───┐
                            ├── ProcessProofs
MCStartup ── Startup ───────┘
ManagedBaseline <─ implemented by ─ ManagedSync ── ManagedSyncProofs
Discovery ── MCDiscovery                Enrichment ── MCEnrichment
        └─── DiscoveryProofs                     └─── EnrichmentProofs
Reconciliation ── MCReconciliation
             └─── ReconciliationProofs
CatalogCall <─ implemented by ─ HttpClient ── HttpClientProofs
```

* **Classification** is phase 3 as a function of the discovered and the managed
  operations: which API matches an operation, which endpoints collide, who wins,
  who is MANAGED, SHADOW or DRIFT. It has no state. An endpoint is a model value
  that stands for a method and a path. "First" and "last" in the code refer to
  orders of the SQL queries; ids are numbered in these orders.
* **CollisionResolution** is the loop of `ResolveCollisions` over the Go map, one
  collision per step in any order, with hostname lookups that may fail.
* **UnmanagedStore** has one operator per statement of `store/unmanaged_repo.go`,
  with its WHERE clause: what it makes of the table. A timestamp is kept as the
  outcome of the only comparison made with it (`confirmed` in Pipeline).
* **Pipeline** composes the store with phases 3, 4 and 5 and with the catalog. One
  SQL statement or one HTTP request is one step. `phase` is the place of the engine
  goroutine, `todo` and `cur` are the local variables of phases 4 and 5. Between any
  two steps traffic may stop, phase 2 may leave another view of the managed APIs,
  the operator may dismiss a finding, users of the catalog may delete or create
  entries, and the process may crash. A failed request may have taken effect or not.
  A document is the set of operations it lists and the parent it names.
* **FindingLifecycle** is what Pipeline promises to the operator who reads the table: a
  finding is opened when it is new, closed or has become another one, and dismissed or closed at
  any time; findings of one service and one parent are documented and published together, by the entry that has
  just taken the document of what waited, and the id of that very entry is recorded for all of them. They are given up
  only when an entry recorded for one of them is gone. It has no phases, jobs, queries or failures. Pipeline's mapping
  takes a row to its state (RESOLVED and STALE are both closed), its parent, its document while it waits and
  the entry it refers to; an entry of the catalog to its document; and a successful POST or PUT that has still
  to be recorded to what the catalog has accepted. What has been accepted stands until somebody deletes it.
* **CircuitBreaker** has the methods of a breaker as operators on a record; the time
  of the last failure and the backoff are kept as the backoff that is left.
* **Engine** is the ticker loop and `runCycle`. A phase is started, takes time,
  and returns nil or an error. Timestamps are kept as ages that stop growing when every
  comparison with them is decided, so that the state space is finite without
  bounding the run.
* **ManagedSync** is phase 2 with APIM changing between two requests, and with the
  purge of soft-deleted rows. An operation list is the version of the API it came from.
* **ManagedBaseline** is what phase 2 promises phase 3: an API's operations, as
  `GetAllActive` returns them, come and go as a whole and move forward.
* **Retention** is the daily cleanup against a comparison of two steps, in days.
* **Discovery** is phase 1 in ticks of a fraction of a second; the history variables
  `hits` and `dropped` say what became of each request. A query may fail, or be answered with something
  that cannot be read, which the code takes for an empty window.
* **Enrichment** is what Discovery takes for granted: how `dedup.go`, `enrichment.go`
  and `servicekey.go` make of the requests of a window records of services. A request is a
  model value with the columns that DeepFlow observes (`Flow`); which second it falls in, which
  request `any()` samples, the order of rows and ties, and which queries fail are left open.
  `counted` remembers for which key each request was counted.
* **Reconciliation** has several ADC instances, each with its database, on one catalog.
  A finding stands for a group of Pipeline; its push is the same handlers, request by
  request, with the document left out and the entry's name and `[ADC:hostname]` marker kept. Users
  create, delete and edit entries; an instance may crash. `creator` remembers who created an
  entry that no user has edited since.
* **CatalogCall** says what the callers of `catalogClient` rely on: success means that the server has
  performed a request of this call, a refusal was true when the server gave it. Other users
  may write or delete the entry, but only requests make it ADC's. A request that the
  client stops waiting for may have taken effect, or be served at any later time, during other calls
  included; nothing else of a call remains after its answer. **HttpClient** is the code below: the retry loop, the
  request factory that asks for a token each time, the cached token on both sides of the
  network, the timeouts, cancellation. Instants are kept as the ticks left until
  them, so that nothing is bounded.
* **Startup** is `main.go` up to the engine: the connection loop and the
  migrations, in several processes of different releases on one database that fails and returns.
* **PipelineProofs**, **ManagedSyncProofs**, **DiscoveryProofs**, **EnrichmentProofs**,
  **ReconciliationProofs** and **HttpClientProofs** hold the theorems about the modules they are
  named for. **ProcessProofs** is about a process, from its start (Startup) to its engine (Engine), and
  **FindingProofs** about what makes a finding (CollisionResolution) and what lets it go
  (Retention). Startup and Retention have names of their own for their specifications
  (`StartupSpec`, `RetentionSpec`), so that one module can extend two.

Every module that models code states its type invariant. All but Engine's and CollisionResolution's are
theorems, CollisionResolution's is part of a proved invariant; the runs are spent on what could go
wrong.

Definitions marked "Mutant" in the modules are not used by the specifications. Each is a
plausible bug of the definition below it; replacing that definition by it makes a
property fail, which shows that the property says something.

## 3. The runs

| Run | Question | Bounds, and why they are enough |
|---|---|---|
| MCCollisionResolution | Does the order of the Go map show (`OrderIrrelevant`)? Is an operation credited to two services, does a service lose undeservedly, do DRIFT findings name an API the service still serves (`OneServicePerManagedOperation`, `LosersYieldToWinner`, `DriftHasManagedSibling`)? | All 64 sets of discovered operations and all 64 declarations of two APIs over three endpoints, three services: three-way collisions, ties decided by host and undecided ties all occur. `LosersYieldToWinner` speaks of the winner itself: one service keeps all its operations at the endpoint, the others keep none, and it prevails over each of them by score, on equal scores by hostname. The theorems lift all four to every finite set of operations. |
| MCPipeline | Does a waiting row carry a document that lists it and that its whole group shares (`SpecCoversRow`, `SpecAgreement`)? Is what becomes PUSHED the document that was accepted (`WaitingRowIsPublished`)? Do dismissals stay (`DismissalKept`)? Is a finding closed only for its reason (`ClosedForReason`)? Do the rows live as promised, however the steps interleave (`ImplementsLifecycle`)? | One service, two operations, one API that may declare one of them: groups of size one and two, SHADOW to DRIFT to MANAGED and back. Two failures or crashes and two changes of the environment in any order (829,000 states). The theorems lift all six properties to every instance. |
| MCPipelineLive | Do cycles end although `updateEntry`, `createEntry` and `recoverConflict` call each other (`CyclesComplete`)? Is what becomes managed closed (`ManagedIsResolved`), and what stays unmanaged published (`UnmanagedIsPublished`)? | The service, operations and API of MCPipeline. One failed upsert, other statement or request, or one crash; two changes of any kind: traffic stopping, phase 2, a dismissal, entries that users delete or create (182,000 states). `re_push_deleted` is true, which is not the default. `UnmanagedIsPublished` asks for an entry that lists the operation, with two exceptions: a user of the catalog deleted it, or `MarkPushed` took the row along without its being listed. What else TLC shows of it is told below. |
| MCEngine | Breakers and scheduling: `HalfOpenOnlyWhileRunning`, `StaleOnlyAfterFailure`, `FullCycleMeansAllRan`, `RetriesForEver`, `RecoversWhenHealthy`. | Two ticks per poll interval, backoffs of 1 and 3 ticks: backoffs end before, at and after a tick, and phases last any number of them. The engine theorems hold for every interval, threshold and backoff. |
| MCManagedSync | Whole versions (`BaselineIsOneVersion`, `ImplementsBaseline`), nothing older than the run (`SyncedIsFresh`), removals and updates arrive (`UnpublishedLeaves`, `UpdatesArrive`). | Three APIs, one of an excluded type, on pages of one, so that a removal shifts the next page; four changes in APIM, two failures or crashes. |
| MCRetention | `DismissalSurvivesCleanup`, `ManagedIsForgotten`, `DeletedApiIsPurged`. | Two operations, one API; retentions of 1 and 2 days: equality and excess by one day occur. One comparison, statement or process may fail, which is on fewer days than a finding is kept: the hypothesis under which `DismissalSurvivesCleanup` is a theorem for all retentions. |
| MCDiscovery | `CountedOnce`, `NothingSkipped`. | Half-second ticks, six of them, cycles at any time: window ends inside a second and at its border; three requests, LIMIT 2, two failures, unreadable answers, crashes or clock steps. The model's time ends, so deadlock is not checked. The theorems lift both properties to every resolution, interval, lag, LIMIT and number of failures. |
| MCReconciliation | Does a reconciliation ever mean to delete what an ADC created or a row of its own refers to (`CreatedEntryKept`, `TrackedEntryKept`)? Does an entry without an owner go (`UnownedGoes`), and does the catalog take the entry of a finding that waits (`WaitingIsPushed`), while two instances want one name? | Two instances with a finding each, two names, four ids, pages of one entry, so that every change shifts a page; one failure or crash and one change by users, traffic or retention, in any order (85,000 states). One instance re-pushes deleted entries and the other does not: only the latter may give a finding up, when the entry its row refers to is gone. The theorems lift the two safety properties to any number of instances, entries and changes. |
| MCHttpClient | Is a call what its callers take it for (`ImplementsCall`)? Is a token used only while it lives (`NoStaleToken`), and does the client get rid of one that the server refuses (`DeniedTokenReplaced`)? | All four methods, three attempts, timeouts of 2 ticks each and a buffer of 4, which they just fit; lifetimes as long as the buffer and longer. Time, revocations, failures, calls and requests that are served late are not bounded: all states are visited (202,000). |
| MCEnrichment | Is a request counted for its own service (`CountedForItsService`), and is every row of the table something that was requested (`RowsAreRequested`)? | Five requests of four servers in every assignment to two seconds: signatures that normalise to one resource, two services with one URL, a server without a name behind the port and agent of another, a URL that may not be queried, observed with an address that no key may be made of. Any sample, tie, order of rows and failing query. The theorems lift both properties to every finite set of requests. |
| MCStartup | Does an engine run only on a schema that has at least its release's migrations (`RunsOnItsSchema`)? Does the version table tell the truth (`VersionsTellSchema`)? Does everyone run in the end (`AllRun`)? | A process of a release with two migrations, two of one with three, so that both equal and different migrations race; two attempts to connect; two outages, failed statements, lost answers or crashes. The theorems lift the two safety properties to any number of processes, releases and faults. |

One run shows where the code does not do what its comment says, by a counterexample of a
few steps:

| Run | Statement | What happens |
|---|---|---|
| RetentionBlocked | `engine/cleanup.go:36`, stale discovered APIs without active references are purged | The statement fails on the foreign key of a closed finding, and every comparison keeps that finding young. |

### Seen while modelling

These have no run. Each is what the module named does where a comment or document says
otherwise, or a consequence that a property has to allow for.

* Engine: a signal cancels the context that the running phase uses, so its next call fails
  and the cycle does not complete (README:189 says that it does).
* Pipeline: one failed upsert, which is skipped, and `MarkResolved` closes the row although its
  operation is still unmanaged (`models/constants.go:66`, `comparison/comparison.go:140`);
  `ClosedForReason` excepts it. When phase 4 fails for a group, phase 5 pushes the older
  document and marks rows that are still DETECTED as PUSHED (`models/constants.go:62`,
  `store/unmanaged_repo.go:300`), though the pushed document does not list them; they stay out of the catalog
  until their classification or parent changes. `WaitingRowIsPublished` is about rows that wait, and
  `UnmanagedIsPublished` excepts `TakenAlong`, without which TLC refutes it with a single failure.
* Pipeline, `re_push_deleted = false`, the default (`config.toml:457`): after ADC's own DELETE
  (`catalog/catalog.go:204`) a crash or a failed POST leaves the row with an id that leads nowhere; the next GET
  answers 404, which passes for an operator's deletion, and the row becomes PUSHED without any entry.
  TLC refutes `UnmanagedIsPublished` in that configuration (the mutant `GetServiceOrSkip` makes it of the run's).
* Pipeline, two failures: after a crash in the middle of the upserts, rows of two groups (one SHADOW, one DRIFT) carry
  one catalog id; when the update of one group is rejected for its name, its DELETE removes the entry of
  the other, whose row stays PUSHED. With two failures and one change of the environment
  `UnmanagedIsPublished` holds, with two it does not.
* Pipeline: an entry that a user deletes after its row became PUSHED is never pushed again, even with
  `re_push_deleted = true`, because phase 5 looks only at rows that wait (README:35 and README:179 say that
  deleted entries are re-pushed, and `config.toml:457` names the option for it); `UnmanagedIsPublished` excepts the ids in `removed`.
* ManagedSync: an API that a removal shifts out of the listing is soft-deleted, and as its
  timestamp has not changed it is not revived (`managed/managed.go:77`) although phase 2 is to
  store every published API (README:167).
* Classification: an undecided tie leaves its operations MANAGED, so that the AMBIGUOUS
  confidence of `models/constants.go:49` is never reported (`comparison/classifier.go:39`).
* Pipeline: a row that left its group before `MarkPushed` can keep the id of an entry that ADC
  itself replaced, and `pushGroup` takes it for an operator's deletion (`catalog/catalog.go:146`).
* Reconciliation: conflict recovery adopts an entry by name, whoever created it, and deletes it when
  the update is rejected (`catalog/catalog.go:204`); two instances with a finding of one name
  overwrite each other's entry whenever one of them waits again. An entry that another instance adopts between the
  listing and the deletion is deleted (`catalog/reconcile.go:105`), which is why
  `CreatedEntryKept` speaks of the creator. An instance that does not re-push takes the other one's replacement for
  an operator's deletion (`catalog/catalog.go:146`) and gives its finding up; `WaitingIsPushed` excepts it. Entries with an ADC's own marker are never removed,
  even if no row refers to them; the reconciliation pushes nothing again,
  neither deleted nor modified entries (README:35 and README:179 say that it does).
* HttpClient: a POST is repeated after a transport error, which the comment at
  `httputil/retry.go:63` wants to avoid for a status code; DeepFlow's queries are POSTs and therefore not repeated on a transient
  status (README:186). A 401 does not clear the cached token. With a `request_timeout`
  above 30 s a token may expire under way: nothing checks the assumption `TimeoutsFitBuffer`;
  tokens of 60 s and less keep only a third of their life and may expire in any case.
* Discovery: an answer of DeepFlow that cannot be converted is neither rows nor an error
  (`deepflow/querier.go:108`), so the window passes for empty and the watermark moves past its requests
  (`discovery/discovery.go:66`); `NothingSkipped` lists this among the losses.
* Startup: the connection loop lasts about 12 minutes, not 5 (`store/postgres.go:40`), which is
  longer than the Kubernetes start-up probe allows; the leader election that
  `deploy/kubernetes/adc-deployment.yaml:38` and `config/config.toml:55` speak of does not exist; a
  migration's version is its position in the directory (`store/migrate.go:39`), so that one that is
  inserted renumbers those that follow.
* Enrichment: observations of the same request at another replica or service in the same second go
  to the first record they fit (`discovery/enrichment.go:231`); `CountedForItsService`
  lists this and the other four reasons for which a request is counted elsewhere.

### Fairness

* Pipeline: weak fairness of the engine goroutine, whose ticker never stops, and
  strong fairness of `BeginComparison`: phase 2 is fresh again and again (Engine's
  `StaleOnlyAfterFailure` says why). Failures, crashes and the environment need not happen.
* Engine: weak fairness of time, of taking a tick and of a phase's return (HTTP calls
  have timeouts, the statements are short).
* ManagedSync: weak fairness of the phase, which the engine repeats.
* Retention: strong fairness of the passing of days and of the cleanup, which traffic
  and comparisons interrupt; weak fairness of the comparison.
* Reconciliation: weak fairness of each instance's goroutine, and strong fairness of
  `BeginReconcile`: cycles never stop, and a reconciliation is due once a day.
* HttpClient: weak fairness of time and of the call, which timeouts and backoffs end; the
  authorization server may refuse or forget tokens at any time.
* Startup: weak fairness of each process, which a supervisor restarts, and of PostgreSQL's
  return. There are finitely many faults.
* Discovery and Enrichment are checked for safety only.

## 4. The proofs

The theorems hold for every value of the constants that satisfies the named
assumptions: any finite or infinite set of operations, services, APIs and catalog ids, any number
of failures and edits. Finite are the APIs of ManagedSync, which are listed page by page, and what
queries return to CollisionResolution and Enrichment (`TablesAreFinite`, `EnrichmentAssumption`).
No theorem but `DismissalSurvivesCleanupHolds` has a hypothesis of its own.

**PipelineProofs.** `TypeOK` is not inductive: an upsert writes a verdict computed
earlier, and a group read from the table is used later in a WHERE clause. `TypeInv` adds
that all of them are *consistent* (DRIFT exactly when there is a parent) and that no
verdict is left to upsert outside the loop. The document properties need more:
`DocumentInv` says that the document phase 4 is about to write covers the rows its UPDATE
will select (`WriteCovers`), that a job of phase 5 carries the document of every waiting
row of its group (`JobsAgree`), and that the entry about to be recorded holds
the job's document (`MarkedIsPublished`). `KeepsDocuments` captures what all other
statements have in common: no row starts waiting, and a waiting row keeps its group and
its document. From these follow `SpecCoversRow`, `SpecAgreement`,
`WaitingRowIsPublished` and `DismissalKept`. `ReasonInv` says that the verdicts are about exactly
the operations that have been seen and that, unless an upsert has failed, each unmanaged one is
pending or confirmed; `ClosedForReason` follows.

`LifecycleImplemented` shows step by step that Pipeline implements FindingLifecycle, from `TypeInv`,
`DocumentInv`, the small `ForgoneIfConfigured` (a group is skipped only when deleted entries stay
deleted) and `JobsKnown`: the id that a job of phase 5 brings along is the one of a row of its group, and when
the group is about to be skipped that entry is gone (`SkippedIsGone`). Consistency makes the rows that a WHERE clause selects a group of the life cycle
(`ActiveInGroupIsGroup`) and a change of classification a change of parent. `WriteCovers` is what
`Describe` asks for, `JobsAgree` and `MarkedIsPublished` what `Publish` asks for. No step writes both the table and
the catalog (`TableOrCatalog`). A successful POST or PUT is `Accept` (`AnswerSteps`), a `MarkPushed` that fails or never
runs `Forget`, all other writes of the catalog `ChangeCatalog`. A statement that selects no row is a stutter.

**ProcessProofs**, engine. `EngineInv` relates the ages, the breakers and the place in the cycle:
for instance, when phase 2 was skipped because it ran recently, its data cannot be stale
unless its breaker has counted a failure since. From it follow `HalfOpenOnlyWhileRunning`,
`StaleOnlyAfterFailure` and `FullCycleMeansAllRan` for every interval and threshold.
Engine's `TypeOK` stays with TLC: the value of the backoff involves exponentiation, of
which the prover knows nothing; `Sound` keeps what the proofs need of a breaker.

**ProcessProofs**, start-up. `StartupInv`: schema and version table are equal, a process has passed only
what is applied, and it is in a transaction only of a migration that it has. `VersionsTellSchema`
and `RunsOnItsSchema` follow.

**ManagedSyncProofs.** `BaselineIsOneVersion` needs `MarkedAreDeleted`: when the second
statement of `MarkDeleted` comes to the operations, none of the APIs it means is active.
`VersionsInOrder` orders the version of an API when the run began, in the tables, in the
fetched detail and in APIM; `SyncedIsFresh` follows. With both, `BaselineImplemented` shows
step by step that phase 2 implements ManagedBaseline: the baseline is a function of
`adc_managed_apis` alone, an upsert is `Learn`, the first statement of `MarkDeleted` is
`Forget`, a change in APIM is `Change`, and all other steps, the purge included, are stutters.

**ReconciliationProofs.** `CreatedEntryKept` looks at an old listing, so it needs to know what may
have happened to an entry since. `OwnershipInv` says that whoever has created an entry still has a
marker in it (`MarkerKept`), and that outside of a reconciliation nothing is doomed while inside all
that the rows refer to is tracked (`TrackedIsKnown`). The step that matters is the creation of
an entry: its id is new, so no listing has it (`NewIdIsFree`, from the well-foundedness of the
natural numbers). `PushWrites` and `PushFrame` sum up what the nine actions of a push may do.
A listing ends because the catalog stays finite, which is proved with the types.

**HttpClientProofs.** `TokenInv` follows a token from its issue: while it is on the way it has
lost no more than its request has taken, in the cache it outlives the cache by a request, and under way it
outlives the request. The assumption `TimeoutsFitBuffer` is used once, when the token is
received. `CallImplemented` maps each step to one of CatalogCall: an attempt that is repeated leaves a request
behind that may still be served (`Abandon`, `Repeat`), and what the client says of the last attempt is what the
server said, or an error.

**DiscoveryProofs.** That nothing is skipped is not inductive: it says nothing of a cycle under way.
`DoneIsAccounted` says it of the requests that the running cycle is done with, in its window and no longer
in its batch, so that advancing the watermark changes nothing. The window must not overlook late data:
a request that no query can see was made no longer than the lag ago (`UnrecordedIsRecent`), while windows
end that long ago and start at the watermark (`WindowsFollow`). `CountedOnce` needs the exact account
(`HitsAreDue`): every failure may have cost a request one more hit, and the hit that is its due is
given by the cycle that leaves it behind. Rounding to seconds is monotone, which is all that the
proofs need to know of it.

**EnrichmentProofs.** The invariant of the records is about what dedup and the two queries leave in them.
There is one record for all that dedup takes for the same, and each request of the window is in it
(`Shaped`, `RecordsApart`: an induction-free argument about the order of the signatures, of which
each is taken unless an earlier one is the same). What a record has been given comes from rows that
fit it (`OnlyFitting`), from which `RowsAreRequested` follows: a name in the key is the name of a
request of that record. `CountedForItsService` needs the converse: a query that did not fail has
left nothing out that fits (`FilledIn`). Then a record without exceptions holds its sample's own
observations or those of the same service, and its key is that of each of its members. The proof found an exception that
the run had not shown: a domain or an address that no key may be made of (an IP as domain, a loopback
address) is attached like any other and keeps a usable one out; the instance has it now.

**FindingProofs**, collisions. After any part of the collisions in any order, the map holds the union
of the losers of those that were visited (`LossesSoFar`, if every lookup was answered; otherwise
`VisitedIsSettled`), and a result is what Classify makes of it (`ResultIsFinal`). From the union, which has no order,
follows `OrderIrrelevant`. `OneServicePerManagedOperation` needs that an endpoint of two services is a collision
(cardinalities of finite sets) and that it has been visited; `LosersYieldToWinner` that whatever a map holds
belongs to a collision that was visited (`MapsHoldVisited`) and that the winner prevails over each
other service of it (`WinnerPrevails`), so that "First" must be an element (from the well-foundedness of the
natural numbers); `DriftHasManagedSibling` follows from what Classify says of a service's operations.

**FindingProofs**, retention. A dismissal that was confirmed is not old, but why not? A day passes only
after its comparison, and a comparison upserts what it confirms, unless it fails. So the row of a
confirmed finding is no older than there have been failures, and one day more until the comparison of the day
(`ConfirmedIsYoung`). A comparison with nothing discovered writes nothing and is no failure; then there are no
findings, because none outlives its operation (`RowsAreSeen`, the foreign key). With fewer failures than days of retention,
which is what the property's comment asks for, `DismissalSurvivesCleanup` follows.

Only model-checked: all liveness properties, because fairness and ENABLED are beyond the prover. Every
safety property and all three refinements of the passing runs are theorems.

## 5. What the models leave out

* Strings: path normalisation, service keys, match paths, names and documents are
  values. Consequences: in the runs, two operations of one group have distinct operationIds
  (`generateOperationID` can make them equal, and the group then fails validation for
  ever); the affinity score counts an API's declared endpoints once; what normalisation
  makes of a path is a parameter of Enrichment.
* Enrichment leaves the LIMIT, repeated windows and hit counts to Discovery, and the two
  share no state. The c-p query sets columns that no service key is made of. An s-p or s result that
  cannot be read is one that failed; a first query that cannot be read is in Discovery.
* Reconciliation leaves documents, statuses other than waiting and the rows of a group to
  Pipeline. An id is one of a small set: one that nothing refers to is as good as new. Listing order
  is the order of the ids.
* Pipeline and Reconciliation take a request to be served, if at all, before its call returns. That one which
  its client has given up may be served during a later call or cycle is in HttpClient only.
* HttpClient has one call at a time, as the engine goroutine makes them, and one entry. Backoffs
  take any time. Basic authentication has no state.
* In Startup a migration is one statement: its transaction is open from `Execute` to `Commit`.
* Clocks: Pipeline assumes that the clocks of ADC and PostgreSQL agree
  (`MarkResolved` compares one with the other). Discovery has its own skew.
* DeepFlow is assumed to deliver a request within `safety_lag`; that is what the lag is for.
* In ManagedSync `lastUpdatedTime` is present and can be parsed, and an API that two
  pages list is handled once.
* Retention counts days; the steps inside a comparison are in Pipeline.
* One Pipeline instance has one service. Groups of different services that drift
  from one API share a catalog name; Reconciliation has that at the level of requests.
* Not modelled: configuration (its results are the CONSTANTS), the health server and logging,
  which change nothing, and the conversion of DeepFlow's results, but for its failure.

## 6. Plan

Done, in this order: Classification and CollisionResolution; UnmanagedStore and Pipeline,
the heart of the system; Engine; their theorems; ManagedSync, its refinement and theorems;
Retention, Discovery; Reconciliation; CatalogCall and HttpClient; Enrichment; Startup; the
theorems of Reconciliation, HttpClient, Startup, Discovery, Enrichment, CollisionResolution and
Retention; FindingLifecycle and the proof that Pipeline implements it.

Next, the most important first:

1. Pipeline with two clocks, for the comparison that `MarkResolved` makes.
2. A run of Pipeline with two drifting services that share a catalog name.
