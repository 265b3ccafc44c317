# Verification of the Context Control Engine

TLA+ specifications of the backend under `src/backend/src/cce`: what runs
concurrently in it, what survives crashes, and what its governed packages
promise.  Every module is translated from the code; `PROJECT.json` maps each
definition to the lines it models.  Paths below are relative to
`src/backend/src/cce` unless they start with `docs/` or `backend/`.

## The system

A customer registers *sources* (databases, folders, buckets) in a *Workspace*.
An ingestion *run* inventories a source, extracts candidate facts from what
changed and stages them privately.  When the whole run succeeds its candidates
are *promoted* to a batch of proposals, stewards edit, approve or reject each,
and the last decision builds a new version of the Workspace's *context package*.
Questions are answered twice, with the active package (ON) and without (OFF).

| Component | State it keeps | Operations | Interacts with | Hard because |
|---|---|---|---|---|
| Durable jobs (`persistence/postgres/job_repository.py`, `ingestion/job_runner.py`) | `ingestion_job`: status, lease, claim token | claim, renew, finish; worker loop and heartbeat thread | fences every write of a run | leases lapse, workers stall or die, tokens go stale |
| Runs (`ingestion_repository.py`) | `cce_ingestion_run` | create_or_resume, inventory, finish | jobs, item results | a run spans several attempts of several workers |
| Items (`ingestion/source_graph.py`, `grounding.py`) | `source_item`, `ingestion_item_result`, `candidate_extraction` | discover, diff, ground, extract, save | the outside source, vector index, model | read and write in different transactions, partial success, objects that change, vanish and return |
| Governance (`governance_repository.py`) | `proposal_batch`, `proposal` | promote, edit, approve, reject | builder | batches overlap; decided in any order |
| Package builder (`context_packages/`) | `context_asset`, revisions, `package_version`, manifest | build, validate_effective | active package, source schemas | merges decisions into a manifest that others have changed meanwhile |
| Query runtime (`runtime/orchestrator.py`, `compound.py`) | `query_trace`, node traces | atomize, ON and OFF branch, proof, synthesis | package, index, SQL pipeline | fan-out, partial failure |
| SQL pipeline (`runtime/sql_pipeline.py`, `sql_guard.py`) | `sql_attempt` | generate, parse, validate, guard, execute, repair | model, customer database | one retry budget over five failing stages |
| Feedback (`runtime/feedback.py`) | `query_feedback`, lessons in the index | submit, retrieve | index, query traces | two stores without a common transaction |
| Context expansion (`context_repository.py`) | none of its own | linked_assets, expand | package, graph rows | a closure computed in rounds |
| Workspaces and sources (`workspaces/`, `sources/`) | `workspace`, `cce_source` | register, enable, disable, archive, test | SQL pipeline, ingestion | archived under running requests and connections |
| Vector index (`integrations/agentic_plane/`) | hosted memories and their bridge rows, or `cce_local_index_chunk` | index, delete, search | items, feedback, queries | two systems without a common transaction; a retried claim indexes its file again |
| Connector agent (`connectors/agent.py`, `orchestrator.py`, `ingestion/change_detection/`) | cursors, handled keys, schema cards, all in memory | handle: refuse, connect, observe | listers of the sources, ingestion | cursor and deduplication must agree on what was handed off |
| Document ingestion (`ingestion/service.py`, `orchestrator.py`, `checkpoint.py`) | outcome files, metadata snapshots | run_pipeline, the ingestion graph | agent, sources, SDK | every node goes on after a failure; the source changes meanwhile |
| Migrations (`persistence/postgres/migrations.py`) | applied migrations | migrate | every process at start | several processes at once |

Conversions (parsers, normalizers), configuration, generated RPC code and scripts are
listed in `PROJECT.json` and not modelled.  Connectors and the language model are
modelled where their control matters (sessions, retries of malformed replies);
elsewhere a call succeeds or raises, as the environment chooses.

## Modules

| Module | What it specifies | Uses | Theorems in |
|---|---|---|---|
| `RunLifecycle` | abstract: what ingestion promises about source runs | | |
| `JobLease` | jobs, leases, claim tokens, worker threads | implements `RunLifecycle` | `JobLeaseProofs` |
| `SourceItems` | one source's items, results, staged candidates, one asset | relies on `JobLease` for there being one attempt that can write | `SourceItemsProofs` |
| `PackageHistory` | abstract: what governance promises to readers of the package | | |
| `Governance` | batches, proposals, reviews, the package builder | implements `PackageHistory` | `GovernanceProofs` |
| `ContextGraph` | the graph each version projects, and its expansion by a query | any manifests that validation admits, so those of `Governance` | `ContextGraphProofs` |
| `SourceAccess` | the administration of sources and the sessions opened to them | | lemmas in `SqlPipelineProofs` |
| `SqlPipeline` | generate, guard, execute and repair SQL on one budget | extends `SourceAccess`, whose caller `Executor` it is | `SqlPipelineProofs` |
| `QueryRuntime` | a query, its atomic questions in parallel, their traces | a branch is one step here; `SqlPipeline` is a stage of it | `QueryRuntimeProofs` |
| `EvidenceIndex` | the index behind its hosted and its local client | | lemmas in `FeedbackProofs` |
| `Feedback` | ratings of answered queries and the lessons learnt from them | extends `EvidenceIndex`, which claims of source items fill as well | `FeedbackProofs` |
| `ChangePipeline` | the connector agent and the synchronous ingestion graph behind it | the other path into the system, which `docs/architecture/ingestion-flow.md` calls legacy | `ChangePipelineProofs` |

The refinements are `INSTANCE` with an explicit mapping.  `JobLease` maps the rows of
runs to `source` and `status` of `RunLifecycle` and its `exposed` to the one there.
`Governance` maps the versions that are not ABSENT to `published`, those that are ACTIVE
to `active` and their manifests to `contents` of `PackageHistory`.

Each `MC<Module>` gives the small instance; its `.cfg` files are the runs.  In
every module the parts named "a faulty variant" are plausible mistakes in the code:
put in the place of the definition that follows them, they break the property that
`PROJECT.json` pairs them with.

### RunLifecycle and JobLease

`runSource` and `runStatus` are rows of `cce_ingestion_run`; `jobStatus`, `jobToken`
and `lease` the rows of `cce_job` (`lease` counts the clock ticks until
`lease_until`, 0 once it has lapsed); `exposed` says that a run has its proposal batch.
A worker has a position `pc` in `JobRunner.run_once` and the workflow it calls, the
`wrun` and `wtoken` of its claim, and the items in flight.  Every transaction is one
action, because each locks the row it reads before it writes; everything between two
transactions of a worker can be interrupted.

| Action | Code |
|---|---|
| `CreateRun`, `ResumeRun` | `IngestionRepository.create_or_resume`, with a refusal where neither is enabled |
| `Claim` | `JobRepository.claim`: the oldest job QUEUED or RUNNING with a lapsed lease |
| `Renew` | the heartbeat thread of `run_once` |
| `LoadRun`, `Inventory`, `SaveResult`, `FinishRun`, `Promote` | the nodes of `SourceGraph`, with their `assert_lease` |
| `Raise` | any exception out of the workflow |
| `FinishJob` | `JobRepository.finish`: job and run in one transaction |
| `Crash` | the process dies, or `finish` itself raises |
| `Tick`, `Stall` | time passes in step with heartbeats, or while a worker is held up |

Promotion alone is not fenced by the lease: `PromotionSeesSuccess` is why that is safe.

### SourceItems

The attempt that holds the lease is `cur`; its items run in parallel, each reading the
object (`Extract`, `FailItem`, `ReadMissing`) and saving (`SaveResult`) in different
transactions, while the source changes (`EditSource`).  `known`, `hash` and `avail`
are `source_item`; `result` is `ingestion_item_result` and `staged`
`candidate_extraction`, both by run.  A content states one fact and hashes to itself,
and all items speak of one asset identity; `fact` and `support` are its active revision
and the evidence cited for it.  `Decide` is what a build does to this one asset.

### PackageHistory and Governance

`Promote` is `GovernanceRepository.promote` (grouping of candidates, resolution of the
operation, AMBIGUITY proposals), `Edit` and `Decide` are `review`, and `Build` inside
`Decide` is `ContextPackageBuilder.build` with its outcomes: wait, NO_CHANGE,
BUILD_BLOCKED, PACKAGED.  All of them lock the Workspace row first, so each is a step.
An asset that is disputed has an AMBIGUITY asset with an identity of its own
(`DisputeOf`).  `InsertsFit` stands for the UNIQUE constraints that a build must not run
into; when it does, the review is rolled back and no step is taken.

### ContextGraph

`Build` adds a version with the rows the builder projects: an entity per
revision, an edge per relationship and revision of its ends.  A query takes the active
version (`StartQuery`), and expands its seeds in that version later (`Expand`).  The
expansion is the code's two loops: `Walk` is `Hop` after `Hop` from `Start`, with the sets
of visited entities, of the frontier and of selected assets, and `WithDependencies` is
`Round` after `Round` until nothing is new.  `ExpansionIsOfItsVersion` compares it with a
definition by paths and closure.

### SourceAccess

`active` and `row` are the Workspace's status and the rows of `cce_source`.  A request
of an administrator checks (`Ask`, `Operations.execute`), takes the Workspace's row
FOR SHARE (`RequireWorkspace`) and changes the source (`Change`), each a step of its
own, while `ArchiveWorkspace` waits for holders of the row only (`Unshared`).  A call
reads the source (`RequireSource`), connects (`Connect`, with the read-only session or
write probe that all connectors but Snowflake's make) and closes (`Close`); `live`
are the sessions at the customer's server.

### SqlPipeline

One action per node, three for `execute_sql` (`OpenSource`, `ConnectSource`,
`RunQuery` and then `ExecuteSql`, or `RefuseSql`); the edges are in `node'`.  A query
text is one of the kinds that the parser, the scope check and the guard tell apart.
`Raised` outcomes include an exception without a text, which the stages that test
`w.error` for truth take for success.  `tries` counts the malformed replies that
`StructuredLLM.invoke` asks the model to repeat; `log` are the rows of `sql_attempt`.
`TraceFails` is a node trace or an attempt row that cannot be written.  `granted` and
`executed` remember which attempts were admitted and what they sent.

### QueryRuntime

`at` is the node of the compound graph, `atomic[q].at` that of the graph of each atomic
question; a branch is one step that ends in any of its four statuses, with or without
an answer.  `trace` and `atomicTrace` are `query_trace` rows.  At most
`MaxConcurrency` questions run; when one raises, the others are cancelled if they have
not started and waited for if they have.  `Archive` and `Crash` happen at any time.

### Feedback

A submission takes four steps: `ReadTrace`, `Analyse` (a model call, for a downvote with
no comment), `Write` (the upsert) and `Index`, which begins a call of the index.  Clients
interleave them and may `Abandon` at any point.

### EvidenceIndex

`entries` are the chunks in the index, each with an id and the document its metadata
names; `refs` the rows of `cce_agentic_plane_memory`.  `call[d]` is how far `index()` of
a document is.  The hosted client clears what it had stored (`Clear`), sends the chunks
(`StoreBatch`; or `StoreBatchLost`, when the server keeps some and does not say, or
`StoreBatchMiscounts`) and saves the bridge rows (`SaveDocument`, `SaveFails`, or
`SaveUnconfirmed`, when the commit took effect although it raised);
`Undo` is its clean-up, whose deletes may fail one by one.  The local client has one
step, `Upsert`.  `ChunkKey` is what `payload_chunks` computes ids from: the native id of
a parsed file, and so the same for two claims of it.  `Search` is a claim of a source
item looking up the evidence it has just indexed.

### ChangePipeline

`past[s]` are the contents a source has had; a lister's cursor is a position in it, and
0 is None.  A request is `Refuse`, `Connect`, `ObservationFails` or `Observe`; the latter
lists (`Observed`), drops what was handled (`HandedOff`, by `Key`), marks the rest and
sets the cursor.
The three modes differ in the cursor they start from (`CheckpointIn`).  `run_pipeline`
then takes the events one by one (`RouteBySource`) through the nodes, `Fetch` to
`Checkpoint`, each an action with its ways to fail; `run` is the `IngestionState`.
An object is a document, or a table or column of a schema card; it is fetched as it
is by then.  The listers report a change since their cursor, as the providers do; text
blocks of one document have distinct ids, as the parsers make them.  Without an
`endpoint`, every emit is a dry run that counts as ready.  `handed`, `offered` and
`delivered` are histories: no action reads them.

## Runs and bounds

| Run | Shows |
|---|---|
| `job_lease` | two workers, one source with one item, two runs, two requests, two faults, leases of two ticks |
| `source_items` | two items, two contents, three runs, two changes of the source, one fault |
| `governance` | two identities and the disputes about them, a payload that needs the other identity, six sets of candidates, three batches |
| `sql_pipeline` | five kinds of query, a source whose connector enforces read-only sessions and one whose does not, one retry, exceptions with and without a text, one administrator with two requests, a test of the connection beside the execution |
| `context_graph` | a chain of three entities, a metric that depends on a relationship and has the key of an entity, a policy about an entity; three versions, two seeds, up to two hops |
| `query_runtime` | two questions, both at once |
| `feedback` | one query, two actors, two requests at once, two submissions; two claims of one file with two chunks; two documents indexed, in either backend |
| `change_pipeline` | two document stores that share an adapter and a database, with two objects each of the same names, two revisions (one without content, one sensitive), two changes, three requests, two faults |

Why these are enough:

* `job_lease`: superseding needs two workers and a lease that can lapse; two ticks
  leave room for a heartbeat between claim and lapse.  Two runs are needed for one to be
  opened while another is (or should be) closed.  Two requests give both histories of a
  second request, a resume and a new run.  With two faults the attempt that takes
  over can itself be lost.  Sources do not interact except through the order of claims; what the runs
  check of safety is proved for any number of everything.
* `source_items`: evidence of a fact is shared by two items, one of which may vanish,
  return or contradict the other; three runs let a failed one lie between two others.
* `governance`: three batches let two that are open together both follow a version;
  create, remove and create again takes three as well.
* `sql_pipeline`: two attempts are a first and a last one, and a change can fall
  between them; what holds on any larger budget is proved.  Two requests of an
  administrator suffice to archive the Workspace under a request that had found it
  active.  Each kind of query fails another of the stages.
* `context_graph`: a relationship between changed and unchanged ends needs a chain of
  two; two hops cross it and a bound of one or none cuts it off.
* `query_runtime`: the interaction of questions is pairwise (cancelled, waited for,
  answered out of order).
* `feedback`: the same actor twice at once, or another beside them.  Two chunks let a
  call fail with some stored; two documents are an expired claim and its successor, a
  claim and a lesson, or two lessons.
* `change_pipeline`: an object is created and changed between the first request and the
  second, or changed between its listing and its fetch; the third request starts over
  from an older checkpoint.  Two faults let a node fail after an earlier one did, or
  a crash follow a failure.  The objects of a source share a file, which is the worst
  case of its sanitized name.  The two document stores share all idempotency keys, the
  worst case for the deduplication, and are interchangeable (`Symmetric`; the run has no
  liveness property); that schema cards share one as well is left to the proof.

**Type invariants.** Every pass run checks `TypeOK`.

**Safety.**  `JobLease`: `OneOpenRunPerSource`, `NoOrphanedRun`,
`PromotionSeesSuccess`, `NoSupersededWrite`, and that it implements `RunLifecycle`.
`SourceItems`: `EvidenceMatchesContent` (what is staged in a run is what the content
of its result says), `SkippedWasExtracted`, `SupportStatesFact`.  `Governance`:
`BatchesEndOnce`, `ManifestMirrorsAssets`, `ReviewNeverAborts`,
`VersionsAreAsApproved`, `VersionsAreClosed`, and that it implements `PackageHistory`.
`SqlPipeline`: `OnlyGuardedRuns`, `SessionsAreAuthorised` (each attempt finds the source
usable for itself and no session outlives its call), `AttemptsAreLogged` (one budget,
one log), `ArchivedIsFinal`.  `ContextGraph`: `ProjectionIsExact`,
`ExpansionIsOfItsVersion`.  `QueryRuntime`: `ResponseMatchesStore`, `TracesAreHonest`.
`Feedback`: `LessonsAreSound`, and of its index `CallsAreHonest` (what `index()`
returned or raised is what is stored, but for failures of the hosted store or the
database that the client cannot know of) and `EvidenceIsOwn` (a claim goes on with evidence it indexed).
`ChangePipeline`: `CursorFollowsHandoffs` (no cursor passes a version that was not handed
off for its adapter), `OutcomesAreHonest`, `NeverHandedTwice`.

**Liveness** and the fairness it assumes:

* `EveryRunSettles`, `SuccessIsPromoted` (`job_lease`): weak fairness of `Claim`,
  `Renew` and `Step` of each worker and of `Tick`.  A runner's thread polls in a loop
  and the heartbeat is a thread with a timer, so the operating system schedules both;
  time goes on.  Nothing is assumed of requests and faults, which are bounded, and a
  crash restarts the runner.  The lease lapses because `Tick` does not wait for a worker
  that crashed.
* `Terminates` (`sql_pipeline`): weak fairness of `GraphNext`.  The nodes run one after
  the other in one thread, and calls to the model or the database answer or time out.
  Administrators and other calls need never move.
* `Terminates` (`query_runtime`): weak fairness of `Progress`, the same threads and
  calls; none of `Archive` and `Crash`.

Deadlock is not reported in any run: each of these systems may come to rest, with no
request left within the bounds, or at the end of its graph.

## Disagreements between code and documentation

Each of these is a run of its own that TLC must find violated:

| Run | What the code does |
|---|---|
| `swallowed_resume` | a request to resume a PARTIAL run is accepted while the attempt that made it PARTIAL is about to finish its job; the job ends COMPLETE and nothing executes the request |
| `lost_outcome` | an item saved in a run that fails later is skipped as UNCHANGED by the next run: its candidates are never promoted |
| `stale_removal` | a REMOVE candidate staged while an item was missing survives a later attempt of the run, to which the item has returned |
| `downvoted_stays_positive` | a downvote after an upvote leaves the upvote's lesson in the index as a positive example |

Others were met in modelling and are described here only:

* An exception without a text (`TimeoutError()`) closes the job COMPLETE and leaves the run
  RUNNING, which then refuses its source for good (`Raise` with `SilentErrors`: TLC finds
  `NoOrphanedRun` violated); `docs/architecture/ingestion-flow.md:23` has inventory failures
  fail the run.
* The idempotency key of the connector agent names neither a source nor an occurrence.
  With two sources of one adapter whose objects share names and versions, as two databases
  with a table of the same name at their first cards do, the events of one are dropped as
  handled and its cursor advances past them; a document that returns to an earlier
  revision, or is removed and put back in the same one, is not handed off again before a
  restart.  `agent.py:184-187` calls deduplicate, hand off, advance the guarantee, and
  `checkpoint.py:41-43` has events with one key as duplicates, so this is what is
  documented, with that consequence.  `CursorFollowsHandoffs` is the guarantee as it is:
  per adapter and version.  Stated per source (`t = s` in `HandedFor`), TLC finds it
  violated on the run's instance: both stores gain an object of the same name and
  revision, each is observed, and nothing of the second is handed off.
* Events are marked handled and the cursor is set before the first is ingested, and no
  outcome file is ever read: what failed is not tried again until it changes.
  `checkpoint.py:4-5` has outcomes kept so that it can be resumed.
* A document is labelled with the revision that was listed and holds the content that was
  fetched (`Fetched` reads the source as it is by then); nothing compares the two.
* An object deleted while the process is down is absent from the first listing after the
  restart, so the SDK keeps its document (`Crash`, then `Observed` from 0).  A table pushed
  out of the first 500 of a schema card is reported as deleted (not modelled).
* An inventory that raises while a PARTIAL run is resumed leaves that run PARTIAL with a
  FAILED job (`FailRun` acts on RUNNING runs), against the same line.
* An UPDATE edited back to the active payload, or proposed by two batches open at once,
  makes a new version without a semantic change (`Build` compares no payloads);
  `docs/architecture/governance-flow.md:13` has NO_CHANGE for that.
* A database error without a text skips `describe_sql_error`: the attempt is FAILED, no
  stage is named, and the next request repeats the last one (`ExecuteSql` with
  `SilentErrors`).
* `feedback.retrieve` is called outside the `try` of an atomic question, so a failing
  search for lessons fails the whole query (`RetrieveLessons`), although
  `docs/architecture/runtime-flow.md:13` has failed questions reported one by one.
* An UPDATE has no base revision: one proposed long ago and approved late replaces a
  newer approved payload without a conflict.
* Traces of a query whose process died stay RUNNING; nothing cleans them up.
* A claim of a file is not isolated in the local index.  `source_graph.py:101` and
  `docs/IMPLEMENTATION_REPORT.md:24` have an expired worker unable to replace the evidence
  of the current claim, but chunk ids come from the file's native id and the upsert
  overwrites `job_claim_token`: the other claim then finds nothing and fails its item
  (`Upsert`, `Search` with no hits).  The text itself stays, which `EvidenceIsOwn` says.
* An eligible row of `query_feedback` whose submission ends before or in `Index` never gets
  its lesson, and of two submissions by one actor that overlap, the row keeps the rating
  of the one that writes last, not of the one that came last (`Write` after `Analyse`).
* Chunks that the hosted store kept without saying so are never deleted
  (`StoreBatchLost`); `docs/IMPLEMENTATION_STATUS.md:70-71` leaves its idempotency open.  The
  SDK's own retries of `store_batch` may store chunks twice (not modelled).
* The statements of migrations 008 and 009 are commented out, so nothing creates
  `cce_local_index_chunk`.
* Snowflake's write probe takes any database error, so also a timeout or a DROP that
  fails, for a proof that the session is read-only (`connector.py:165`).
* `WorkspaceRepository.update` reads without a lock what it writes back: of two updates
  at once one may be lost, and a Workspace archived in between is still renamed.
  `create_or_resume` does not look again whether the source is enabled.  A mutator reads
  its row back in a second transaction and can report a missing source although it
  applied the change.
* `docs/architecture/runtime-flow.md` says in one place that no active package is
  required, in another that a query without one is refused with NO_ACTIVE_PACKAGE.

## What is proved

Every theorem is for all values of the constants that satisfy the module's named
assumptions, which TLC evaluates on each instance.  They only say that sets are of the
right kind, bounds are naturals and `None` is nothing else; three say more:
`EvidenceIndexAssumption` and `ContextGraphAssumption`, as explained below, and
`GovernanceAssumption`, by which the AMBIGUITY assets of two assets differ (`DisputeOf`).  Each proof module has one inductive invariant, as a rule `IInv`, one lemma
per action or group of actions that it survives, and theorems that follow from it.
TLC checks those that are properties of a run, on its instance; the rest only strengthen them.

| Module | Theorems, beside the inductive invariant |
|---|---|
| `JobLeaseProofs` | `TypeCorrect`, `OneOpenRun`, `NoOrphan` (unless exceptions may have no text), `PromotionSafe`, `NoStaleWrites`, `ClosedForGood`, `LeaseLostForGood`, `NothingIsLost` (unless exceptions may have no text), `Implementation` (of `RunLifecycle`) |
| `SourceItemsProofs` | `TypeCorrect`, `EvidenceMatches`, `SkippedExtracted`, `SupportStates` |
| `GovernanceProofs` | `TypeCorrect`, `BatchesEnd`, `Mirrored`, `NeverAborts`, `AsApproved`, `Closed`, `Implementation` (of `PackageHistory`) |
| `SqlPipelineProofs` | `TypeCorrect`, `GuardedRuns`, `SessionsAuthorised`, `AttemptsLogged`, `GraphIsBounded`, `ArchivedFinal` |
| `QueryRuntimeProofs` | `TypeCorrect`, `ResponseMatches`, `HonestTraces`, `QueryIsBounded`, `FanOutGoesOn` |
| `ContextGraphProofs` | `TypeCorrect`, `ExactProjection`, `ExpandedOwnVersion`; on a walk and a closure of any length `WalkReaches`, `RoundsComplete` |
| `FeedbackProofs` | `TypeCorrect`, `LessonsSound`, `CallsHonest`, `EvidenceOwn` |
| `ChangePipelineProofs` | `TypeCorrect`, `HonestOutcomes`, `HandedOnce`, `CursorFollows` |

**`JobLease`.**  None of the properties is inductive alone: whether a late write is
harmful depends on who else may believe to own the run.

1. `TokenInv`: tokens are handed out from a counter, so no two workers have the same one
   and at most one of them *holds* a job (`OneHolder`).
2. `PositionInv`: what a worker concluded about its run when it read it is still true
   while it holds the job, since every other action that changes the run's status is
   fenced or needs the run to be in another status.  A worker in `items` is looking at
   a RUNNING run, so its `FinishRun` cannot reopen a closed one.
3. `JobInv`: a job that can still be claimed belongs to a run that can still be worked
   on.  That makes `Claim` establish `PositionInv`, and, without silent errors, gives
   `NoOrphanedRun`.
4. `PromotionSeesSuccess`, for all workers at that position, holding or not: SUCCESS is
   final, because reopening it takes a holder in `discover`, which contradicts
   `PositionInv`.
5. `OneOpenRunPerSource` then follows, as only a request makes a run open and it looks
   at all of them under the source's lock; `WriterInv` bounds the tokens that have
   written by those handed out.
6. `PromotedInv`: a holder that ends its job without an error on a SUCCESS run has
   promoted it.  So the job of a run with work left is never COMPLETE: it can be claimed,
   is under a live lease, or a request resumes it (`NothingIsLost`).  That is the safety core of
   `EveryRunSettles` and `SuccessIsPromoted`: what is left to fairness is that someone
   takes the work up.

**`SourceItems`.**  A success, wherever it is recorded, stands for an extraction: as the
hash of the registry, as a result that later attempts of the run inherit (`HistoryInv`), or
in the hands of the attempt at work (`WorkInv`, by phase of the item).  So what is skipped
was extracted, and a proposal that puts a fact in force cites items that stated it
(`ProposalInv`), in whatever order runs are promoted and decided.

**`Governance`.**  Why does no build run into a UNIQUE constraint?  The versions
correspond one to one to the PACKAGED batches (`BatchInv`), so while a batch is open there
is, by the pigeonhole principle, a number left for its version.  An asset has no more
revisions than there are versions, numbered without gaps (`RevisionInv`), so there is one
left for its revision.  With the manifest as the mirror of the assets (`ManifestMirrorsAssets`) and
versions that form a prefix of the numbers (`HistoryInv`) a build preserves all of it,
and its steps map to those of `PackageHistory`.

**`SqlPipeline`.**  The graph stays at `execute_sql` as long as its connector is there, and
what was found out when it was built (the query is bounded, the attempt authorised) is
about the attempt under way (`ConnInv`).  That no error text is left in the nodes before it
is what makes an earlier failure visible at `execute_sql` (`NodeInv`).  A request that holds
the Workspace's row keeps it active (`AccessInv`): `ArchivedFinal`.  `StepsLeft` counts the
nodes left in this attempt, with its repetitions of malformed replies, and 15 for each
attempt left on the budget; that every step of the graph decreases it, and nobody else
changes it, is `Terminates` but for the fairness (`GraphIsBounded`).

**`QueryRuntime`.**  An atomic question touches only its own node and trace, and the
results once, when it is done; so one lemma (`OneQuestion`) serves all its steps.  That the
join waits for all is the pigeonhole principle again (`FullRange`), and that sorting gives
the order asked is counting (`IncreasingCounts`): below and above each position of an
increasing enumeration there are as many numbers as places.  The steps left to all
questions are counted as the members of a finite set, so that no sum over the questions is
needed (`QueryIsBounded`), and until all results or an exception are there one of the
questions can move, below the limit on how many run at once (`FanOutGoesOn`): together
they are `Terminates` but for the fairness.

**`ContextGraph`.**  Revision numbers of an asset have no gaps and no asset has more of them than
there are versions (`RevisionsInv`), a manifest has one revision of an asset (`ManifestsInv`),
and an edge has the ends that its relationship names (`GraphInv`).  Hence a manifest finds
exactly its own rows among those of all versions, however many were built after it.  It
takes that a relationship names both ends, which `context_packages/models/assets.py`
requires of its payload, and that entities, and relationships, have keys of their own, as
`UNIQUE(domain_id,asset_type,canonical_key)` of migration 012 has it
(`ContextGraphAssumption`).  The two loops of the expansion are recursive functions on
numbers.  What they compute is found by induction, which is stated for sets (`Induction`)
and rests on the pigeonhole principle: after n hops the visited entities are those that a
chain of at most n relationships connects (`WalkReaches`), and as each round but the last
adds an asset, as many rounds as there are assets reach the least set closed under
dependencies (`RoundsComplete`).

**`EvidenceIndex` and `Feedback`.**  In the hosted store ids of two documents never meet
and what is stored of a document is known in each phase of its call (`PhaseInv`), so a
clean-up takes exactly its own.  In the local index ids meet only between claims of one
file, and then all of them do: it is assumed (`EvidenceIndexAssumption`) that documents
with the same chunk key have equally many chunks, which they have as claims of the same bytes.
In `Feedback`, what a request has found out stays true while others go on (`RequestInv`), so an
indexed lesson has a row behind it (`CallInv`).

**`ChangePipeline`.**  Three arguments that share only the types.  `RunInv` says what each
node of the graph leaves behind as long as none before it failed, hence that an outcome
without errors is of a whole document.  Whatever was offered is marked (`HandedOnce`).
For the cursor, `SeenInv` says that a marked key is of a version handed off for its
adapter, and `HandedInv` that the same is true of every revision in a content that the
agent's or a caller's checkpoint names, and of every version that a schema card brought
(`Recorded`).  An observation then extends both: what differs from its baseline is either
handed off by it, or dropped because its key was marked.

Model-checked only: the liveness properties, since fairness and ENABLED are beyond the
prover; what can be said of them without fairness is proved, as described above.  The runs
that expect a violation have a counterexample and nothing to prove.

## Plan

Done, in this order: the job queue and its proofs, items, governance, SQL, feedback,
graph, query, change pipeline; then the index, the administration of sources and
their connections, and the proofs of all of them.  What could follow:

1. `QueryBranch`: retrieval scoped to sources, admission of graph context, citations;
   it would detail the step `QueryRuntime` has for a branch.
2. `SourceCatalog`: lineage and the comparison of schema snapshots, which both ingestion
   paths write.
3. Updates of Workspaces and of settings, with their lost updates.
4. `Migrations`: a script that fails half-way.

## Not modelled

Language model, AgenticPlane's server and customer systems are outside the repository: a
call returns one of the answers the code distinguishes, or raises.  Parsers, normalizers
and credentials are conversions without state.  Validation of source settings
(`sources/catalog.py`) is too.  Migrations run once, before the services start, under one
advisory lock.  Settings and bootstrap run once, before anything concurrent.  The RPC
surface translates messages to calls that are modelled; `gen/` is generated.  Scripts,
skills (prompt texts) and observability hold no state of the program.  Ranking and scoring
of retrieval are left out: which evidence is found is a free choice in `ContextGraph`,
`EvidenceIndex` and `QueryRuntime`.  `delete()` of the index and the change type `deleted` of a
source item have no caller.
