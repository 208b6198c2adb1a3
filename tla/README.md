# A TLA+ model of the persistent memory stack

This directory holds the specifications of the persistent memory stack, their
model-checking instances and machine-checked proofs. Paths are relative to the
root of the repository (`src/` here). `PROJECT.json` maps every definition to
the lines it models and lists the runs, the hazards they are aimed at, the
theorems and what disagreed with the documentation.

## 1. The system

The stack keeps the memories and documents of a person or a team. Postgres holds
the authoritative rows; everything else is derived from them or feeds them:
Qdrant (vectors), Graphiti over FalkorDB (episodes of a knowledge graph), MinIO
(uploaded files), Redis with BullMQ (jobs). Writers are the API (Fastify), the
worker (BullMQ jobs, some of them scheduled) and, on the host, the update
coordinator. Almost every hard question is the same one: a row and something
derived from it are written by different processes, without a transaction that
spans both.

| Component | State | Operations | Interacts with | Hard behaviour | Correct when |
|---|---|---|---|---|---|
| Knowledge write path: `apps/api/src/services/knowledge.ts`, `routes/knowledge*.ts`, `services/knowledge-relations.ts` | `memory`, `memory_revision`, `memory_write_receipt`, `relationship`, `knowledge_term` | create, update (correction, evidence, reclassification), replay of a key, delete, two import formats | the model that validates (seconds), clients that retry, the graph and vector projections | row read outside the lock, validated for seconds, read again; retries and crashes; deletion and restoration of the same identifier | a key takes effect once and is answered alike; no accepted edit is lost; a revision number stands for one text for ever; a relationship shows what its target said when it was committed |
| Graph projection: `apps/worker/src/steps/memory-graph-*.ts`, `graph-lifecycle.ts`, `apps/api/src/services/graph-lifecycle.ts` | `graphStatus`, `graphVersion`, `graphEpisodeUuid` of a row; `graph_episode_provenance`; `graph_lifecycle_operation`; Graphiti's episodes | backfill, rebuild, single and bulk deletion, removal runs | API writes, Graphiti (slow, answers get lost), the scheduler | stale runs, overlapping runs, lost answers with late effects, crashes | a row called ok stands for an episode of its own revision; every episode is removed after its row |
| Upgrade planner: `layers/update-ops/release-versioning/upgrade-contract.ts` | none; contracts are input | `planUpgradePath` | the coordinator | required stops whose conditions depend on where the path has arrived; major versions | the path takes the declared stops in order; replanning on the way changes nothing |
| Update coordinator: `apps/update-coordinator/src/index.ts`, `deploy/scripts/update.sh` | `hop-progress.json`, `last-successful-update.json`, `update.lock`, the process | plan, snapshot, one lifecycle child per hop, checkpoint, resume, retry | the operator, the lifecycle child | crash between any two writes, failed hops, retries with another commit | the snapshot stays the point of return; checkpoints are valid and never lost; no required stop is skipped |
| Document ingest: `apps/worker/src/pipeline.ts` and its steps | document, ingest job, chunks, points, episode, the Bull job | upload, process with retries, reconcile, delete | MinIO, DLP service, Qdrant, Graphiti | concurrent jobs of one document, deletion meanwhile, stale uploads | chunks, points and version stamp of one upload; nothing left after deletion |
| Memory vectors: `embed-backfill.ts`, `packages/shared/src/qdrant/upsert.ts`, `routes/embedding-projections.ts` | `embedStatus`, points, the pin in each process | embed, edit, delete, backfill, vectors posted by clients | Qdrant, the pin | points written outside the row's transaction; a pin that changes between an embedding and its upsert | a search finds current rows only, under the model it asks for, and every row in the end |
| Model switch: `packages/shared/src/switch/`, `apps/api/src/services/model-switch.ts`, `routes/dashboard/settings.ts` | switch status, pin, vector names | save the settings: begin, resume, refuse, store; prepare, first pass, flip, second pass, drop | every embedding writer | writers with a lagging pin, failures and restarts between any two steps | an embedded row has a vector under the stored pin |
| Scheduled jobs: `packages/shared/src/queue/scheduled.ts`, `apps/worker/src/scheduled/`, `apps/api/src/services/scheduled.ts` | `scheduled_job` rows, Bull schedulers, queued runs | pause, resume, edit, run now, reconcile at boot, process | the worker's steps | row and scheduler written one after the other by two processes | schedulers follow the rows; a paused job is quiet, an enabled one runs |
| PII rescan: `steps/pii-scan.ts`, `steps/security.ts` | scan stamp, alerts | scan a batch, alert, stamp | DLP service, edits | text read before a slow call, stamped after; a scanner that fails in a batch | a row that is not due was scanned, and alerted if flagged |
| Deletion preview: `routes/memories.ts`, `routes/dashboard/memories.ts` | preview records with a token | preview, confirm, expire | everything that updates a row | a token sent twice; rows that change between preview and confirmation | exactly what was shown is deleted, once |
| Graph V2 migration: `steps/graph-v2-migration.ts` | run record, groups | retired: the command line runs only the inspection | | | |
| Dashboard gateway: `apps/dashboard-gateway/src/server.ts` | none of its own | which page to serve, from two files of other programs | coordinator | file read while it is written | the update shell is shown during an update |
| MCP runtime and sessions: `layers/mcp-runtime`, `apps/api/src/services/mcp-sessions.ts` | a map in the memory of one process | register, heartbeat, prune | clients | | a live client is registered |
| Embedding health: `apps/worker/src/embedding-health.ts` | one record per scope | observe, read | two observers | clocks | the later observation wins |
| Tenancy: `packages/db`, `layers/core/schema/rls.sql` | session settings, policies | `runInTenant` | every query | | a row is seen by its readers only |
| Graphiti service: `apps/graphiti-service` | episodes | add (idempotency key), remove | worker | lost answers | one episode per key |
| Update runner, Docker control, DLP service, dashboard, installer, documentation, tokens | little of their own | | | | |

## 2. Modules

| Module | What it is | Models |
|---|---|---|
| `KnowledgeLedger` | abstract: what the write path promises | |
| `KnowledgeWrites` | the write path with its races | `knowledge.ts`, archive routes, relations |
| `KnowledgeWritesProofs` | 9 theorems, among them that it implements the ledger | |
| `MemoryGraph` | the graph projection | backfill, rebuild, lifecycle, both deletions |
| `MemoryGraphProofs` | 5 theorems | |
| `UpgradePlan` | the planner, and a walk along its paths | `upgrade-contract.ts` |
| `UpgradePlanProofs` | 3 theorems, for any number of required stops | |
| `UpdateJourney` | abstract: what an update promises | |
| `UpdateCoordinator` | runs of plans, with crashes and retries | coordinator, the parts of `update.sh` it relies on |
| `UpdateCoordinatorProofs` | 8 theorems: one inductive invariant, a count, and that it implements the journey | |
| `DocumentIngest` | uploads of one file name, their jobs, deletion | `pipeline.ts` and its steps, `ingest.ts`, `ingest-reconciler.ts`, the deletion in `documents.ts` |
| `DocumentIngestProofs` | 5 theorems | |
| `MemoryVectors` | rows, points, and who embeds, under a pin that does not change | `embed-backfill.ts`, `upsert.ts`, `embedding-projections.ts`, deletion of a memory |
| `ModelSwitch` | the same while the pin changes | `switch/run.ts`, `switch/migration.ts`, `model-switch.ts`, `settings.ts`, the worker's poll |
| `ModelSwitchProofs` | 4 theorems | |
| `ScheduledJobs` | rows, schedulers, queued runs, and the processor | `services/scheduled.ts`, `reconcile.ts`, `processor.ts`, `queue/scheduled.ts` |
| `ScheduledJobsProofs` | 4 theorems | |
| `PiiScan` | the rescan beside everything that updates a row | `pii-scan.ts`, `security.ts` |
| `DeletionPreview` | previews and confirmations over those rows | both memory routes |
| `DeletionPreviewProofs` | 4 theorems, one of them about `PiiScan` | |
| `MC*` | constants of the checked instances | |

Composition. `KnowledgeWrites` implements `KnowledgeLedger` (`INSTANCE ... WITH`
a refinement mapping), and so `UpdateCoordinator` implements `UpdateJourney`. It takes the planner as a constant
operator `Path(_, _)` with an assumption on it; `MCUpdateCoordinator` instantiates
it with `PlanPath` of `UpgradePlan`, so TLC checks the coordinator with the real
planner and evaluates the assumption for it; `PlansServe` proves of the planner what the
assumption says, for any valid contracts. `MemoryGraph` relies on
`RevisionSaysOneThing` of `KnowledgeWrites`: its episodes are keyed by record and
revision, never by text; `MemoryVectors` names the text of a vector in the same
way. `ModelSwitch` extends `MemoryVectors` with a pin that moves, and
`DeletionPreview` extends `PiiScan`: the stamp of a scan is one of the updates that
make a preview stale.

### 2.1 KnowledgeWrites

A handler is a record in `h[c]`: `read` (update only: the row outside any lock),
`validate` (the privacy scan and the model), `apply` (the transaction under the
owner's advisory lock), `reply`. `Begin`, `ReadCurrent`, `Validate`,
`ApplyCreate`, `ApplyUpdate`, `ApplyReplay`, `ApplyRefused`, `Reply` are the
stages of `saveKnowledge` and `updateKnowledge`; `Replay` is the early receipt
lookup; `Crash` is the death of the process or the loss of the connection at any
stage. `DeleteMemory` leaves history, receipts and derived links (no foreign keys).
`ImportRecord` and `ImportLegacy` are the two archive formats.

A transaction is one step: write-path transactions exclude each other by the
advisory lock, the others are fenced by row conditions and the unique index on
(memory, revision), which is a guard (`Writable`). One catalog term and one link stand
for the classification, which is compared as a whole. `by` (who wrote a history
row) and `said` (the text of the target of a relationship when it was committed) are not
stored by the code; they exist to state properties. `said` is not what the author of the
request had read: the transaction binds a link to whatever revision the target has by then
(`knowledge.ts:139`), a correction in between included. A dependency read from an archive has
no `said`. Of the legacy records named `Witnessed`, any subset had its snapshot taken by the
migration, so an edit finds a legacy row with or without one.
The 409 of `Replay` and a refused import change nothing and are stuttering steps.

### 2.2 MemoryGraph

A row carries what the projection reads: revision, `graphVersion` (`ver`, renewed
by every write), whether it is classified, `graphStatus`, the episode it names.
Backfill and rebuild runs (`job`) read rows, post one episode per row (`Post`,
`PostFails`) and stamp all in one transaction (`Stamp`). Only backfill runs send
an idempotency key. A lost answer leaves the call in `late`, and Graphiti may finish it
at any later time (`LateAdd`) or never. Removal runs (`sweep`) read, mark, remove,
stamp; an operation that is `processing` may be taken over as stale at any time,
which covers every clock. `Delete` is one transaction; DELETE /memories is three
steps (`BulkRead`, `BulkPlan`, `BulkCommit`) because its transaction uses rows
read before. Two history variables say what the code gets wrong when runs meet (section 6):
`passed` has the episodes stamped while a bulk deletion was between its reads and its
commit, `shared` the revisions two backfill runs have held at one time.

### 2.3 UpgradePlan and UpdateCoordinator

Versions are numbers in release order; ranges of the contract language are sets.
`Take` is one turn of the loop of `planUpgradePath`, `Walk` the path after each turn, and
`Stops` the path after the last; `PathIsDeclared` compares the result with a reference
without a loop: the sets of stops that are right. `Hop` moves the source along the path and plans again.

The coordinator's process is `run` (its pc, its plan, `run.st` the execution state in
memory); `file` is `hop-progress.json` and every `Save` is one `writeJsonAtomic`;
`marker` is what a lifecycle child writes last. `Deploy` and the checkpoint `HopDone`
are two steps, so a crash may separate them. `DiscardSnapshot` and `RemoveLock` are the
operator's steps the error messages and the documentation ask for. `snapshot`,
`deployed` and `begun` are history variables. Of all that, `UpdateJourney` sees the deployed
release, the one a restored snapshot would bring back, and what is left of the path: a
completed snapshot is a departure, `Deploy` a move, `HopDone` a tick, `Finish` the end of the
way back; every other step, crashes and new runs among them, is a stutter.

### 2.4 DocumentIngest

One file name. A document is named by the upload that minted its identifiers;
`blob` is the original under its key. `api[u]` is the handler of an upload: `Find`,
`Put`, one of four outcomes of the transaction (`CommitFirst`, `CommitAgain`,
`Conflict` on the unique index, `CommitGone` after a deletion), `Enqueue`. `bull`
is the queued job, which has the identifier of the `ingest_job` row, so a second
enqueueing changes nothing (`Queued`). `work[u]` is the pipeline with what it
keeps in memory: the text it fetched, the version it read, the chunk rows it made. The chunks
of a version are one record, since they are always replaced together, and `row` stands for
their identifiers; a point names the row it was made for. `Refuse` is a step that meets
what is gone, `Fails` any other error, `Stall` the death of the worker, after which
BullMQ gives the job away once. `swept` says that the clean-up succeeded, `together`
has the documents two of whose jobs have ever been at work at the same time; both are history
variables. `Slots` is WORKER_CONCURRENCY. `Purge` is the DLP gate, which fails closed: an upload is blocked and its
original purged also when the scanner does not answer. The reconciler's age limit only
delays it and is left out; so are the embedding by a client and the document's episode.

### 2.5 MemoryVectors and ModelSwitch

`mem` is a row with its revision, `embedStatus` and the point it names; `points[m][r]`
is the point of revision `r` of row `m`, which is its identifier in Qdrant, with one
vector under each vector name. A vector is `[of, by]`: the revision whose text was
embedded and the model that did it. `task[a]` is a run of the backfill or a client:
`BackfillRead` or `Fetch` and `Post`, then the calls of `upsertVectors` one by one (`Put`
replaces the whole point, `Clean` deletes the older ones), then the stamp, which deletes the
points of rows that moved on (`BackfillStamp` in its transaction, `PostStamp` and
`PostUndo` as two calls). `Put` reads the pin when the points are made, after the vectors
were (`PinOf`), and compares only dimensions (`Fits`), as the code does. `ActorFails` is
a call that fails having done all or nothing, `Put` may lose its answer.

A deletion reads its row, then deletes it on condition of the `updatedAt` it read and starts
again otherwise, which amounts to deleting the row as it is (`DeleteCommit`); the purge of
its points is a later step.

`save[s]` is PUT /dashboard/settings. One read of the settings decides (`SaveRead`): `Resume`,
`Begin`, `Refuse`, or `Keep`, which goes on to `Store`. `Keep` is also the save that
asks for embedding in the clients while the server embeds (`settings.ts:503`): the pin is
stored and applied, and no vector name is added. The first two go on with the steps of
`runModelSwitch`: `Start`, `AddVector`, a pass (`Scroll` reads the texts of a page,
`WriteTarget` writes their vectors), `PersistPin`, `ApplyPin`, a second pass, `DropOld`,
`WriteStatus`, which may fail after a failure (`StatusFails`). A status that says running may be
refused or, by its age, taken for dead, so both are possible of it. The pin is kept
three times: in the database, in the API and in the worker, which polls (`Refresh`); a process
that starts takes it from its environment (`ApiRestart`, `WorkerRestart`).

Nothing is assumed about time: saves interleave, switches overlap, and a worker writes under an old
pin as long as it likes. `EmbeddedIsFound` is about what is left to rely on, in terms of three history
variables: `whole` (a second pass has ended for the pin that is stored), `sound` (the second
passes under way since the start of which their pin has been the stored one and kept its
vectors) and `lagged` (the points written last, since the pin is stored, by a process that knew
another).

### 2.6 ScheduledJobs

`row` is `scheduled_job`, `sched` the cron of each scheduler in BullMQ, `tick` and `hand` the
queued runs. A request writes Postgres and BullMQ in two steps: `Pause` and `Drop`, `Resume`
and `Upsert`, `EditRead`, `Upsert`, `Store` and `Drop`. BullMQ refuses a cron that
looks plausible (`UpsertRefused`). The reconciliation of a worker is `BootRead`,
one `BootCreate`, `BootUpsert` or `BootRemove` for each job of its plan, `BootDelete`;
one bad cron ends it (`BootGivesUp`). `Check` reads the row of a run just before it works, and a row
that cannot be read skips nothing (`CheckBlindly`). `apart` (jobs whose row and
scheduler may differ, because requests overlapped or failed) and `hushed` (jobs whose
pause was answered, with nobody about to enable them) are history variables.

### 2.7 PiiScan and DeletionPreview

A row's `cursor` is `updated_at` against `pii_scanned_at`: `never`, `later` or `scanned`.
A run takes the memories, then the chunks: `Read` (the oldest `Batch` rows that are
due), one `Scan` per row, `Stamp` for the batch. The stamp itself sets `updated_at`,
to the same millisecond or a later one, so `Stamp` may leave a row due. `seen` (the
text that was stamped) and `raced` (an edit came between) are history variables.

A preview records rows and their `updatedAt`; `same[x]` is the set of rows whose
`updatedAt` is still the one `x` has read. A confirmation reads the rows
(`ConfirmRead`), for a single memory reads the preview again in its transaction
(`ConfirmCheck`), claims the token and deletes (`ConfirmDelete`). `shown` (the texts of the
preview) is a history variable. Assumed: two updates of a row never fall
into one millisecond, which is the resolution of the comparison.

## 3. Runs

| Run | Result | What it shows |
|---|---|---|
| `knowledge_writes` | pass, 306 thousand states | two handlers, deletion and both imports over a legacy record with or without a snapshot, an archived and a new record: receipts, history, evidence and relationships hold, and the path implements the ledger |
| `knowledge_restore` | `NextRevisionFree` violated | a legacy record that was edited, deleted and restored is at revision 1 while revision 2 is taken: it can never be edited again |
| `memory_graph` | pass, 2.47 million states | two backfills, a rebuild, a removal run and a bulk deletion over a legacy record with edits, deletion, re-import, lost answers and crashes |
| `memory_graph_live` | pass, 588 thousand states | what is completed is gone, queued removals happen, accepted revisions are synced or overtaken, with two removal runs overlapping and a bulk deletion |
| `upgrade_plan` | pass, 85 thousand states | every contract with at most two stops over four releases |
| `update_coordinator` | pass, 6.6 thousand states | updates to three targets with crashes, failures, retries, moved commits, against `UpdateJourney` too |
| `update_resume` | `RetryResumes` violated | after a hop was deployed, the retry plans from another source and is refused |
| `document_ingest` | pass, 1.05 million states | two uploads and a deletion, two jobs at a time, a failure or crash anywhere: vectors, clean-up, version and original stay right, and every job ends |
| `document_skip` | `SearchIsStamped` violated | text A, an upload B that fails for good once its chunks are stored, A again: the third upload is skipped as unchanged, and search keeps B |
| `model_switch` | pass, 1.70 million states | a record is written, edited, deleted and embedded by a run or a client while two saves switch the model, store a pin, fail, resume or overlap, the worker polls late and processes restart |
| `scheduled_jobs` | pass, 1.73 million states | two requests of any kind, the reconciliation, ticks, runs by hand, a failure or crash anywhere |
| `deletion_preview` | pass, 1.15 million states | a memory and three chunks written, edited, marked, deleted and scanned in batches of two; a preview and two confirmations over two memories that are edited, marked and deleted |

Each of the three violations is a disagreement between the code and what a comment,
a test or a document says of it; `PROJECT.json` quotes the line in "findings".

The type invariants of `KnowledgeWrites`, `MemoryGraph`, `UpdateCoordinator`,
`DocumentIngest`, `ModelSwitch`, `ScheduledJobs` and `DeletionPreview` are proved
(`TypeCorrect` of each proof module), not run.

### Bounds

- `KnowledgeWrites` has no artificial bound: the six requests and three keys limit
  what clients can do. The requests race for one key with two texts, race two keys
  for one revision, edit what was edited and link records both ways; a third
  handler adds no new pair of stages, since the lock admits one at a time.
- `MemoryGraph`: `MaxRev = 2` (an old and a new revision), one re-import (the
  revision repeats, the version does not), two or three episodes (one per
  revision and one repeated without a key), one fault (a lost answer or a crash). Runs are
  restarted without bound. `memory_graph` has two backfills, a rebuild and a bulk deletion,
  `memory_graph_live` two removal runs; both have one record, because rows meet only in the
  batch of a run and in the bulk deletion, where each is treated by itself. The proofs have
  no such bounds.
- `UpgradePlan`: four releases, stops at three of them, so two stops can apply or
  not in every combination, and a change of the major version before the last. The proofs
  hold for any number of releases and stops.
- `UpdateCoordinator`: paths of one to four hops, `MaxFaults = 4`, so that a path can
  fail, be retried, crash between a deployment and its checkpoint, and fail again.
- `DocumentIngest`: two uploads (a first version, then a changed one, the same or one
  the gate blocks), one deletion, one fault, which may leave an attempt half done anywhere.
  `Slots = 2` is the default of WORKER_CONCURRENCY. `MaxTries = 1` of the four attempts: a job
  is repeated after a stall, and another upload follows one that failed. `document_skip` has three
  uploads (a, b, a) and no deletion. The proofs hold for any number of uploads, texts,
  deletions, slots, tries and faults.
- `ModelSwitch`: one memory (rows meet only in the batch of a run, where each is
  treated by itself), two pins of different dimensions, one run, one client, one deletion, two
  revisions, two saves (so that a resumption, a refusal, a race of saves and an overlap of switches
  happen), one fault. Saves are numbered in the order in which they read the settings, which
  leaves out nothing but exchanges of their names. The proofs hold for any models, and so for
  two of one dimension, which TLC does not see.
- `ScheduledJobs`: one job of the catalog and one retired job (jobs are independent but for
  the bad cron that ends a reconciliation), three crons (the default, another, a bad one), two
  requests (every pair that may overlap), one worker that may boot again, one slot, one fault.
- `DeletionPreview`: a scan has one memory and three chunks with `Batch = 2` (the run goes
  from one kind to the other, fails in the middle of a batch, and a row may have a full
  batch before it), two texts, one of them flagged, one run, one fault. A preview has two
  memories and two confirmations (a token sent twice). `Bound` of `MCDeletionPreview` keeps
  the two apart: previews are made where nothing was scanned, and nothing is scanned after
  them, because to a preview a stamp is one update of a row more, which `Touch` is, and to a
  scan a confirmed deletion is one more `Delete`. Behaviours with a preview are therefore
  not among those `RowsAreScanned` is checked on. The proofs have no such bounds.

Deadlock is not checked where the system may stop: when all revisions, requests and
faults are used up, or the target is reached (`UpgradePlan`).

### Fairness

Every run with a liveness property uses it. In `MemoryGraph`, `FairSpec` assumes weak fairness of each
backfill run and each removal run, and of nothing else: no client is obliged to
do anything. The scheduler starts both on a cron for as long as the worker
lives, BullMQ gives them to the worker, and a run that has started makes its next
call. Failures are bounded by `MaxFaults`: a Graphiti that fails for ever syncs
nothing. In `DocumentIngest` it assumes weak fairness of the pipeline of each job,
of the reconciler, which is scheduled, and of its queueing; no upload or deletion is
obliged to arrive or to be finished, since an API process may die. In `ModelSwitch`: each
run and each upsert under way makes its next call, and the worker polls the pin; no
save, switch or client is obliged to go on. In `ScheduledJobs`: a scheduler that is
there fires, the worker boots, takes what is queued and finishes it; a request may
stay half done for ever, which is why `EnabledRuns` speaks of jobs whose scheduler follows
the row. In `DeletionPreview`: the scan job, which the scheduler starts every day and which
makes its next call; nobody has to preview or confirm.

## 4. Proofs

TLAPS checks every proof to the last leaf, for any number of clients, records,
runs, releases and faults.

- **KnowledgeWritesProofs.** `IInv` adds to the types: history has one row per
  revision and never contradicts a legacy record; a row is an untouched legacy record
  or history has it and all revisions before it; receipts and the rows they name
  agree; what was told is what a receipt says; a candidate in validation is the
  text of the request or of the revision it expects. None of the properties is inductive without the
  others: `RevisionSaysOneThing` needs the restored rows to be in history, and
  `ValidatedIsStored` needs it in turn, because the row that is read twice is only known
  to have the same revision, not the same text. A second invariant, on dependencies,
  proves `LinksPinned`. `ImplementsLedger` maps each step to a ledger step or a stutter.
  Assumed: `RequestAssumption` (the request schema), `BackupAssumption` (a
  signature vouches for an archive written by this same write path).
- **MemoryGraphProofs.** `Projection` (provenance, runs and rows agree with what
  Graphiti was told) gives `NeverStale`; `Removals` (what a removal run took was queued, what it
  removed is gone, and UUIDs are never used twice) gives `CompletedForGood` for any
  number of overlapping runs. `DeletionIsQueued` holds with any number of single and bulk
  deletions: a bulk deletion loses the removals of `passed` episodes and no other.
  `CurrentStays` holds with any number of backfills, of revisions that are not `shared`.
  `KeptInv` is its invariant: revisions are counted, and the key of a
  call exists for classified ones only (`Numbered`); while a row has the revision a backfill
  read, it has the version, too, and only a rebuild can have stamped it, whose episodes are
  its own and not in provenance before it stamps (`ReadOnce`, `SameVersion`, `OfItsOwn`,
  `PlannedKnown`); when the episode that has the key of a row's revision is queued for
  removal, the row stands by another one for good (`Spent`).
- **UpgradePlanProofs.** The loop over the stops is a recursive function, and what it
  computes is proved by induction over the stops, put as the absence of a first stop after
  which it fails (`Stepwise`, from the library's theorem on minimal elements). `Walked`: after
  the i-th stop the path hops as declared, visits exactly the releases of the stops that
  applied so far, and has arrived at the highest of them. It gives `PathsAreDeclared`, with the
  stops that applied as the set that is right. `Resumed`: the walk from the first release of
  a path is the rest of the walk from its start; it needs that stops are conditioned on
  earlier releases (`Sensible`), and gives `ReplanningResumes` and, along a whole path, `PlansServe`.
  Assumed: releases are numbers in their order, contracts are of the type
  `validateUpgradeContract` returns (`PlanAssumption`).
- **UpdateCoordinatorProofs.** The invariant relates three copies of a plan, in
  the run, in memory and on disk, and says where a path has `Arrived`: at its
  source, at its last done release, or one beyond its checkpoint. Assumed of the
  planner, in `PathAssumption`: a path ascends, ends in the target, and a plan made on the
  way is the rest of the path. `PlansServe` proves all of it of the planner, for contracts whose
  stop conditions name earlier releases only (`Sensible`). `ExactlyOnce` needs one more
  conjunct (`Counted`): the deployments since the snapshot are the done releases, each once, and the
  unfinished one, as many times as faults allow. A path ascends, so it repeats nothing and the
  next release is a new one; finite cardinalities do the count. `ImplementsJourney` needs `IInv` where a step
  relies on what an earlier process wrote: a snapshot is only ever completed while no path is
  under way, and a checkpoint only names what is deployed.

- **DocumentIngestProofs.** `TInv` adds to the types which jobs have rows and what a
  job carries. `MintInv`: an upload or a document that was committed never commits again,
  so what was deleted stays deleted; it gives `OriginalsKept` for any number of jobs at a
  time. The other three hold for any number of slots, of documents no two of whose
  jobs have met: there (`Alone`) the job that stores owns the chunks, and its points are there
  before it marks them (`SoundInv`, for `NoBlackout` and `CleanUp`), and what a job decided
  about the version is still so when it writes it (`DecidedInv`, for `VersionsCountTexts`).
- **ModelSwitchProofs.** `TypeCorrect`. `VectorsOfRows`: texts only get newer. With
  `Top(m)` the newest revision there has been of a row, what a run has read, what
  a page of a switch holds and what a vector was made from are no newer than `Top`, and
  no older than the point they are for (`AgeInv`); so at the point of the present
  revision nothing is left between. A vector has the size of the name it is under because
  `upsertVectors` compares it. No assumption on the models or on time is needed.
  `NothingOrphaned`: a point may be there without its
  row at any moment, so `OwnedInv` says why: the row names it, or an upsert under way
  owes its removal (`Owes`: it will find the row changed and take the point away), or a
  deletion or clean-up is about to purge it; `Covered` then says who takes over when a row
  changes, and when all rest only the first case is left. `FoundUnlessLagging`: a point
  is wanted by a pin (`Wants`) when its row is or will be embedded by it and it was not put
  by a process that did not know the pin. While `whole`, all that the stored pin wants has
  its vector (`Found`); a second pass that is sound has brought to the vectors of its
  target what its target wants of the points it will not see any more (`Before`). It is
  inductive only together with `TInv` and `AgeInv`.
- **ScheduledJobsProofs.** `TInv` adds to the types which jobs requests and
  reconciliations are at (`AtWork`). `RetiredGoesLast`: a reconciliation that is past its
  removals has cleared the retired jobs it saw (`Cleared`). `PausedQuiet`: of a hushed job the row is
  disabled, whoever could enable it is not at work (`Alone`, `Disabled`, `Hushed`), and a run
  that was taken hushed finds it so (`HushedRuns`).
- **DeletionPreviewProofs.** `NoFailureClears` says of rows that no run takes again that their
  text was scanned, except for those edited between the read of a run and its stamp. `ScanInv`: live rows have texts, a run knows the text of what
  it has done, and that text was flagged only if its alert was written or lost
  (`RunAtWork`, `ClearedWasScanned`). `TokenInv` relates previews and confirmations: a single
  preview has one row, the rows a confirmation found unchanged have the texts shown
  (`ShownByPreviews`, `ShownByConfirms`), a used token has one that is done, and the
  others will find their rows changed (`OthersAreStale`), also for an empty set of rows,
  where only the claim of the token decides.

Only model-checked: liveness, which needs ENABLED, and that the properties of the three
findings are violated. Every safety and action property of a passing run is proved.

## 5. Not modelled

- Authentication, tokens and row security: conditions of single requests and
  declarative policies. The models have one owner.
- The dashboard, the installer, the documentation, MinIO, Docker control, the DLP
  and update runner services: input and output around the components above. They
  are most of the repository's lines.
- Graph V2 migration: retired. `apps/worker/src/graph-v2-migration-cli.ts` runs only the read-only
  inspection, and `apps/update-runner/test/update-script.test.ts:153` asserts that
  `runGraphV2Migration` is not called.
- Dashboard gateway: which page is served is a function of two files that other
  programs write; it keeps no state between requests.
- MCP runtime: sessions live in the memory of one process that handles one event at a
  time, and a lost session is opened again by its client.
- Embedding health: one conditional update per observation; the counter that may lose an
  increment is shown and decides nothing.
- In modelled components: document episodes and replace operations, the
  batch limits of 100 and 200 (`PiiScan` has its own), quarantined imports and
  aliases, updates to releases without a contract, a lifecycle child that
  outlives its coordinator, the telemetry of scheduled runs, payloads of points.

## 6. Observations

What the models showed beside the three findings. Each can be repeated by changing
constants of a configuration, as noted, or is read off the guard named.

- Graph projection. When two backfill runs hold one revision at the same time
  (`CurrentKept` without `shared` is violated): the second takes the row for deleted and queues the removal of the episode both share
  (`memory-graph-backfill.ts:149`, against the comment at `:73`). A lost answer or a crash
  followed by an edit leaves an episode that no provenance names
  (`memory-graph-backfill.ts:76`, against `schema.prisma:931`). A bulk deletion
  does not queue the removal of an episode that is stamped between its reads and its
  transaction (`DeletedIsQueued` without `passed` is violated; `routes/memories.ts:731`,
  against `services/graph-lifecycle.ts:6`).
- Documents. With two jobs of one document at work, which the default of WORKER_CONCURRENCY
  allows, the older drops the vectors of the younger (`pipeline.ts:184`, against the comment at
  `:178`), or upserts after the clean-up of the younger, and both count the same version:
  `EmbeddedHasPoint`, `NoOrphans` and `VersionCounts` without `together` are violated. A deletion that races the pipeline can
  leave points of a document that is gone. A scanner outage purges the originals of good
  uploads, because the gate fails closed. Read, not modelled: DELETE /documents queues
  removals from provenance before it deletes the row (`documents.ts:309`, the memory
  route at `memories.ts:400` has the order right), so an episode that is stamped in between stays;
  the replace operation of an old version posts the chunks it reads and moves the
  document's pointer back (`graph-lifecycle.ts:88`), and fails for ever once the document
  is gone; the compensation after a commit whose answer was lost removes an episode that
  was recorded (`pipeline.ts:250`).
- Vectors. Of two models of one dimension, of which `registry.ts` lists several, the vector of
  the old model may be filed under the name of the new one (`embed-backfill.ts:95`, `:104`
  and `:107`, against `documentation/stack-architecture/embedding.md:14`), and search compares it
  with queries of the new one. `SearchIsOfRow` claims the text and the size, not the model.
- Model switch. `EmbeddedIsFound` without `lagged` or `whole` is violated. A worker that lags
  writes rows under the old name, which the drop then takes: the comment at
  `apps/worker/src/index.ts:134` expects the second pass to find them, but the worker polls every ten
  seconds, and `model-switch.ts:24` calls the second pass sub-second. A save that read before a
  flip writes the old pin back, and a switch that runs for more than 30 minutes may be
  started over by another. A save that changes the model and asks for embedding in the clients
  stores and applies the pin without its vector name (`settings.ts:503`): the API and the worker,
  which stay in the mode of their environment, have every upsert refused from then on, and rows stay
  pending, which is why `PendingIsEmbedded` speaks of the time when the collection has the name. An API that restarts embeds queries under
  the pin of its environment, whatever the database says, and a worker until its first
  poll. After a crash between flip and end the status stays `running`, and saving the same target
  again stores the pin and resumes nothing. A status that could not be written stays `running`
  (`model-switch.ts:198`).
- Scheduled jobs. A reconciliation that read before a resumption removes the scheduler of an
  enabled job, until the next boot (`reconcile.ts:92` calls such races benign). An edit that read before
  a pause enables the job again. A bad cron that was stored while the job was disabled
  enables the row without a scheduler on resumption, and from then on ends every boot
  reconciliation for all jobs. A row that cannot be read lets a paused job run.
- PII rescan. A row that is edited while a run has its old text is stamped with the rest
  of the batch, later than its edit, and its new text may go unscanned until the row is updated again
  (`pii-scan.ts:97`, against `:48`). A stamped row may stay due, since the stamp sets `updated_at` (migration 0008 says
  the next run skips it), and a hundred such rows, the oldest, starve newer ones
  (`pii-scan.ts:36`, `:58`). A run that is aborted has alerted its first rows already
  and alerts them again next time (`:74`); an alert that cannot be written is only logged,
  and the row is stamped.
- Deletion preview. Any update of a row makes a preview stale, the stamps of the worker's
  jobs included.

## 7. Plan

Done, in this order: `KnowledgeWrites` with its ledger, `MemoryGraph`,
`UpgradePlan`, `UpdateCoordinator` and their proofs; `DocumentIngest` with its
proofs; `MemoryVectors` and `ModelSwitch`, `ScheduledJobs`, `PiiScan` and `DeletionPreview`, each
with proofs. Next:

1. The episode of a document with its replace operations, and embedding by a client, in
   `DocumentIngest`.
2. Abstract specifications of the derived stores (the schedulers a set of rows asks
   for, the points a set of rows asks for), and the refinements.
