# OpenEngram: models and proofs

TLA+ models of the parts of OpenEngram in which several processes, requests,
timers or machines work on the same memories, the TLC runs that check them, and
TLAPS proofs of their safety properties and refinements. Paths without a prefix are
relative to `apps/api/src/`.

1. [Inventory of the system](#1-inventory-of-the-system)
2. [Modules](#2-modules)
3. [Runs](#3-runs)
4. [Bounds and fairness](#4-bounds-and-fairness)
5. [Proofs](#5-proofs)
6. [Where the code and its documents disagree](#6-where-the-code-and-its-documents-disagree)
7. [What is not modelled](#7-what-is-not-modelled)
8. [Plan](#8-plan)

To check a model: `tlc -config PipelineSerial.cfg EmbeddingPipeline.tla`. To
check the proofs: `tlapm EmbeddingPipelineSafety.tla`.

## 1. Inventory of the system

OpenEngram stores what agents should remember. `apps/api` (NestJS over
Postgres with pgvector, BullMQ over Redis) is the core; `apps/dashboard` is its
user interface, `apps/code-api` indexes repositories, `services/embed` is a
server that computes vectors, `packages/*` are clients, an MCP server and shared
types.

### The memory pipeline

| Part | State | Operations |
|------|-------|------------|
| `memory/memory-write.service.ts` | `memories` (Postgres) | `remember`: insert a row, put a job on the queue |
| `memory/embedding-queue.{producer,processor}.ts` | queue `memory-embedding` (Redis), two worker slots | `process`: extract, embed, deduplicate |
| `memory/memory-pipeline.service.ts` | `embeddingRetryQueue` (heap), `embedding_status` | `extractAndEmbed`, `generateAndStoreEmbedding`, `retryFailedEmbeddings` |
| `memory/embedding-retry.cron.ts` | none | the sweep, every five minutes |
| `health/embedding-retry.service.ts` | none | `retryPendingEmbeddings`: embeds rows without `embedding_id` |
| `memory/memory-dedup.service.ts`, `vector/providers/pgvector.provider.ts` | `memory_embeddings` | `findDuplicateV2`, `upsert`, `search` |
| `memory/memory-lifecycle.service.ts` | `memories` | `update` (with a new embedding), soft `delete` |
| `prisma/rls.interceptor.ts` | one transaction per request with an account | commits when the handler returned |

They share a row per memory and meet at its `embedding_status`, its vector and
its `isDuplicateOf`. Hard are: the job queued inside a transaction that has not
committed; several writers of one row with awaits between read and write; two
worker slots that deduplicate at once; the heap that a restart loses while
Postgres and Redis stay; stalled jobs that are delivered again while their first
slot still runs; a discovery that reads pages by offset while rows leave the query.
It is correct when a row reported COMPLETE can be found, duplicates never hide each
other, no memory is embedded by two slots at once, retries are bounded, and every
row is settled in the end.

### The batch queue

`memory/memory-job-queue.service.ts` keeps jobs, batches and a slot counter on
the heap for `POST /v1/memories/batch/async` and the imports; `memory-job-processor.service.ts`
runs the pipeline for one job. Hard are
retries that sleep inside a slot, timers that outlive a shutdown, and reports
polled while jobs may still be retried. (The guard of `processNext` itself cannot
swallow a call: its loop has no await.) It is correct when slots are counted
right, each job is in one place until it is over, no slot idles beside a waiting job,
and a final report stays.

### Cloud sync

`cloud-sync/`: a self-hosted instance pushes its memories to the cloud, by a
manual sync in pages or when a memory is created, and pulls what changed there.
State: `cloudSyncedAt` and `lastPulledAt` in the instance, the account's memories
and `sync_id_map` in the cloud. Hard are two databases without a common
transaction, answers that get lost, pushes that overlap, a cursor over a query
whose rows disappear while it runs, and a check followed by a create. It is
correct when nothing is marked as backed up that was not stored, pushes do not
multiply a memory, edits and deletions reach the other side, and a sync ends. Not all
of this is so (section 6).

### Merging duplicates

`deduplication/`: a scan, people and a nightly worker find groups of duplicate
memories; `MergeService` merges a group into a survivor, `LineageService` records
the event and can roll it back, `ReviewService` keeps `merge_candidates`, and
`DedupQueueProcessor` drains them. State: the rows, `memory_merge_events`,
`merge_candidates`. Hard are several writes without a transaction, rollbacks and
merges of the same rows at once, sweeps that decide what somebody else is deciding,
and a status read long before it is written. It is correct when every hidden row
can be brought back, a candidate that reads APPROVED was merged, and no memory
changes in a way that no event tells of.

### The dream cycle

`consolidation/`: eleven stages run one after another every night, under an advisory
lock with a report, or as a chain of BullMQ jobs. State: the lock, reports, a record
per stage, the LLM budget, and what the pending stage merges. Hard are a session
lock over a pool of connections, two ways to run that do not exclude each other,
stages that fail anywhere, and calls that are paid for but not counted. It is
correct when a completed report has no open stage, hidden rows have an event and a
live survivor, and a run keeps to its budget.

### Recall

`memory/memory-query.service.ts` with `memory-query-ranking.service.ts`: one request
collects memories from an index, keyword searches, the graph and insights, ranks and
cuts them, and appends anticipated ones. It keeps no state but what it has read,
each part at another moment and under other filters, while the rows change. It is
correct when the answer holds live, distinct memories that fit the filters, within
the limit, and with an exact hit if there was one.

### The rest

| Part | State | What is hard | Why it is not modelled |
|------|-------|--------------|------------------------|
| Embedding client (`memory/embedding.service.ts`) | failure count and cool-down on the heap | concurrent calls around the trip and the reset of the breaker | to its callers it is a call that may fail, which every module has |
| Sessions and usage (`memory-write.service.ts:878`, `:937`; `memory-lifecycle.service.ts:105`) | sessions, `memoriesUsed` | check, then create; a second delete of one row decrements again | planned |
| Correction (`correction/`, `memory-lifecycle.service.ts:346`) | superseded rows | several writes without a transaction | planned; a superseded row is a deleted one to the others |
| Delegation (`delegation/`, `identity/`) | contracts, trust records | `VALID_TRANSITIONS` checked before an update that does not repeat the check; outcomes counted twice | planned; shares no state with the memories |
| Generic queue (`queue/queue.service.ts`) | heap, a copy of the jobs in Redis | recovery of jobs after a restart | no other service uses it |
| Webhooks (`webhooks/`) | subscriptions, deliveries, failure count | retries, the counter that disables a subscription | its handler `@OnEvent('**')` needs wildcards, which the event emitter is set up without: it never runs |
| Ensemble, re-embedding (`ensemble/`, `reembedding/`) | jobs, checkpoints | two manual jobs at once, resumption | a second index that recall does not read; cancelling and resuming have no caller |
| Graph, hierarchy, clustering, summaries | derived rows | output of a model; no protocol | no question of states and steps |
| Accounts, plans, rate limits, payments | counters, an external service | request guards | the same |
| Import, inbound mail, session indexing | none | parsers in front of `remember` | the same |
| Health, monitoring, analytics, fog index | snapshots | reports | nothing else reads them |
| `apps/code-api` | index of repositories, budgets | incremental ingestion | planned last: its own service and database |
| `services/embed` | a semaphore | admission under a time limit | to its client a call that may fail |

## 2. Modules

### EmbeddingPipeline

One row, one job and one retry entry per memory; one record in `act` for every
worker slot, sweep, healer and edit request. A step is the code between two
awaits that touch shared state.

| Variable | Code |
|----------|------|
| `row` | `memories` with `memory_embeddings` and `memory_extractions` (Postgres) |
| `job` | the BullMQ job, its attempts and stalls (Redis) |
| `retry` | `embeddingRetryQueue` (heap) |
| `act` | the local variables of calls under way (heap) |
| `failures`, `restarts` | bounds, no state of the code |

`Create`, `Enqueue`, `EnqueueFails`, `Commit`, `CommitFails` are `remember`, with
and without the transaction of the interceptor; `Take` to `MarkDuplicateFails`
are the processor; `Embed`, `Mark`, `Unqueue`, `EmbedFails` are
`generateAndStoreEmbedding`, which workers and sweeps share; `ReadPage`,
`DiscoverFails`, `QueuePage` and `Pick` are the sweep; `HealStart`, `Healed`,
`HealFails` the healer; `Edit`, `EditCommits`, `EditFails`, `Delete` the lifecycle;
`Restart` is the end of the process: heap and open transactions go, jobs that were
active are redelivered or given up by BullMQ.

BullMQ gives a slot a lock on its job and renews it on a timer. When the renewal is
late, `Stall` takes the job away: it waits for the next slot, or fails after MaxStalls
stalls, while the first slot knows nothing of it and goes on (`lost`). What that slot
reports in the end changes nothing of the job (`Report`), but all it writes to Postgres
and the retry map stands. Nothing in `process` guards against the second slot.

The discovery is one query per page with an await between them. `ReadPage` reads
page p of the rows as they are then, so rows that were completed since page p - 1
shift the offset and others are passed over; `QueuePage` enters what is new and
either goes to the next page or, on a page that is short or brings nothing new, copies
the entries below the cap and starts to embed them.

Abstractions. Texts are version numbers and a vector is the version it was
computed from; similarity is a nondeterministic choice among the rows the search
may return. The sweep works through its batch in any order. A worker reads the row in
the step that takes the job. `findDuplicateV2` is one step: its search and its lookup of the
survivor, whose later deletion or demotion is modelled. A transaction's writes
are one step, since row locks keep other writers of the row out until it
commits. Steps that swallow their errors (linking, graph, hierarchy) are left
out, as are FACT_KEY children, the temporal gap marker, and a sweep that an
operator starts inside an account's transaction. `deduplication/lineage.service.ts:99`,
which deletes vectors when clusters merge, is outside the model, so
CompleteIsSearchable speaks of the pipeline alone.

MCPipeline extends it for one run with the permutations of the worker slots, which
all do the same, as symmetry.

### MemoryJobQueue

The variables have the names of the code. `scheduling` is TRUE while the loop of
`processNext` runs and excludes all other callbacks, as Node does; `phase` is
where a `runJob` call stands, and a call that returns runs its `finally` in the
same step, because Node drains settled promises before the next callback.
`memory` is the row a job names, as its processor can reach it. Jobs name
distinct memories, and the processor is registered before the first request.

Its abstract specification is JobService, a queue without list, loop, timers and
callbacks: a job is new, waiting, running, over or dropped; it runs in one of the
slots and at most MaxAttempts times, fails only when its tries are used up, is never
put back once it is over, and is dropped only by the shutdown. `Place` maps a job
into it, `Service == INSTANCE JobService WITH ...` states the mapping, `ServesJobs`
the property.

### CloudSync

Two databases, the calls between them and both ends of each call.

| Variable | Code |
|----------|------|
| `local`, `event`, `client`, `pull` | the instance: rows, `memory.created` events, pushes and the pull under way |
| `cloud`, `map`, `req` | the cloud: the account's rows, `sync_id_map`, batches being ingested |
| `fresh` | cloud rows with `updated_at` after `lastPulledAt` |

`StartSync`, `SendPage`, `SyncOver`, `Cancel` and `Mark` are the loop of
`performSyncWithClient`; `AutoSync` is `handleMemoryCreated`; `Disconnect` is a
call that fails, is refused or loses its client, while the cloud may go on;
`Lookup`, `Link`, `Store`, `ItemFails`, `Respond` are `handleSyncPush`, with a
step between the lookup and the write of an item because its transaction does not
lock what it did not find; `PullRead` and `PullCommit` are the two ends of
`triggerPull`, whose writes are one transaction of the request. `PullCommit` has the
branches for tombstones, for changed contents (`Changed`) and for new rows.

Contents are content hashes, as in the code that compares them. Texts are left out,
and with them `update`: an edit changes `raw` and leaves `contentHash` and
`cloudSyncedAt` alone (`memory-lifecycle.service.ts:173-193`). So a row that is
marked as backed up may have another text than its copy, and nothing in this module
says otherwise: SyncedIsStored says that a row of its hash was stored for the user.

What the code makes of some states, seen while modelling:

- `update` writes no `contentHash` and nothing resets `cloudSyncedAt`. So edits never
  reach the cloud, and a row edited in the cloud keeps its hash: the pull finds the local
  row by it and skips the item before the branch that would update it. Deleted rows are
  not in the query of a push, so local deletions do not reach the cloud either.
- The advisory lock of `triggerSync` is a session lock taken through a pool (and,
  with an account, on the connection of the request's transaction); it is
  granted again to the session that holds it and given up on another one. The
  model has no lock.
- A row that was pulled is unsynced, so it is pushed back and linked by its hash.
  A deleted cloud row without a local id is created again by a pull.
- `skip: 1` drops a row when the cursor row was just marked; the next sync sends it.

Abstractions. A pull reads all its pages in one step. The lookup by hash and the
lookup in the id map are one step. Two requests that race for a new agent or user
mapping make one item fail, which `ItemFails` covers. A crash of the cloud is a
`Disconnect` with the request gone; a restart of the instance is a `Disconnect`
or `Cancel` with lost events.

### SearchableMemory and its implementation

What a caller may rely on, without queue, workers or sweeps: a memory is accepted,
indexed, complete only once it is indexed, reopened by a failure, hidden only behind
another memory that has a vector, and deleted for good. `EmbeddingPipeline` states at
its end the refinement mapping (`Promise == INSTANCE SearchableMemory WITH ...`) and
the property `KeepsPromise`: COMPLETE rows are "complete", DUPLICATE ones "hidden", a
row that has not been committed is "absent". TLC checks it in `pipeline_serial`.

### MemoryMerge

| Variable | Code |
|----------|------|
| `mem`, `event`, `cand` | rows, `memory_merge_events`, `merge_candidates` (Postgres) |
| `act` | what each request and each worker slot holds between two awaits (heap) |
| `hiddenBy`, `early` | history: which merge hid a row last; rollbacks that overtook their merge |

`ReadMemories` to `Absorb` are `MergeService.merge` with `LineageService.recordMerge`,
one step per database call; `Rollback` to `Undo` are `rollbackMerge`; `Approve`,
`Decide`, `Reject`, `Skip`, `ExpireStale` are `ReviewService`; `DrainStart`,
`NextCandidate`, `EndOfList` the nightly worker and its backlog sweep, `GiveUp` the
catch block of the two sweeps. `Fails` fails any call, with what was written left as
it is. Requests with an account run in a transaction, but read before they lock, so
the steps interleave all the same. Safety checks and similarity are the grade of a
candidate; the strategies choose any survivor; texts are values, vectors are left
out, since they are rewritten on a best effort after the rows.

Its abstract specification is MergeLedger: an entry, of two memories or more, comes
first and never changes but for its cancellation; memories are hidden all at once and
exactly as an entry says; each comes back with the text an entry kept; a survivor is
rewritten with the text of an entry only, and taken back only where an entry says it was
rewritten. The entries are the merge events themselves; requests, candidates and
sweeps have no place in it. `Ledger == INSTANCE MergeLedger WITH ...`, `KeepsLedger`.
What text comes back to a survivor is left open there, because the code does not keep it
(section 6).

### DreamCycle

| Variable | Code |
|----------|------|
| `lock` | how often each session holds the advisory lock: a session is an instance's connection |
| `report`, `record` | `dream_cycle_reports`, the last `dream_cycle_stage_runs` row of each stage |
| `into`, `cand`, `events` | what the pending stage merges and records |
| `job`, `run` | the flow's current BullMQ job; where a run or a job stands |
| `spent`, `overlapped` | history: LLM calls made; whether two pending stages were at work at once |

`Acquire`, `OpenReport`, `NextStage`, `Finish`, `Catch`, `Release` are
`DreamCycleService.run`, with an action for each call of it that fails; `Enqueue` and
`Take` the queue; `StartStage`, `Work`, `StageFails`, `Complete`, `Error` a stage in
either; `ListPending` to `WriteStatus` `DreamCyclePendingStage`. The lock is modelled as
Postgres keeps it: granted again to the session that holds it, released by whatever
connection the pool gives, freed when a connection closes. The stages other than
pending are their record, their LLM calls and their failure.

### Recall

| Variable | Code |
|----------|------|
| `row` | what the filters look at in a row; others write it |
| `req`, `at` | the request's options; where `recall` is |
| `ids`, `keyword`, `reads`, `results` | its local lists; an entry keeps the row as it was read and who found it |
| `seen`, `writes` | history: memories live at some time since the request began; a bound |

Each source is an action with the filters it has: `VectorSearch` returns any ids,
for the index may be behind; the keyword searches live rows; `Fetch` the filtered
ones; `GraphRead` rows without a filter; `SurfaceInsights` recent insights; `Anticipate` what
the strategies read. `TakeTemporalPath`, `TemporalPass`, `TemporalScores` are the path for a
time expression. With `req.multi` the request takes `recallWithMultiQuery`: its variants'
searches are one `VectorSearch`, no keyword search follows, and neither the agent
filter nor the dates nor the layers are applied to what it adds. `Rerank` is the cut,
the rescue of keyword hits, the agent filter and the filter of survivors, which run
without an await between them. Scores are left out: a ranking is any order, except
where the code fixes who comes first.

### Variants

Each module holds a few operators whose comment begins with "Variant": a
plausible slip in the code (a dropped guard, an off-by-one, a missing write). The
specification does not use them; replacing the operator named beside them in
`PROJECT.json` makes a checked property fail, which shows that the property
constrains that piece of code.

## 3. Runs

| Run (cfg) | Question | Result |
|-----------|----------|--------|
| `pipeline_two_workers` (PipelineTwoWorkers, module MCPipeline) | one memory, two worker slots, a sweep, the healer, an editor; a job that stalls under its slot, three failures, a deletion, a restart: TypeOK, CompleteIsSearchable, OneSlotEmbeds, RetryBudget | holds, 2.5 million states |
| `pipeline_serial` (PipelineSerial) | two memories, one worker slot, a sweep with pages of one row, two failures, a restart: DuplicatesHaveSurvivor, DuplicatePointsAtEmbedded; KeepsPromise, that it implements SearchableMemory; EventuallySettled | holds, 1.0 million |
| `pipeline_dedup_race` (PipelineDedupRace) | DuplicatesHaveSurvivor with two slots | violated |
| `pipeline_edit` (PipelineEdit) | VectorMatchesText with an edit | violated |
| `job_queue` (JobQueue) | three jobs, two slots, two failed calls, memories that do not exist: TypeOK, SlotsMatchRunning, JobsAccounted, NoIdleSlot, OutcomesAreTrue, ReportIsFinal, EventuallyOver; and ServesJobs, that it implements JobService | holds, 0.34 million |
| `cloud_sync` (CloudSync) | two rows, one batch at a time, pulls: TypeOK, SyncedIsStored, NoDuplicateCopies, SyncTerminates | holds, 0.45 million |
| `cloud_sync_overlap` (CloudSyncOverlap) | NoDuplicateCopies with two batches in the cloud at once | violated |
| `cloud_sync_tombstone` (CloudSyncTombstone) | PullAppliesDeletions | violated |
| `memory_merge` (MemoryMerge) | a reviewer, the nightly worker and its sweeps, a failure or restart, rollbacks: TypeOK, Recoverable, ApprovedWasMerged; and KeepsLedger, that it implements MergeLedger | holds, 2.9 million |
| `merge_undo` (MergeUndo) | UndoneTextIsGone | violated |
| `dream_cycle` (DreamCycle) | a run and a flow over two memories, a failed call, closed connection or restart: TypeOK, CompletedHasEnded, HiddenHasEvent, MergedWasMerged, BudgetOfRun, MergedIsReachable | holds, 4.0 million |
| `recall` (Recall) | one request after the other, any options, two writes by others during each: TypeOK, ReturnedWasLive, NoTwice, LimitKept, AnswerFits, KeywordHitReturned | holds, 0.6 million |

The violated ones are explained in section 6. Deadlock is checked
in the passing runs of the pipeline, in the cloud sync runs and in recall, where
a sweep, a sync or a request may always begin; the other cfgs switch the check off: a
queue whose jobs are over, and merges and cycles that have used up their bounds, may
stop, and a run that looks for one violation asks no more.

OneSlotEmbeds is what the code has instead of exclusive jobs: two slots may well
process one memory, and `memory_extractions.memory_id`, which is unique, lets one of
them through. The other one fails and writes FAILED over whatever the first has
written, which CompleteIsSearchable and EventuallySettled must survive. RetryBudget
allows the cap plus the number of concurrent sweeps: each sweep works
from a copy of the retry map, so a sweep that copied an entry before another one
counted its failure overruns the cap by one. The run has one sweep and, for the stalled
job, two slots; the theorem has any number of each. EventuallySettled excuses two
kinds of rows: one whose own retries are exhausted, which the code gives up until a
restart, and one with a full page of such rows before it (Buried), behind which
discovery does not look (section 6). Rows passed over because a page shifted, rows with
entries that are still tried before them, and rows whose job was lost, stalled or failed
are not excused. OutcomesAreTrue relates what a
batch report says of a job to the row: completed means extracted, failed means that
every attempt was used, and, where the row exists, that each one met a failure.
NoDuplicateCopies holds where batches are ingested one after the other, whatever
answers are lost and items fail between them, and fails where two are in the cloud at
once (section 6). ReturnedWasLive is about the whole
request: a row deleted while it runs may still be returned. Recoverable excepts
a rollback that overtakes the merge it undoes, which hides the row after all: its
event then reads "undone". MergedIsReachable holds while no two pending stages are
at work at once, which the lock does not guarantee (section 6).

## 4. Bounds and fairness

Constants named after the code (MAX_RETRY_ATTEMPTS, BATCH_SIZE, concurrency) are
parameters; the runs take small values that still reach every branch. The rest
bounds the environment:

- Pipeline: two memories are enough for every property about a pair of rows
  (one hides the other, one lies before the other in a page); a cycle through
  isDuplicateOf with two slots needs two. Exclusion between slots is about one memory,
  so `pipeline_two_workers` has one and every actor there is. In `pipeline_serial` a page
  is one row, so an offset shifts as soon as one row is completed, and one entry can
  fill a page; MaxRetryAttempts is 2, so that one failure exhausts nobody, and with two
  failures a row may be exhausted or both may fail once. MaxStalls is 0 there: a job
  that stalls fails at once while its slot goes on, and the sweep has to save its row;
  second deliveries, edits, deletions and the healer are in the other run. There three
  failures meet two attempts of
  the job and one of a sweep; one stall, one deletion and one restart strike at any
  point. One edit suffices for two texts in two orders.
- Batch queue: three jobs over two slots leave one waiting while a failed one
  sleeps in its slot; two attempts of a job reach retry and final failure, and two
  failed calls exhaust the attempts of a job whose memory exists.
- Cloud sync: two local rows of one content with pages of one row exercise the
  cursor, the skip, the unique constraint of the id map and the second lookup; two
  cloud rows hold the copy and one row of elsewhere, or the copy and the
  duplicate. Failures are not bounded. Requests bounds the batches the cloud works
  on at once: with one in `cloud_sync`, a new call waits until an abandoned one is
  finished, so the run states what sequential pushes leave; `cloud_sync_overlap` has
  two. With one content, that branch of a pull that would update a row cannot occur;
  SyncedIsStored is proved for any number of contents and of overlapping batches.
- Merging: two memories are one group; three events are a merge, its repetition and
  one more; one candidate meets every decision, sweep and batch; one fault strikes
  between any two calls.
- Dream cycle: one run and one flow overlap in every way two cycles can; two LLM
  calls and one consolidation reach every limit; two connections let the unlock miss
  the lock. The stages of the request are three, one of each kind: the one that
  merges, one without a budget, one with a budget and without a record.
- Recall: three memories against a limit of two make the cut, the rescue and the
  second cut matter; two writes delete a row and bring it back, or hide it in two ways.

Without the bounds, the safety properties are theorems (section 5).

Fairness:

- Pipeline: weak fairness of each worker's and each sweep's next step and of the
  enqueue that `remember` awaits: BullMQ polls for ever, the cron fires every five
  minutes, and Node runs a callback that is ready. Requests, edits, deletions,
  failures, restarts and healers are not owed to anybody.
- Batch queue: weak fairness of the loop and of each `runJob` call, whose sleep
  is a timer. Submissions, expiry and shutdown are free.
- Cloud sync: weak fairness of `SyncOver`, `Mark` and of the cloud's work on a
  batch. `SendPage` is strongly fair: in the code a call can always be
  sent, in the model it waits for a free member of Requests, a bound that would
  otherwise starve it. Nobody owes a sync, a pull or a disconnect: a batch is
  answered because the cloud finishes it.
- Merging, dream cycle, recall: none; their properties are safety. A merge that is
  cut short is resumed by nobody, and the code promises no end.

## 5. Proofs

All theorems hold for every value of the constants allowed by the assumptions of
the modules and the theorem itself; none of them needs a bound of section 4. Every
invariant and action property that a passing run checks is one of them, and so are the
three refinements (SearchableMemory, JobService, MergeLedger). Each refinement is proved in the
same three facts: the initial states are initial ones of the abstract specification; a
step is a step of it or a stutter, in the states of the invariant; the invariant
holds.

**EmbeddingPipelineProofs.** TypeCorrect: `Spec => []TypeOK`, by one lemma per
component (write path, processor, embedding, sweeps, restart).

**EmbeddingPipelineSafety.**

- SearchableCorrect and DuplicatePointsCorrect. CompleteIsSearchable is not
  inductive: whether `Mark` may write COMPLETE depends on what the actor did
  before. EmbedInv adds ActSound for every actor (an actor at "mark" has stored a
  vector for its row, a match that was chosen is another row with a vector) and uses VectorsStay: no step takes
  away a vector, because the pipeline only ever overwrites one.
- SerialDedupCorrect: with at most one worker, `Spec => []DuplicatesHaveSurvivor`.
  SerialInv adds that the match a worker holds is not DUPLICATE, which no other
  actor can change when there is no second worker. The new link leads to a row that
  is not DUPLICATE, so no closed set of duplicates arises. The assumption
  is exactly what `pipeline_dedup_race` lacks.
- OneSlotCorrect: `Spec => []OneSlotEmbeds`, for any number of slots and stalls. SlotInv
  adds that the extraction row exists for whatever memory a slot is embedding; it
  is never removed (ExtractionStays), and a slot can come to embed a memory only by
  writing it (EmbeddingMoves), so a second slot is refused. Nothing is assumed of the
  exclusivity of jobs.
- RetryBudgetCorrect: with finitely many sweeps, `Spec => []RetryBudget`. WithinBudget
  adds to the attempts of an entry what may still be counted: one for each sweep
  that has copied the entry or is embedding it, and one for its job. That the job counts
  one failure, however often it is delivered and to how many slots, rests on SlotInv: a
  memory whose extraction is written and that no slot is embedding (Counted) is not
  embedded by a slot again, and stays so. The sum never exceeds the cap plus the
  number of sweeps: a sweep copies only entries below the cap, and a failure moves
  one from what may be counted to what was. BatchOnce (a batch names a memory once)
  says that a sweep counts one failure, not two.

**EmbeddingPipelineRefinement.** PipelineKeepsPromise: `Spec => KeepsPromise`, the
pipeline implements SearchableMemory. Every step writes at most one row, so lemmas
map the change of one row (OneRow, SameView) to a step or a stutter of the abstract
specification, and each action reduces to one of them. PresentInv is what EmbedInv
lacks: whatever an actor or the retry map names has been accepted, although the row
of a job may vanish with its transaction.

**MemoryJobQueueProofs.** QueueInv joins TypeOK, SlotsMatchRunning, JobsAccounted
and NoIdleSlot; the lemmas AppendListed, TailListed and ConcatListed say what
the operations of the FIFO do to the set of jobs in it. QueueTypeCorrect,
SlotsCorrect, JobsAccountedCorrect and NoIdleSlotCorrect follow from it.
ReportIsFinalCorrect is an action property: jobs that are over stay over
(OverStays), and a report other than "processing" means that all are.
OutcomesCorrect: OutcomesAreTrue is not inductive, because a job fails long after the
calls that failed it; OutcomeOf counts them: a memory that exists and is not extracted
has been attempted at most once more often than the processor failed, so a job at its
last attempt has met as many failures. QueueServesJobs, `Spec => ServesJobs`, has one
lemma for each way a job moves (SubmitRefines, StartRefines, EndRefines, RunRefines)
over PlaceKept, which says when a step leaves the place of a job alone.

**CloudSyncProofs.** SyncTypeCorrect is type correctness.

- SyncedCorrect. BackupInv says what carries the promise from the cloud's write
  to the mark: every row in the id map, every item a request has done or is
  about to link, and every item a client is about to mark has its content in the
  cloud. LocalGrows and CloudGrows (no step removes a row or changes a hash or an
  origin) keep it. For the branch of a pull that writes a changed hash this takes LinkInv:
  whatever is linked has one hash, a row and the cloud row its map entry names
  (SameContent), what a request has looked up (RequestLinked), what a pull has read with
  a local id (ItemLinked). Nothing in the proof limits the number of pushes that overlap.
- CopiesCorrect: where the cloud works on one batch at a time (no two members of
  Requests), `Spec => []NoDuplicateCopies`. CopyInv holds without that assumption: for
  each content, copies that were pushed plus requests that found none and are about to
  write one are at most Cardinality(Requests). A request joins the creators only while
  there is no copy, and leaves when it writes one. The assumption is not true of the
  cloud; `cloud_sync_overlap` shows what happens without it.

**MemoryMergeProofs.** MergeTypeCorrect, MergeRecoverable, MergeApproved. Recoverable is
not inductive: whether hiding a row is safe depends on what the merge did before.
ActInv says it of every actor: between the event and the hiding it holds an event
that names the same rows and has not been rolled back, or was overtaken (HoldsEvent);
a rollback has brought back all but what is left on its list (RollsBack); a merge that
goes on to decide a candidate has recorded an event about exactly its memories.

MergeKeepsLedger: `Spec => KeepsLedger`. LedgerInv adds to it what an actor carries from
one step to the next: a group of at least two memories, from whatever queued or
chose it (Several, TwoAreSeveral), the text of its event until it has written it, and
that a rollback goes on to the survivor only when the event changed it. It rests on
EventsKept (a recorded event keeps its text) and CandidatesKept. Then only six
actions touch rows or events, and each is one action of the ledger (RecordEnters,
UpdateRewrites, AbsorbHides, RestoreReturns, RevertTakesBack, UndoCancels).

**DreamCycleProofs.** Five invariants, joined in IInv, each for one property:
TraceInv (HiddenHasEvent, MergedWasMerged): the event precedes the hiding; RecordInv
(CompletedHasEnded): only the stage a run is in may be recorded as started, and
leaving it writes the record or ends the run; BudgetInv (BudgetOfRun): what was spent
is what was counted, what the stage at work will report, and what was lost; AloneInv
(MergedIsReachable): while pending stages do not overlap, the pair that is merged is
live when it is hidden, so no closed set of hidden memories arises; StandInv, which
relates a flow to its job, is part of the types.

**RecallProofs.** IInv says for each place the request can be at what the lists may
hold: SeenInv (what was read live is in `seen`), StageInv (which list is filled
where), FitInv (the filters each source left), OnceInv, KeywordInv (the exact hits
are in the list until the cut, one of them after it) and LimitInv, whose counting
needs that Memory is finite. The rescue is the interesting case: hits dropped by the
cut come back in front, so the second cut keeps one of them, or all were kept before.

Only model-checked: the liveness properties (EventuallySettled, EventuallyOver,
SyncTerminates), since fairness is beyond the prover. The invariants of the proofs
that TLC can enumerate (EmbedInv, SerialInv, SlotInv, BudgetInv, BackupInv, CopyInv, LinkInv,
OutcomeOf, LedgerInv) were checked on small instances first. Of the properties that are violated
(section 6), DuplicatesHaveSurvivor and NoDuplicateCopies are theorems under the
assumption the violating run drops; VectorMatchesText, UndoneTextIsGone and PullAppliesDeletions
would need another program.

## 6. Where the code and its documents disagree

| Run | The code | The document |
|-----|----------|--------------|
| `pipeline_dedup_race` | Two slots deduplicate two similar memories at once; each becomes a DUPLICATE of the other and no search returns either. | `embedding-queue.processor.ts:184`: the new memory is linked "to the surviving memory" |
| `pipeline_edit` | The job carries the first text; its vector may be stored after that of an edit. | `memory-core.controller.ts:271`: "Triggers re-embedding if content changes." |
| `cloud_sync_overlap` | Lookup and create of a pushed memory are not atomic and nothing makes contents unique; two batches that are ingested together both create a copy. | `apps/api/specs/cloud-sync-v2.md:437`: "don't create duplicate"; `:595`: "update, don't create" |
| `cloud_sync_tombstone` | The hash check finds the live memory the tombstone is about and skips the item. | `cloud-sync-v2.md:567`: "Local marks its copy as soft-deleted"; the test at `cloud-sync-pull.service.spec.ts:127` uses a tombstone without a hash |
| `merge_undo` | A merge preserves the texts of the absorbed rows only; the survivor's own is overwritten and kept nowhere, so the rollback of a first merge leaves the text a reviewer wrote. | `deduplication/lineage.service.ts:213`: "Find survivor's pre-merge content from a previous merge event or use original" |

Seen while modelling, and not made a run:

- Discovery stops at a page with nothing new (`memory-pipeline.service.ts:412`), and
  rows whose attempts are exhausted stay in the map and can hide older ones for ever, once
  they fill a page, although the comment at `:378-379` says "Loop in pages until no new
  records are found so bulk ingest failures don't get capped at the first 100 rows".
  It is the second excuse of EventuallySettled.
- A pull updates no row either: `contentHash` does not change with an edit, so the check
  at `cloud-sync-pull.service.ts:84` skips a row that was edited in the cloud before the
  branch at `:112` ("Update existing local memory"), which the test at
  `cloud-sync-pull.service.spec.ts:181` reaches with a hash that differs. Edits made on
  the instance are not pushed again. The model has no texts, so no run shows it.
- The job of `remember` is queued inside the request's transaction; a worker that is
  faster than the commit drops it, and the row is embedded by the sweep but never
  extracted.
- The batch endpoint submits fresh memory ids and nothing creates their rows
  (`memory-core.controller.ts:130`): the job uses up its attempts and fails, which is the
  exception OutcomesAreTrue makes.
- `merge` takes rows that are hidden already (`merge.service.ts:100`), which the scan
  would not propose.
- The lock of the dream cycle (`consolidation/dream-cycle.service.ts:121`) is granted
  twice to a session, and the queued flow does not take it: two pending stages may
  overlap and hide two memories behind each other.
- A queued flow gives every stage the whole LLM budget: the cursor of a job never
  holds what earlier stages used.
- The rescue puts missing keyword hits in front, where they can displace another
  exact hit; the comment at `memory-query.service.ts:720` promises more than
  KeywordHitReturned.
- With several queries `filterAgentId`, the dates and the layers (for insights) have
  no effect, although `memory/dto/query-memory.dto.ts:191` says "Filter recalled
  memories by the agent that created them".
- `layers` and pools filter the vector search alone; graph results and anticipated
  memories pass no scope filter; the wider windows of a time expression drop the
  dates of the request. Two anticipatory strategies may add the same memory, which
  is why NoTwice says nothing of the extras among themselves.

## 7. What is not modelled

Ranking, scoring, extraction and everything a language model decides are values
chosen nondeterministically or left out: their correctness is not a question of
states and steps. Parsers, the dashboard and the client packages keep no shared
state. Row-level security is represented by the transactions it causes, not by
its policies. The table in section 1 says of each remaining part why it has no
module. Of the modelled components `PROJECT.json` names what each leaves out:
correction and supersession, usage counters and pools in the write path; edits, the full
reconciliation and the linking of instances in cloud sync; the size limit of a batch
in the batch queue; the scan for clusters in the merging; what the stages of the dream
cycle other than pending compute; `loadContext` and the access counters in retrieval.

The components meet in the rows. Each module has the writes of the others that its
properties depend on: Recall has `Delete`, `MarkDuplicate`, `CompleteDuplicate` and
`Restore`; the pipeline has edits and deletions but not the merges, which hide rows
without touching status or vector except at `deduplication/lineage.service.ts:99`.

## 8. Plan

In the order of their weight:

1. **DelegationContract**: the contract state machine with its checks before
   updates, and the trust counters; the documented transitions as abstract
   specification.
2. Correction with supersession, and the usage counters, in the write path.
3. The full reconciliation of cloud sync, which should repair what a pull misses.
4. **Breaker** of the embedding client, composed with the sweeps of the pipeline;
   manual ensemble jobs that overlap.
5. The incremental ingestion and the daily budget of `apps/code-api`.

Each gets a type invariant, the safety and liveness properties its hazards call
for, a passing run with small bounds, and theorems for the safety properties. The
modules keep to recursive functions and set operators so that they can be
proved about.
