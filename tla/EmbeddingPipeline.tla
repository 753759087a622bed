------------------------- MODULE EmbeddingPipeline -------------------------
(***************************************************************************)
(* The path of a memory from its insertion to a searchable vector:         *)
(* MemoryWriteService.remember inserts the row and puts a job on the       *)
(* BullMQ queue "memory-embedding"; EmbeddingQueueProcessor workers run    *)
(* MemoryPipelineService.extractAndEmbed and the post-embed dedup;         *)
(* retryFailedEmbeddings and EmbeddingRetryService sweep up what was left  *)
(* behind; MemoryLifecycleService edits and deletes rows meanwhile.        *)
(*                                                                         *)
(* Every step below is the code between two awaits.  Postgres and Redis    *)
(* survive a restart of the API process, everything in "act" and "retry"   *)
(* does not.  RlsInterceptor runs a request that carries an account in one *)
(* Postgres transaction, committed when its handler returns; a request     *)
(* without one, the workers and the cron write row by row.                 *)
(***************************************************************************)
EXTENDS Naturals, FiniteSets

CONSTANTS
    MaxMemories,       \* rows are numbered in the order of created_at
    Workers,           \* slots of the BullMQ worker (concurrency: 2)
    Retriers,          \* concurrent calls of retryFailedEmbeddings
    Healers,           \* concurrent calls of retryPendingEmbeddings
    Editors,           \* concurrent PATCH requests
    MaxAttempts,       \* BullMQ attempts of one job (3)
    MaxStalls,         \* times BullMQ delivers a stalled job again (1)
    MaxRetryAttempts,  \* MAX_RETRY_ATTEMPTS (5)
    PageSize,          \* PAGE_SIZE of the discovery query (100)
    HealBatch,         \* batchSize of EmbeddingRetryService (20)
    HealFailLimit,     \* failures that end a healing batch (3)
    MaxEdits,          \* bound: edits of one memory's text
    MaxDeletes,        \* bound: deleted memories
    MaxFailures,       \* bound: failed calls of the embedder or the database
    MaxRestarts        \* bound: restarts of the API process

Actors == Workers \cup Retriers \cup Healers \cup Editors

ASSUME BoundsAssumption ==
    /\ MaxMemories \in Nat /\ MaxEdits \in Nat /\ MaxDeletes \in Nat
    /\ MaxFailures \in Nat /\ MaxRestarts \in Nat
ASSUME LimitsAssumption ==
    /\ MaxAttempts \in Nat \ {0} /\ MaxStalls \in Nat
    /\ MaxRetryAttempts \in Nat \ {0} /\ PageSize \in Nat \ {0}
    /\ HealBatch \in Nat \ {0} /\ HealFailLimit \in Nat \ {0}
ASSUME ActorsAssumption ==
    /\ Workers \cap (Retriers \cup Healers \cup Editors) = {}
    /\ Retriers \cap (Healers \cup Editors) = {}
    /\ Healers \cap Editors = {}

Memory  == 1..MaxMemories
Version == 0..MaxEdits            \* successive texts of one memory
NoMemory == 0                     \* SQL NULL in is_duplicate_of
NoVector == MaxEdits + 1          \* no row in memory_embeddings

VARIABLES
    row,      \* Postgres: the memories table with its vector and extraction
    job,      \* Redis: the embedding job of each memory
    retry,    \* heap: embeddingRetryQueue, keyed by memory
    act,      \* heap: what each worker, sweep or request is doing
    failures, \* calls of the embedder or database that failed so far
    restarts  \* restarts so far

vars == <<row, job, retry, act, failures, restarts>>

Statuses == {"absent", "uncommitted", "PENDING", "COMPLETE", "FAILED", "DUPLICATE"}
Column == {"null", "set"}         \* a nullable column whose value does not matter
Row == [status: Statuses, embeddingId: Column, vector: Version \cup {NoVector},
        text: Version, extraction: Column, deletedAt: Column,
        dupOf: Memory \cup {NoMemory}]
Job == [state: {"none", "submitting", "waiting", "active", "done", "failed", "lost"},
        attempts: Nat, stalls: 0..MaxStalls]
Entry == [state: {"absent", "queued"}, raw: Version, attempts: Nat]
PCs == {"idle", "extract", "embed", "mark", "unqueue", "search", "markdup",
        "discover", "page", "next"}
Todo == Memory \X Version        \* a row as a sweep read it, or has still to embed it
\* lost: the job of a worker was given to another slot; page: of a discovery.
Act == [pc: PCs, m: Memory \cup {NoMemory}, raw: Version, lost: BOOLEAN,
        match: Memory \cup {NoMemory}, page: Nat, batch: SUBSET Todo,
        misses: 0..HealFailLimit]

NoRow   == [status |-> "absent", embeddingId |-> "null", vector |-> NoVector, text |-> 0,
            extraction |-> "null", deletedAt |-> "null", dupOf |-> NoMemory]
NoEntry == [state |-> "absent", raw |-> 0, attempts |-> 0]
Idle    == [pc |-> "idle", m |-> NoMemory, raw |-> 0, lost |-> FALSE,
            match |-> NoMemory, page |-> 0, batch |-> {}, misses |-> 0]

Init ==
    /\ row = [m \in Memory |-> NoRow]
    /\ job = [m \in Memory |-> [state |-> "none", attempts |-> 0, stalls |-> 0]]
    /\ retry = [m \in Memory |-> NoEntry]
    /\ act = [a \in Actors |-> Idle]
    /\ failures = 0
    /\ restarts = 0

Exists(m) == row[m].status \notin {"absent", "uncommitted"}
Live(m)   == Exists(m) /\ row[m].deletedAt = "null"

\* A call of the embedder or the database fails.
Failing == failures < MaxFailures /\ failures' = failures + 1

\* Both catch blocks write FAILED on a best effort: an error of the update is dropped.
MarkFailed(m) == row' = [row EXCEPT ![m].status = "FAILED"] \/ UNCHANGED row

-----------------------------------------------------------------------------
(* The write path: remember, then update and delete of the lifecycle.      *)

\* memory.create: the row commits at once, or with the request's transaction;
\* the request goes on to enqueueEmbedding.
Create(m) ==
    /\ job[m].state = "none"
    /\ \A n \in Memory : n < m => job[n].state # "none"
    /\ \E s \in {"PENDING", "uncommitted"} : row' = [row EXCEPT ![m].status = s]
    /\ job' = [job EXCEPT ![m].state = "submitting"]
    /\ UNCHANGED <<retry, act, failures, restarts>>

Enqueue(m) ==
    /\ job[m].state = "submitting"
    /\ job' = [job EXCEPT ![m].state = "waiting"]
    /\ UNCHANGED <<row, retry, act, failures, restarts>>

\* What an aborted transaction leaves of a table.
RolledBack(t) ==
    [m \in Memory |-> IF t[m].status = "uncommitted" THEN [t[m] EXCEPT !.status = "absent"]
                                                     ELSE t[m]]

\* Redis refuses the job: remember rejects, a committed row has no job.
EnqueueFails(m) ==
    /\ job[m].state = "submitting"
    /\ Failing
    /\ job' = [job EXCEPT ![m].state = "lost"]
    /\ row' = [row EXCEPT ![m] = RolledBack(row)[m]]
    /\ UNCHANGED <<retry, act, restarts>>

\* The handler returned: the transaction commits, after the job was queued.
Commit(m) ==
    /\ row[m].status = "uncommitted" /\ job[m].state # "submitting"
    /\ row' = [row EXCEPT ![m].status = "PENDING"]
    /\ UNCHANGED <<job, retry, act, failures, restarts>>

\* The transaction times out or its commit fails: the job stays behind.
CommitFails(m) ==
    /\ row[m].status = "uncommitted" /\ job[m].state # "submitting"
    /\ Failing
    /\ row' = [row EXCEPT ![m] = RolledBack(row)[m]]
    /\ UNCHANGED <<job, retry, act, restarts>>

Delete(m) ==
    /\ Live(m)
    /\ Cardinality({n \in Memory : row[n].deletedAt = "set"}) < MaxDeletes
    /\ row' = [row EXCEPT ![m].deletedAt = "set"]
    /\ UNCHANGED <<job, retry, act, failures, restarts>>

\* update without an account: the new text commits before the re-embedding.
Edit(e, m) ==
    /\ act[e].pc = "idle"
    /\ Live(m) /\ row[m].text < MaxEdits
    /\ row' = [row EXCEPT ![m].text = @ + 1]
    /\ act' = [act EXCEPT ![e] = [Idle EXCEPT !.pc = "embed", !.m = m,
                                              !.raw = row[m].text + 1]]
    /\ UNCHANGED <<job, retry, failures, restarts>>

\* update in a transaction: text and vector commit together, or nothing does.
EditCommits(e, m) ==
    /\ act[e].pc = "idle"
    /\ Live(m) /\ row[m].text < MaxEdits
    /\ LET text == row[m].text + 1
       IN  row' = [row EXCEPT ![m] = [@ EXCEPT !.text = text, !.vector = text]]
    /\ UNCHANGED <<job, retry, act, failures, restarts>>

\* The request answers 500; neither status nor vector records the failure.
EditFails(e) ==
    /\ act[e].pc = "embed"
    /\ Failing
    /\ act' = [act EXCEPT ![e] = Idle]
    /\ UNCHANGED <<row, job, retry, restarts>>

-----------------------------------------------------------------------------
(* EmbeddingQueueProcessor.process                                         *)

\* A job that is over; what it counted is of no more use.
Ended(s) == [state |-> s, attempts |-> 0, stalls |-> 0]

\* The worker takes a job; a row it does not see, deleted or already processed
\* ends it.
Take(w, m) ==
    /\ act[w].pc = "idle"
    /\ job[m].state = "waiting"
    /\ IF ~Live(m) \/ row[m].status \in {"COMPLETE", "DUPLICATE"}
       THEN /\ job' = [job EXCEPT ![m] = Ended("done")]
            /\ UNCHANGED act
       ELSE /\ job' = [job EXCEPT ![m].state = "active"]
            /\ act' = [act EXCEPT ![w] = [Idle EXCEPT !.pc = "extract", !.m = m]]
    /\ UNCHANGED <<row, retry, failures, restarts>>

\* A job whose lock expired goes back to the queue, or fails after MaxStalls stalls.
Stalled(j) ==
    IF j.stalls < MaxStalls THEN [j EXCEPT !.state = "waiting", !.stalls = @ + 1]
                            ELSE Ended("failed")

\* The lock of a job is not renewed in time: BullMQ takes the job away from its slot,
\* which does not notice and goes on.
Stall(w) ==
    /\ act[w].pc # "idle" /\ ~act[w].lost
    /\ job' = [job EXCEPT ![act[w].m] = Stalled(job[act[w].m])]
    /\ act' = [act EXCEPT ![w].lost = TRUE]
    /\ UNCHANGED <<row, retry, failures, restarts>>

\* The slot reports record j as the outcome of its job, in vain without the lock.
Report(w, j) == job' = IF act[w].lost THEN job ELSE [job EXCEPT ![act[w].m] = j]

\* The processor returned.
Completes(w) ==
    /\ Report(w, Ended("done"))
    /\ act' = [act EXCEPT ![w] = Idle]

\* Variant: the extraction is upserted, and a second delivery gets past it.
UpsertExtraction(w) ==
    /\ act[w].pc = "extract"
    /\ row' = [row EXCEPT ![act[w].m].extraction = "set"]
    /\ act' = [act EXCEPT ![w].pc = "embed"]
    /\ UNCHANGED <<job, retry, failures, restarts>>

\* memoryExtraction.create: its memory_id is unique.
SaveExtraction(w) ==
    /\ act[w].pc = "extract"
    /\ row[act[w].m].extraction = "null"
    /\ row' = [row EXCEPT ![act[w].m].extraction = "set"]
    /\ act' = [act EXCEPT ![w].pc = "embed"]
    /\ UNCHANGED <<job, retry, failures, restarts>>

\* The catch block: FAILED, and BullMQ runs the job again up to MaxAttempts.
Reject(w) ==
    LET m == act[w].m
        n == job[m].attempts + 1
    IN  /\ MarkFailed(m)
        /\ Report(w, IF n < MaxAttempts THEN [job[m] EXCEPT !.state = "waiting", !.attempts = n]
                                        ELSE Ended("failed"))
        /\ act' = [act EXCEPT ![w] = Idle]
        /\ UNCHANGED <<retry, restarts>>

\* A second attempt collides with the extraction row of the first.
ExtractionExists(w) ==
    /\ act[w].pc = "extract"
    /\ row[act[w].m].extraction = "set"
    /\ UNCHANGED failures
    /\ Reject(w)

\* A write of extractAndEmbed before or after the extraction row throws.
PipelineFails(w) ==
    /\ act[w].pc \in {"extract", "embed"}
    /\ Failing
    /\ Reject(w)

\* Variants: the search returns the memory itself, or rows marked DUPLICATE.
CandidatesWithSelf(m) == {n \in Memory : Live(n) /\ row[n].vector # NoVector
                                         /\ row[n].status # "DUPLICATE"}
CandidatesUnfiltered(m) == {n \in Memory \ {m} : Live(n) /\ row[n].vector # NoVector}

\* Variant: rows without a vector are candidates too.
CandidatesUnembedded(m) == {n \in Memory \ {m} : Live(n) /\ row[n].status # "DUPLICATE"}

\* findDuplicateV2: any live row with a vector that is not DUPLICATE.
Candidates(m) == {n \in Memory \ {m} : /\ Live(n)
                                       /\ row[n].vector # NoVector
                                       /\ row[n].status # "DUPLICATE"}

MatchFound(w) ==
    /\ act[w].pc = "search"
    /\ \E n \in Candidates(act[w].m) :
          act' = [act EXCEPT ![w] = [@ EXCEPT !.pc = "markdup", !.match = n]]
    /\ UNCHANGED <<row, job, retry, failures, restarts>>

\* Nothing similar enough, or the check threw and was swallowed.
NoMatch(w) ==
    /\ act[w].pc = "search"
    /\ Completes(w)
    /\ UNCHANGED <<row, retry, failures, restarts>>

\* The survivor is reinforced, the new row marked; the job completes.
MarkDuplicate(w) ==
    /\ act[w].pc = "markdup"
    /\ row' = [row EXCEPT ![act[w].m] =
                 [@ EXCEPT !.status = "DUPLICATE", !.dupOf = act[w].match]]
    /\ Completes(w)
    /\ UNCHANGED <<retry, failures, restarts>>

MarkDuplicateFails(w) ==
    /\ act[w].pc = "markdup"
    /\ Failing
    /\ Completes(w)
    /\ UNCHANGED <<row, retry, restarts>>

-----------------------------------------------------------------------------
(* generateAndStoreEmbedding, called by workers and retriers.              *)

\* Where a caller goes once it is through with a memory: a worker to the dedup,
\* a sweep to the next entry of its batch.
Resume(a) ==
    IF a \in Workers THEN [act[a] EXCEPT !.pc = "search"]
    ELSE IF act[a].batch = {} THEN Idle
    ELSE [act[a] EXCEPT !.pc = "next", !.m = NoMemory, !.raw = 0]

\* Variant: the upsert matches no row and reports success.
EmbedStoresNothing(a) ==
    /\ act[a].pc = "embed"
    /\ act' = IF a \in Editors THEN [act EXCEPT ![a] = Idle]
                               ELSE [act EXCEPT ![a].pc = "mark"]
    /\ UNCHANGED <<row, job, retry, failures, restarts>>

\* generate and store; healers and editors run the same two calls.
Embed(a) ==
    /\ act[a].pc = "embed"
    /\ row' = [row EXCEPT ![act[a].m].vector = act[a].raw]
    /\ act' = IF a \in Editors THEN [act EXCEPT ![a] = Idle]
                               ELSE [act EXCEPT ![a].pc = "mark"]
    /\ UNCHANGED <<job, retry, failures, restarts>>

\* The status becomes COMPLETE whatever it was.
Mark(a) ==
    /\ act[a].pc = "mark"
    /\ row' = [row EXCEPT ![act[a].m] =
                 [@ EXCEPT !.status = "COMPLETE", !.embeddingId = "set"]]
    /\ act' = [act EXCEPT ![a].pc = "unqueue"]
    /\ UNCHANGED <<job, retry, failures, restarts>>

\* After linkRelatedMemories the entry, if any, leaves the retry map.
Unqueue(a) ==
    /\ act[a].pc = "unqueue"
    /\ retry' = [retry EXCEPT ![act[a].m] = NoEntry]
    /\ act' = [act EXCEPT ![a] = Resume(a)]
    /\ UNCHANGED <<row, job, failures, restarts>>

\* The catch block: FAILED in the row, one more attempt in the retry map.
EmbedFails(a) ==
    /\ act[a].pc \in {"embed", "mark"}
    /\ Failing
    /\ MarkFailed(act[a].m)
    /\ retry' = [retry EXCEPT ![act[a].m] =
                   [state |-> "queued", raw |-> act[a].raw, attempts |-> @.attempts + 1]]
    /\ act' = [act EXCEPT ![a] = Resume(a)]
    /\ UNCHANGED <<job, restarts>>

-----------------------------------------------------------------------------
(* retryFailedEmbeddings: the cron every five minutes, or an operator.     *)

\* Variant: discovery trusts embedding_id alone.
UnembeddedById == {m \in Memory : Live(m) /\ row[m].embeddingId = "null"}

Unembedded == {m \in Memory : /\ Live(m)
                              /\ \/ row[m].embeddingId = "null"
                                 \/ row[m].status \in {"FAILED", "PENDING"}}

\* Page p of the discovery query, newest first, at the moment it is read.
Page(p) == {m \in Unembedded : Cardinality({n \in Unembedded : n > m}) \div PageSize = p}

\* One query for each page, by an offset: rows that leave Unembedded while the pages
\* are read move the rest to earlier places.
ReadPage(r) ==
    /\ act[r].pc \in {"idle", "discover"}
    /\ act' = [act EXCEPT ![r] = [@ EXCEPT !.pc = "page",
                                     !.batch = {<<m, row[m].text>> : m \in Page(act[r].page)}]]
    /\ UNCHANGED <<row, job, retry, failures, restarts>>

DiscoverFails(r) ==
    /\ act[r].pc = "discover"
    /\ Failing
    /\ act' = [act EXCEPT ![r] = Idle]
    /\ UNCHANGED <<row, job, retry, restarts>>

\* Variant: the entry records the stored vector instead of the text.
NewEntryWithVector(e) == [state |-> "queued", raw |-> row[e[1]].vector, attempts |-> 0]

NewEntry(e) == [state |-> "queued", raw |-> e[2], attempts |-> 0]

\* The rows of the page that are new to the map.
NewInPage(r) == {e \in act[r].batch : retry[e[1]].state = "absent"}

\* Variant: one attempt too many.
AttemptsLeftOffByOne(entry) == entry.state = "queued" /\ entry.attempts <= MaxRetryAttempts
AttemptsLeft(entry) == entry.state = "queued" /\ entry.attempts < MaxRetryAttempts

\* A copy of the entries that have attempts left.
Entries(q) == {<<m, q[m].raw>> : m \in {n \in Memory : AttemptsLeft(q[n])}}
Sweep(todo) == IF todo = {} THEN Idle ELSE [Idle EXCEPT !.pc = "next", !.batch = todo]

\* The new rows of the page enter the map.  A page that is not full or brings nothing
\* new is the last, and the map is copied; else the next one is to be read.
QueuePage(r) ==
    /\ act[r].pc = "page"
    /\ retry' = [m \in Memory |-> IF \E e \in NewInPage(r) : e[1] = m
                                  THEN NewEntry(CHOOSE e \in NewInPage(r) : e[1] = m)
                                  ELSE retry[m]]
    /\ act' = [act EXCEPT ![r] =
                  IF Cardinality(act[r].batch) < PageSize \/ NewInPage(r) = {}
                  THEN Sweep(Entries(retry'))
                  ELSE [Idle EXCEPT !.pc = "discover", !.page = act[r].page + 1]]
    /\ UNCHANGED <<row, job, failures, restarts>>

\* The next entry of a batch, for retriers and healers.
Pick(a) ==
    /\ act[a].pc = "next"
    /\ \E e \in act[a].batch :
          act' = [act EXCEPT ![a] = [@ EXCEPT !.pc = "embed", !.m = e[1], !.raw = e[2],
                                            !.batch = act[a].batch \ {e}]]
    /\ UNCHANGED <<row, job, retry, failures, restarts>>

-----------------------------------------------------------------------------
(* EmbeddingRetryService.retryPendingEmbeddings                            *)

Unhealed == {m \in Memory : Live(m) /\ row[m].embeddingId = "null"}

HealStart(h) ==
    /\ act[h].pc = "idle"
    /\ LET todo == {<<m, row[m].text>> : m \in {n \in Unhealed :
                       Cardinality({k \in Unhealed : k > n}) < HealBatch}}
       IN  /\ todo # {}
           /\ act' = [act EXCEPT ![h] = [Idle EXCEPT !.pc = "next", !.batch = todo]]
    /\ UNCHANGED <<row, job, retry, failures, restarts>>

\* Only embedding_id is written: the status stays what it was.
Healed(h) ==
    /\ act[h].pc = "mark"
    /\ row' = [row EXCEPT ![act[h].m].embeddingId = "set"]
    /\ act' = [act EXCEPT ![h] = Resume(h)]
    /\ UNCHANGED <<job, retry, failures, restarts>>

HealFails(h) ==
    /\ act[h].pc \in {"embed", "mark"}
    /\ Failing
    /\ act' = [act EXCEPT ![h] =
                  IF act[h].batch = {} \/ act[h].misses + 1 >= HealFailLimit THEN Idle
                  ELSE [Resume(h) EXCEPT !.misses = act[h].misses + 1]]
    /\ UNCHANGED <<row, job, retry, restarts>>

-----------------------------------------------------------------------------
\* The API process restarts and its open transactions abort.  The jobs
\* of the workers that died with it are stalled.
Restart ==
    /\ restarts < MaxRestarts
    /\ restarts' = restarts + 1
    /\ act' = [a \in Actors |-> Idle]
    /\ retry' = [m \in Memory |-> NoEntry]
    /\ job' = [m \in Memory |->
                 CASE job[m].state = "submitting" -> [job[m] EXCEPT !.state = "lost"]
                   [] job[m].state = "active" -> Stalled(job[m])
                   [] OTHER -> job[m]]
    /\ row' = RolledBack(row)
    /\ UNCHANGED failures

-----------------------------------------------------------------------------
WorkerStep(w) ==
    \/ \E m \in Memory : Take(w, m)
    \/ SaveExtraction(w) \/ ExtractionExists(w) \/ PipelineFails(w)
    \/ Embed(w) \/ Mark(w) \/ Unqueue(w) \/ EmbedFails(w)
    \/ MatchFound(w) \/ NoMatch(w) \/ MarkDuplicate(w) \/ MarkDuplicateFails(w)

RetrierStep(r) ==
    \/ ReadPage(r) \/ DiscoverFails(r) \/ QueuePage(r) \/ Pick(r)
    \/ Embed(r) \/ Mark(r) \/ Unqueue(r) \/ EmbedFails(r)

HealerStep(h) == HealStart(h) \/ Pick(h) \/ Embed(h) \/ Healed(h) \/ HealFails(h)

EditorStep(e) ==
    \/ \E m \in Memory : Edit(e, m) \/ EditCommits(e, m)
    \/ Embed(e) \/ EditFails(e)

Post(m) == Create(m) \/ Enqueue(m) \/ EnqueueFails(m) \/ Commit(m) \/ CommitFails(m)

Next ==
    \/ \E m \in Memory : Post(m) \/ Delete(m)
    \/ \E w \in Workers : WorkerStep(w) \/ Stall(w)
    \/ \E r \in Retriers : RetrierStep(r)
    \/ \E h \in Healers : HealerStep(h)
    \/ \E e \in Editors : EditorStep(e)
    \/ Restart

Spec == Init /\ [][Next]_vars

\* The worker takes the jobs on the queue and finishes what it starts, and the
\* cron fires for ever; requests, restarts and failures owe nobody anything.
Fairness ==
    /\ \A w \in Workers : WF_vars(WorkerStep(w))
    /\ \A r \in Retriers : WF_vars(RetrierStep(r))
    /\ \A m \in Memory : WF_vars(Enqueue(m))

FairSpec == Spec /\ Fairness

-----------------------------------------------------------------------------
(* Properties                                                              *)

\* Every variable stays in its type.
TypeOK ==
    /\ row \in [Memory -> Row]
    /\ job \in [Memory -> Job]
    /\ retry \in [Memory -> Entry]
    /\ act \in [Actors -> Act]
    /\ failures \in 0..MaxFailures
    /\ restarts \in 0..MaxRestarts

\* A row reported COMPLETE can be found: its vector was stored before the
\* status was written, and no failure of a concurrent sweep takes it away.
CompleteIsSearchable ==
    \A m \in Memory : row[m].status = "COMPLETE" =>
        row[m].embeddingId = "set" /\ row[m].vector # NoVector

\* The row a duplicate points at is another row that had been embedded, so the
\* text that is hidden was representable by a vector that exists.
DuplicatePointsAtEmbedded ==
    \A m \in Memory : row[m].dupOf # NoMemory =>
        row[m].dupOf # m /\ row[row[m].dupOf].vector # NoVector

\* Rows hidden as DUPLICATE are never hidden behind each other: no set of them
\* is closed under isDuplicateOf, so every chain ends in a row not DUPLICATE.
DuplicatesHaveSurvivor ==
    \A S \in SUBSET Memory :
        (/\ S # {}
         /\ \A m \in S : row[m].status = "DUPLICATE") => \E m \in S : row[m].dupOf \notin S

\* Slot w is past the extraction of m.
Embedding(w, m) ==
    act[w].m = m /\ act[w].pc \in {"embed", "mark", "unqueue", "search", "markdup"}

\* A job that stalls is delivered again while its first slot still runs, and nothing in
\* the processor knows of the other slot.  All the same no two slots embed or
\* deduplicate one memory: only one delivery gets past the unique extraction row.
OneSlotEmbeds ==
    \A m \in Memory : \A v, w \in Workers : Embedding(v, m) /\ Embedding(w, m) => v = w

\* What SearchableMemory reports of a row r: an uncommitted row has not been
\* accepted, and FAILED is pending until a sweep succeeds.
Reported(r) ==
    CASE r.status \in {"absent", "uncommitted"} -> "absent"
      [] r.status \in {"PENDING", "FAILED"} -> "pending"
      [] r.status = "COMPLETE" -> "complete"
      [] r.status = "DUPLICATE" -> "hidden"

Promise == INSTANCE SearchableMemory WITH
    state   <- [m \in Memory |-> Reported(row[m])],
    indexed <- {m \in Memory : row[m].vector # NoVector},
    behind  <- [m \in Memory |-> row[m].dupOf],
    deleted <- {m \in Memory : row[m].deletedAt = "set"}

\* Workers, sweeps, healers, edits, failures and restarts together implement the
\* promise to callers: no step reports a memory complete that is not indexed, hides
\* one behind itself or behind one without a vector, loses a vector or revives a
\* deleted row.
KeepsPromise == Promise!Spec

\* The sweep never runs an embedding more often than its cap allows: beyond it
\* at most one failure of each concurrent sweep or of the job's own worker.
RetryBudget ==
    \A m \in Memory : retry[m].attempts <= MaxRetryAttempts + Cardinality(Retriers)

\* Once the text of a row is not being edited or embedded and its job and
\* retries are over, the vector is the vector of the current text.
VectorMatchesText ==
    \A m \in Memory :
        (/\ row[m].status = "COMPLETE"
         /\ job[m].state \in {"done", "failed", "lost"}
         /\ \A a \in Actors : act[a].m # m \/ act[a].pc = "idle")
        => row[m].vector = row[m].text

Exhausted(m) == retry[m].attempts >= MaxRetryAttempts
Settled(m)   == row[m].deletedAt = "set" \/ row[m].status \in {"COMPLETE", "DUPLICATE"}

\* A full page of newer rows that are given up: discovery does not look behind it.
Buried(m) == Cardinality({n \in Unembedded : n > m /\ Exhausted(n)}) >= PageSize

\* Whatever fails, stalls or restarts on the way, and however the pages of a sweep shift
\* while it reads them, every created row ends COMPLETE, DUPLICATE or deleted and stays
\* so, unless its own retries are exhausted or it is buried.
EventuallySettled ==
    \A m \in Memory : <>[](Exists(m) => Settled(m) \/ Exhausted(m) \/ Buried(m))
=============================================================================
