--------------------------- MODULE MemoryJobQueue ---------------------------
(***************************************************************************)
(* MemoryJobQueueService, the in-process queue behind the asynchronous     *)
(* batch and import endpoints, with MemoryJobProcessorService.processJob   *)
(* as its processor.                                                       *)
(*                                                                         *)
(* Node runs one callback at a time and drains the promises it settled     *)
(* before the next: a call of runJob that returns runs its finally in the  *)
(* same step, and while the loop of processNext runs ("scheduling") no     *)
(* other action can.  Everything lives on the heap, except the memory rows *)
(* the jobs are about.                                                     *)
(***************************************************************************)
EXTENDS Naturals, Sequences, FiniteSets

CONSTANTS
    Job,          \* jobs that may be submitted
    Batch,        \* batches that may be submitted
    Concurrency,  \* concurrency (3)
    MaxAttempts,  \* maxAttempts of a job (3)
    MaxFailures   \* bound: calls of the processor that fail for no lasting reason

ASSUME QueueAssumption ==
    /\ Concurrency \in Nat \ {0}
    /\ MaxAttempts \in Nat \ {0}
    /\ MaxFailures \in Nat
    /\ IsFiniteSet(Job)

VARIABLES
    pendingJobs,  \* FIFO of jobs waiting for a slot
    scheduling,   \* _scheduling: the loop of processNext is running
    activeCount,  \* slots taken
    phase,        \* where the call runJob(job) is
    status,       \* job.status as getBatchStatus sees it
    attempts,     \* job.attempts
    batches,      \* the map of batches: the jobs of each, {} when absent
    memory,       \* Postgres: the row the job names, as the processor reaches it
    shutdown,     \* shutdownRequested
    failures      \* failures so far

vars == <<pendingJobs, scheduling, activeCount, phase, status, attempts, batches, memory,
          shutdown, failures>>

Phases == {"none", "processing", "backoff"}
Statuses == {"unsubmitted", "pending", "extracting", "completed", "failed"}
MemoryRow == {"unreachable", "bare", "extracted"}

Init ==
    /\ pendingJobs = <<>>
    /\ scheduling = FALSE
    /\ activeCount = 0
    /\ phase = [j \in Job |-> "none"]
    /\ status = [j \in Job |-> "unsubmitted"]
    /\ attempts = [j \in Job |-> 0]
    /\ batches = [b \in Batch |-> {}]
    /\ memory \in [Job -> MemoryRow]
    /\ shutdown = FALSE
    /\ failures = 0

\* The orders in which one request may list the memories of S.
Orders(S) ==
    LET place == 1..Cardinality(S)
    IN  {f \in [place -> S] : \A j \in S : \E i \in place : \A k \in place : f[k] = j <=> k = i}

-----------------------------------------------------------------------------
\* createBatch: all jobs are queued, then the loop starts.
CreateBatch(b) ==
    /\ ~scheduling
    /\ batches[b] = {}
    /\ \E S \in SUBSET {j \in Job : status[j] = "unsubmitted"} \ {{}} :
          /\ \E order \in Orders(S) : pendingJobs' = pendingJobs \o order
          /\ status' = [j \in Job |-> IF j \in S THEN "pending" ELSE status[j]]
          /\ batches' = [batches EXCEPT ![b] = S]
    /\ scheduling' = TRUE
    /\ UNCHANGED <<activeCount, phase, attempts, memory, shutdown, failures>>

\* enqueueEmbedding: one job, of no batch.
EnqueueEmbedding(j) ==
    /\ ~scheduling
    /\ status[j] = "unsubmitted"
    /\ pendingJobs' = Append(pendingJobs, j)
    /\ status' = [status EXCEPT ![j] = "pending"]
    /\ scheduling' = TRUE
    /\ UNCHANGED <<activeCount, phase, attempts, batches, memory, shutdown, failures>>

\* Variant: the loop does not ask for the shutdown.
MayDispatchAnyway == activeCount < Concurrency /\ pendingJobs # <<>>

\* The guard of the while loop in processNext.
MayDispatch == ~shutdown /\ activeCount < Concurrency /\ pendingJobs # <<>>

\* One turn of the loop: the head job takes a slot, and runJob runs up to its
\* first await.
Dispatch ==
    /\ scheduling
    /\ MayDispatch
    /\ LET j == Head(pendingJobs)
       IN  /\ phase' = [phase EXCEPT ![j] = "processing"]
           /\ attempts' = [attempts EXCEPT ![j] = @ + 1]
           /\ status' = [status EXCEPT ![j] = "extracting"]
    /\ pendingJobs' = Tail(pendingJobs)
    /\ activeCount' = activeCount + 1
    /\ UNCHANGED <<scheduling, batches, memory, shutdown, failures>>

LoopExits ==
    /\ scheduling
    /\ ~MayDispatch
    /\ scheduling' = FALSE
    /\ UNCHANGED <<pendingJobs, activeCount, phase, status, attempts, batches, memory,
                   shutdown, failures>>

\* Variant: the slot is released but the loop is not started again.
ReleaseOnly ==
    /\ activeCount' = activeCount - 1
    /\ UNCHANGED scheduling

\* The finally callback of runJob: the slot is free and the loop starts again.
Release ==
    /\ activeCount' = activeCount - 1
    /\ scheduling' = TRUE

\* Variant: a processor that finds no memory returns as if it had done its work.
CompletesWithout(j) ==
    /\ ~scheduling
    /\ phase[j] = "processing"
    /\ memory[j] \in {"bare", "unreachable"}
    /\ memory' = [memory EXCEPT ![j] = IF @ = "bare" THEN "extracted" ELSE @]
    /\ status' = [status EXCEPT ![j] = "completed"]
    /\ phase' = [phase EXCEPT ![j] = "none"]
    /\ Release
    /\ UNCHANGED <<pendingJobs, attempts, batches, shutdown, failures>>

\* extractAndEmbed returns: also when the embedding itself failed, which it
\* records elsewhere.
Completes(j) ==
    /\ ~scheduling
    /\ phase[j] = "processing"
    /\ memory[j] = "bare"
    /\ memory' = [memory EXCEPT ![j] = "extracted"]
    /\ status' = [status EXCEPT ![j] = "completed"]
    /\ phase' = [phase EXCEPT ![j] = "none"]
    /\ Release
    /\ UNCHANGED <<pendingJobs, attempts, batches, shutdown, failures>>

\* The extraction refers to a memory that must exist and has at most one, and for
\* a user with an account the context it runs in resolves no table: an extracted
\* or unreachable memory fails every attempt; other failures pass.
ProcessorThrows(j) ==
    \/ memory[j] # "bare" /\ UNCHANGED <<memory, failures>>
    \/ /\ memory[j] = "bare" /\ failures < MaxFailures
       /\ failures' = failures + 1
       /\ \E r \in {"bare", "extracted"} : memory' = [memory EXCEPT ![j] = r]

\* Variants: a failed attempt is reported as the failure of the job, gives its
\* slot back for the time of the backoff, or is granted once too often.
FailsReported(j) ==
    /\ ~scheduling
    /\ phase[j] = "processing" /\ attempts[j] < MaxAttempts
    /\ ProcessorThrows(j)
    /\ phase' = [phase EXCEPT ![j] = "backoff"]
    /\ status' = [status EXCEPT ![j] = "failed"]
    /\ UNCHANGED <<pendingJobs, scheduling, activeCount, attempts, batches, shutdown>>
FailsReleased(j) ==
    /\ ~scheduling
    /\ phase[j] = "processing" /\ attempts[j] < MaxAttempts
    /\ ProcessorThrows(j)
    /\ phase' = [phase EXCEPT ![j] = "backoff"]
    /\ Release
    /\ UNCHANGED <<pendingJobs, status, attempts, batches, shutdown>>

FailsOffByOne(j) ==
    /\ ~scheduling
    /\ phase[j] = "processing" /\ attempts[j] <= MaxAttempts
    /\ ProcessorThrows(j)
    /\ phase' = [phase EXCEPT ![j] = "backoff"]
    /\ UNCHANGED <<pendingJobs, scheduling, activeCount, status, attempts, batches, shutdown>>

\* The catch block, with attempts left: the job sleeps, in its slot.
Fails(j) ==
    /\ ~scheduling
    /\ phase[j] = "processing" /\ attempts[j] < MaxAttempts
    /\ ProcessorThrows(j)
    /\ phase' = [phase EXCEPT ![j] = "backoff"]
    /\ UNCHANGED <<pendingJobs, scheduling, activeCount, status, attempts, batches, shutdown>>

\* The catch block of the last attempt.
GivesUp(j) ==
    /\ ~scheduling
    /\ phase[j] = "processing" /\ attempts[j] >= MaxAttempts
    /\ ProcessorThrows(j)
    /\ status' = [status EXCEPT ![j] = "failed"]
    /\ phase' = [phase EXCEPT ![j] = "none"]
    /\ Release
    /\ UNCHANGED <<pendingJobs, attempts, batches, shutdown>>

\* Variants: the retry is queued once more than it should be, or never.
BackoffEndsTwice(j) ==
    /\ ~scheduling
    /\ phase[j] = "backoff"
    /\ pendingJobs' = IF shutdown THEN pendingJobs ELSE pendingJobs \o <<j, j>>
    /\ phase' = [phase EXCEPT ![j] = "none"]
    /\ Release
    /\ UNCHANGED <<status, attempts, batches, memory, shutdown, failures>>
BackoffForgets(j) ==
    /\ ~scheduling
    /\ phase[j] = "backoff"
    /\ phase' = [phase EXCEPT ![j] = "none"]
    /\ Release
    /\ UNCHANGED <<pendingJobs, status, attempts, batches, memory, shutdown, failures>>

\* The timer fires: the job is queued again, unless the process shuts down.
BackoffEnds(j) ==
    /\ ~scheduling
    /\ phase[j] = "backoff"
    /\ pendingJobs' = IF shutdown THEN pendingJobs ELSE Append(pendingJobs, j)
    /\ phase' = [phase EXCEPT ![j] = "none"]
    /\ Release
    /\ UNCHANGED <<status, attempts, batches, memory, shutdown, failures>>

\* cleanupOldBatches forgets a batch older than an hour, finished or not.
Expire(b) ==
    /\ ~scheduling
    /\ batches[b] # {}
    /\ batches' = [batches EXCEPT ![b] = {}]
    /\ UNCHANGED <<pendingJobs, scheduling, activeCount, phase, status, attempts, memory,
                   shutdown, failures>>

\* onModuleDestroy
ShutDown ==
    /\ ~scheduling
    /\ ~shutdown
    /\ shutdown' = TRUE
    /\ UNCHANGED <<pendingJobs, scheduling, activeCount, phase, status, attempts, batches,
                   memory, failures>>

-----------------------------------------------------------------------------
Loop == Dispatch \/ LoopExits
RunJob(j) == Completes(j) \/ Fails(j) \/ GivesUp(j) \/ BackoffEnds(j)

Next ==
    \/ Loop
    \/ \E b \in Batch : CreateBatch(b) \/ Expire(b)
    \/ \E j \in Job : EnqueueEmbedding(j) \/ RunJob(j)
    \/ ShutDown

Spec == Init /\ [][Next]_vars

\* A loop runs to its end, the calls of a job return and its timer fires;
\* nobody has to submit, shut down or wait an hour.
Fairness == WF_vars(Loop) /\ \A j \in Job : WF_vars(RunJob(j))
FairSpec == Spec /\ Fairness

-----------------------------------------------------------------------------
(* Properties                                                              *)

\* Every variable stays in its type.
TypeOK ==
    /\ pendingJobs \in Seq(Job)
    /\ scheduling \in BOOLEAN
    /\ activeCount \in Nat
    /\ phase \in [Job -> Phases]
    /\ status \in [Job -> Statuses]
    /\ attempts \in [Job -> 0..MaxAttempts]
    /\ batches \in [Batch -> SUBSET Job]
    /\ memory \in [Job -> MemoryRow]
    /\ shutdown \in BOOLEAN
    /\ failures \in 0..MaxFailures

Listed(q)   == {q[i] : i \in 1..Len(q)}
Distinct(q) == \A i, k \in 1..Len(q) : q[i] = q[k] => i = k
Running     == {j \in Job : phase[j] # "none"}
Over(j)     == status[j] \in {"completed", "failed"}

\* activeCount is the number of calls of runJob under way, backoff included,
\* and the queue never runs more than its concurrency.
SlotsMatchRunning == activeCount = Cardinality(Running) /\ activeCount <= Concurrency

\* No submitted job is lost or run twice: until it is over it is in exactly one
\* place, waiting in the queue or in a slot; once over it never comes back.
\* Only a shutdown drops a job.
JobsAccounted ==
    /\ Distinct(pendingJobs)
    /\ \A j \in Job :
        /\ status[j] = "unsubmitted" => j \notin Listed(pendingJobs) /\ phase[j] = "none"
        /\ Over(j) => j \notin Listed(pendingJobs) /\ phase[j] = "none"
        /\ j \in Listed(pendingJobs) => phase[j] = "none"
        /\ status[j] \in {"pending", "extracting"} =>
              j \in Listed(pendingJobs) \/ phase[j] # "none" \/ shutdown

\* No wakeup is lost: between two callbacks a job waits only while every slot
\* is taken or the process shuts down.
NoIdleSlot ==
    pendingJobs # <<>> /\ ~scheduling /\ ~shutdown => activeCount = Concurrency

\* What a job came to is true of its memory.  A job is reported completed only when
\* its memory was extracted, so never for a memory that was not there; a job whose
\* memory could have been extracted until the end failed by MaxAttempts failures
\* that would have passed, whatever other jobs, backoffs and shutdown did meanwhile.
OutcomesAreTrue ==
    \A j \in Job :
        /\ status[j] = "completed" => memory[j] = "extracted"
        /\ status[j] = "failed" =>
              attempts[j] = MaxAttempts /\ (memory[j] = "bare" => failures >= MaxAttempts)

\* What getBatchStatus reports of a set of jobs.
Count(S, s) == Cardinality({j \in S : status[j] = s})
Report(S) ==
    LET completed == Count(S, "completed")
        failed    == Count(S, "failed")
    IN  IF completed + failed < Cardinality(S) THEN "processing"
        ELSE IF failed = 0 THEN "completed"
        ELSE IF completed = 0 THEN "failed" ELSE "partial"

\* A batch reported over keeps the report it got, until it expires.
ReportIsFinal ==
    [][\A b \in Batch : batches[b] # {} /\ Report(batches[b]) # "processing" =>
          batches'[b] = {} \/ Report(batches[b])' = Report(batches[b])]_vars

\* Where a submitter of job j may think of it to be.
Place(j) ==
    IF status[j] = "unsubmitted" THEN "new"
    ELSE IF Over(j) THEN status[j]
    ELSE IF phase[j] # "none" THEN "running"
    ELSE IF j \in Listed(pendingJobs) THEN "waiting" ELSE "dropped"

Service == INSTANCE JobService WITH
    Slots  <- Concurrency,
    Tries  <- MaxAttempts,
    state  <- [j \in Job |-> Place(j)],
    busy   <- activeCount,
    tries  <- attempts,
    closed <- shutdown

\* The list, the loop with its guard, the slots and the timers implement the service:
\* no callback starts a job beyond the slots, beyond its attempts or after the
\* shutdown, puts a job back that is over, or loses one before the shutdown.
ServesJobs == Service!Spec

\* Every submitted job is completed or failed in the end, or the process stops.
EventuallyOver ==
    \A j \in Job : status[j] = "pending" ~> (Over(j) \/ shutdown)
=============================================================================
