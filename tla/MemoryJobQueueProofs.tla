------------------------ MODULE MemoryJobQueueProofs ------------------------
(***************************************************************************)
(* The safety of the in-process job queue for any set of jobs and batches  *)
(* and any concurrency, number of attempts and number of failures.         *)
(***************************************************************************)
EXTENDS MemoryJobQueue, FiniteSetTheorems, TLAPS

-----------------------------------------------------------------------------
(* Queues                                                                  *)

\* A job appended to a queue it is not in leaves every job in it once.
LEMMA AppendListed ==
    ASSUME NEW q \in Seq(Job), NEW j \in Job
    PROVE  /\ Append(q, j) \in Seq(Job)
           /\ Listed(Append(q, j)) = Listed(q) \cup {j}
           /\ Distinct(q) /\ j \notin Listed(q) => Distinct(Append(q, j))
<1> DEFINE r == Append(q, j)
<1>1. /\ r \in Seq(Job) /\ Len(r) = Len(q) + 1 /\ Len(q) \in Nat
      /\ r[Len(q) + 1] = j /\ \A i \in 1..Len(q) : r[i] = q[i]
  OBVIOUS
<1>2. Listed(r) = Listed(q) \cup {j}
  <2>1. \A i \in 1..Len(r) : i \in 1..Len(q) \/ i = Len(q) + 1
    BY <1>1
  <2>2. Len(q) + 1 \in 1..Len(r) /\ \A i \in 1..Len(q) : i \in 1..Len(r)
    BY <1>1
  <2> HIDE DEF r
  <2> QED BY <1>1, <2>1, <2>2 DEF Listed
<1>3. ASSUME Distinct(q), j \notin Listed(q)  PROVE Distinct(r)
  <2> SUFFICES ASSUME NEW i \in 1..Len(r), NEW k \in 1..Len(r), r[i] = r[k]
               PROVE  i = k
    BY DEF Distinct
  <2>1. \A n \in 1..Len(q) : q[n] # j
    BY <1>3 DEF Listed
  <2> HIDE DEF r
  <2> QED BY <1>1, <1>3, <2>1 DEF Distinct
<1> QED BY <1>1, <1>2, <1>3

\* The head of a queue leaves it with the other jobs in place.
LEMMA TailListed ==
    ASSUME NEW q \in Seq(Job), q # <<>>
    PROVE  /\ Head(q) \in Listed(q) /\ Head(q) \in Job
           /\ Tail(q) \in Seq(Job)
           /\ Listed(q) = Listed(Tail(q)) \cup {Head(q)}
           /\ Distinct(q) => Distinct(Tail(q)) /\ Head(q) \notin Listed(Tail(q))
<1> DEFINE r == Tail(q)
<1>1. /\ r \in Seq(Job) /\ Len(q) = Len(r) + 1 /\ Len(r) \in Nat
      /\ Head(q) = q[1] /\ \A i \in 1..Len(r) : r[i] = q[i + 1]
      /\ \A i \in 1..Len(q) : q[i] \in Job
  OBVIOUS
<1>2. 1 \in 1..Len(q) /\ \A i \in 1..Len(r) : i + 1 \in 1..Len(q)
  BY <1>1
<1>3. \A i \in 1..Len(q) : i = 1 \/ (i - 1 \in 1..Len(r) /\ q[i] = r[i - 1])
  BY <1>1
<1> HIDE DEF r
<1>4. Listed(q) = Listed(r) \cup {q[1]}
  <2>1. \A j \in Listed(q) : j \in Listed(r) \/ j = q[1]
    BY <1>3 DEF Listed
  <2>2. q[1] \in Listed(q)
    BY <1>2 DEF Listed
  <2>3. ASSUME NEW j \in Listed(r)  PROVE j \in Listed(q)
    <3>1. PICK i \in 1..Len(r) : r[i] = j
      BY <2>3 DEF Listed
    <3>2. q[i + 1] = j /\ i + 1 \in 1..Len(q)
      BY <3>1, <1>1, <1>2
    <3> QED BY <3>2 DEF Listed
  <2> QED BY <2>1, <2>2, <2>3
<1>5. ASSUME Distinct(q)  PROVE Distinct(r) /\ q[1] \notin Listed(r)
  <2>1. \A i, k \in 1..Len(r) : r[i] = r[k] => i + 1 = k + 1
    BY <1>1, <1>2, <1>5 DEF Distinct
  <2>2. \A i \in 1..Len(r) : r[i] # q[1]
    <3> SUFFICES ASSUME NEW i \in 1..Len(r), r[i] = q[1]  PROVE FALSE
      OBVIOUS
    <3>1. i + 1 = 1
      BY <1>1, <1>2, <1>5 DEF Distinct
    <3> QED BY <1>1, <3>1
  <2> QED BY <1>1, <2>1, <2>2 DEF Distinct, Listed
<1> QED BY <1>1, <1>2, <1>4, <1>5 DEF r

\* A request adds each of its jobs once, whatever their order.
LEMMA ConcatListed ==
    ASSUME NEW q \in Seq(Job), NEW S \in SUBSET Job, NEW order \in Orders(S)
    PROVE  /\ q \o order \in Seq(Job)
           /\ Listed(q \o order) = Listed(q) \cup S
           /\ Distinct(q) /\ Listed(q) \cap S = {} => Distinct(q \o order)
<1> DEFINE n == Cardinality(S)
           r == q \o order
<1>1. n \in Nat
  BY QueueAssumption, FS_Subset, FS_CardinalityType DEF QueueAssumption
<1>2. /\ order \in [1..n -> S]
      /\ \A j \in S : \E i \in 1..n : \A k \in 1..n : order[k] = j <=> k = i
  BY DEF Orders
<1> HIDE DEF n
<1>3. order \in Seq(Job) /\ Len(order) = n
  BY <1>1, <1>2
<1>4. /\ r \in Seq(Job) /\ Len(r) = Len(q) + n /\ Len(q) \in Nat
      /\ \A i \in 1..Len(q) : r[i] = q[i]
      /\ \A i \in 1..n : r[Len(q) + i] = order[i]
  BY <1>1, <1>3
<1>5. \A i \in 1..Len(r) : \/ i \in 1..Len(q)
                           \/ i - Len(q) \in 1..n /\ r[i] = order[i - Len(q)]
  BY <1>1, <1>4
<1>6. /\ \A i \in 1..Len(q) : i \in 1..Len(r)
      /\ \A i \in 1..n : Len(q) + i \in 1..Len(r)
  BY <1>1, <1>4
<1> HIDE DEF r
<1>7. Listed(r) = Listed(q) \cup S
  <2>1. ASSUME NEW i \in 1..Len(r)  PROVE r[i] \in Listed(q) \cup S
    BY <1>2, <1>4, <1>5 DEF Listed
  <2>2. ASSUME NEW j \in Listed(q)  PROVE j \in Listed(r)
    BY <1>4, <1>6 DEF Listed
  <2>3. ASSUME NEW j \in S  PROVE j \in Listed(r)
    <3>1. PICK i \in 1..n : order[i] = j
      BY <1>2
    <3> QED BY <3>1, <1>4, <1>6 DEF Listed
  <2>4. \A j \in Listed(r) : j \in Listed(q) \cup S
    BY <2>1 DEF Listed
  <2> QED BY <2>2, <2>3, <2>4
<1>8. ASSUME Distinct(q), Listed(q) \cap S = {}  PROVE Distinct(r)
  <2> SUFFICES ASSUME NEW i \in 1..Len(r), NEW k \in 1..Len(r), r[i] = r[k]
               PROVE  i = k
    BY DEF Distinct
  <2>1. \A x \in 1..Len(q), y \in 1..n : q[x] # order[y]
    BY <1>2, <1>8 DEF Listed
  <2>2. \A x, y \in 1..n : order[x] = order[y] => x = y
    BY <1>2
  <2>3. CASE i \in 1..Len(q) /\ k \in 1..Len(q)
    BY <1>4, <1>8, <2>3 DEF Distinct
  <2>4. CASE i \notin 1..Len(q) /\ k \notin 1..Len(q)
    <3>1. i - Len(q) = k - Len(q)
      BY <1>5, <2>2, <2>4
    <3> QED BY <3>1, <1>4
  <2> QED BY <1>4, <1>5, <2>1, <2>3, <2>4
<1> QED BY <1>4, <1>7, <1>8 DEF r
-----------------------------------------------------------------------------
(* The inductive invariant                                                 *)

\* Besides the properties: a running job is being extracted, and a job that
\* may still be started has an attempt left.
QueueInv ==
    /\ TypeOK
    /\ SlotsMatchRunning
    /\ JobsAccounted
    /\ NoIdleSlot
    /\ \A j \in Job : phase[j] # "none" => status[j] = "extracting"
    /\ \A j \in Job :
          (\/ j \in Listed(pendingJobs) \/ phase[j] = "backoff"
           \/ status[j] = "unsubmitted") => attempts[j] < MaxAttempts

\* The steps that touch neither a job nor the queue.
Quiet == UNCHANGED <<pendingJobs, activeCount, phase, status, attempts, memory, failures>>

LEMMA QuietSteps == ASSUME TypeOK, LoopExits \/ (\E b \in Batch : Expire(b)) \/ ShutDown \/ UNCHANGED vars
                    PROVE  Quiet /\ TypeOK'
<1> USE DEF Quiet, TypeOK
<1>1. CASE LoopExits
  BY <1>1 DEF LoopExits
<1>2. CASE \E b \in Batch : Expire(b)
  BY <1>2 DEF Expire
<1>3. CASE ShutDown
  BY <1>3 DEF ShutDown
<1>4. CASE UNCHANGED vars
  BY <1>4 DEF vars
<1> QED BY <1>1, <1>2, <1>3, <1>4

\* A call of runJob that returns or sleeps leaves the processor state typed.
LEMMA ThrowsType ==
    ASSUME TypeOK, NEW j \in Job, ProcessorThrows(j)
    PROVE  memory' \in [Job -> MemoryRow] /\ failures' \in 0..MaxFailures
<1>1. CASE memory[j] # "bare" /\ UNCHANGED <<memory, failures>>
  BY <1>1 DEF TypeOK
<1>2. CASE /\ failures < MaxFailures /\ failures' = failures + 1
           /\ \E r \in {"bare", "extracted"} : memory' = [memory EXCEPT ![j] = r]
  BY <1>2, QueueAssumption DEF TypeOK, MemoryRow, QueueAssumption
<1> QED BY <1>1, <1>2 DEF ProcessorThrows

\* Every step keeps every variable in its type.
LEMMA TypeStep ==
    ASSUME QueueInv, [Next]_vars
    PROVE  TypeOK'
<1> TypeOK /\ MaxAttempts \in Nat /\ Concurrency \in Nat
  BY QueueAssumption DEF QueueInv, QueueAssumption
<1>1. ASSUME NEW b \in Batch, CreateBatch(b)  PROVE TypeOK'
  <2>1. PICK S \in SUBSET {j \in Job : status[j] = "unsubmitted"} :
          /\ \E order \in Orders(S) : pendingJobs' = pendingJobs \o order
          /\ status' = [j \in Job |-> IF j \in S THEN "pending" ELSE status[j]]
          /\ batches' = [batches EXCEPT ![b] = S]
    BY <1>1 DEF CreateBatch
  <2>2. pendingJobs' \in Seq(Job)
    BY <2>1, ConcatListed DEF TypeOK
  <2>3. status' \in [Job -> Statuses] /\ batches' \in [Batch -> SUBSET Job]
    BY <2>1 DEF TypeOK, Statuses
  <2> QED BY <1>1, <2>2, <2>3 DEF TypeOK, CreateBatch
<1>2. ASSUME NEW j \in Job, EnqueueEmbedding(j)  PROVE TypeOK'
  BY <1>2 DEF EnqueueEmbedding, TypeOK, Statuses
<1>3. CASE Dispatch
  <2> DEFINE j == Head(pendingJobs)
  <2>1. j \in Job /\ j \in Listed(pendingJobs) /\ Tail(pendingJobs) \in Seq(Job)
    BY <1>3, TailListed DEF Dispatch, MayDispatch, TypeOK
  <2>2. attempts[j] + 1 \in 0..MaxAttempts
    BY <2>1 DEF QueueInv, TypeOK
  <2> HIDE DEF j
  <2>3. attempts' = [attempts EXCEPT ![j] = attempts[j] + 1]
    BY <1>3 DEF Dispatch, j
  <2>4. attempts' \in [Job -> 0..MaxAttempts]
    BY <2>1, <2>2, <2>3 DEF TypeOK
  <2>5. phase' \in [Job -> Phases] /\ status' \in [Job -> Statuses]
    BY <1>3 DEF Dispatch, TypeOK, Phases, Statuses
  <2> QED BY <1>3, <2>1, <2>4, <2>5 DEF Dispatch, TypeOK
<1>4. ASSUME NEW j \in Job, RunJob(j)  PROVE TypeOK'
  <2>0. phase[j] # "none" => activeCount - 1 \in Nat
    <3>1. IsFiniteSet(Running) /\ activeCount = Cardinality(Running)
      BY QueueAssumption, FS_Subset DEF QueueInv, SlotsMatchRunning, QueueAssumption, Running
    <3>2. phase[j] # "none" => Running # {}
      BY DEF Running
    <3> QED BY <3>1, <3>2, FS_EmptySet, FS_CardinalityType DEF TypeOK
  <2>1. CASE Completes(j)
    BY <2>0, <2>1 DEF Completes, Release, TypeOK, Phases, Statuses, MemoryRow
  <2>2. CASE Fails(j)
    BY <2>2, ThrowsType DEF Fails, TypeOK, Phases
  <2>3. CASE GivesUp(j)
    BY <2>0, <2>3, ThrowsType DEF GivesUp, Release, TypeOK, Phases, Statuses
  <2>4. CASE BackoffEnds(j)
    BY <2>0, <2>4 DEF BackoffEnds, Release, TypeOK, Phases
  <2> QED BY <1>4, <2>1, <2>2, <2>3, <2>4 DEF RunJob
<1>5. CASE LoopExits \/ (\E b \in Batch : Expire(b)) \/ ShutDown \/ UNCHANGED vars
  BY <1>5, QuietSteps
<1> QED BY <1>1, <1>2, <1>3, <1>4, <1>5 DEF Next, Loop

\* A slot is taken by the step that starts a job and given back by the step
\* that ends its call.
LEMMA SlotsStep ==
    ASSUME QueueInv, [Next]_vars
    PROVE  SlotsMatchRunning'
<1> TypeOK /\ SlotsMatchRunning /\ IsFiniteSet(Running)
  BY QueueAssumption, FS_Subset DEF QueueInv, QueueAssumption, Running
<1>1. ASSUME UNCHANGED <<activeCount, phase>>  PROVE SlotsMatchRunning'
  BY <1>1 DEF SlotsMatchRunning, Running
<1>2. CASE Dispatch
  <2> DEFINE j == Head(pendingJobs)
  <2>1. j \in Job /\ j \in Listed(pendingJobs)
    BY <1>2, TailListed DEF Dispatch, MayDispatch, TypeOK
  <2>2. phase[j] = "none"
    BY <2>1 DEF QueueInv, JobsAccounted
  <2> HIDE DEF j
  <2>3. phase' = [phase EXCEPT ![j] = "processing"]
    BY <1>2 DEF Dispatch, j
  <2>4. Running' = Running \cup {j} /\ j \notin Running
    BY <2>1, <2>2, <2>3 DEF Running, TypeOK
  <2>5. Cardinality(Running') = Cardinality(Running) + 1
    BY <2>4, FS_AddElement
  <2> QED BY <1>2, <2>5, QueueAssumption
          DEF Dispatch, MayDispatch, SlotsMatchRunning, TypeOK, QueueAssumption
<1>3. ASSUME NEW j \in Job, phase[j] # "none", phase' = [phase EXCEPT ![j] = "none"],
             activeCount' = activeCount - 1
      PROVE  SlotsMatchRunning'
  <2>1. Running' = Running \ {j} /\ j \in Running
    BY <1>3 DEF Running, TypeOK
  <2>2. Cardinality(Running') = Cardinality(Running) - 1
    BY <2>1, FS_RemoveElement
  <2> QED BY <1>3, <2>2, QueueAssumption DEF SlotsMatchRunning, TypeOK, QueueAssumption
<1>4. ASSUME NEW j \in Job, Fails(j)  PROVE SlotsMatchRunning'
  <2>1. Running' = Running
    BY <1>4 DEF Fails, Running, TypeOK
  <2> QED BY <1>4, <2>1 DEF Fails, SlotsMatchRunning
<1>5. ASSUME NEW j \in Job, Completes(j) \/ GivesUp(j) \/ BackoffEnds(j)
      PROVE  SlotsMatchRunning'
  BY <1>5, <1>3 DEF Completes, GivesUp, BackoffEnds, Release
<1>6. ASSUME NEW b \in Batch, CreateBatch(b)  PROVE SlotsMatchRunning'
  BY <1>1, <1>6 DEF CreateBatch
<1>7. ASSUME NEW j \in Job, EnqueueEmbedding(j)  PROVE SlotsMatchRunning'
  BY <1>1, <1>7 DEF EnqueueEmbedding
<1>8. CASE LoopExits \/ (\E b \in Batch : Expire(b)) \/ ShutDown \/ UNCHANGED vars
  BY <1>1, <1>8, QuietSteps DEF Quiet
<1> QED BY <1>2, <1>4, <1>5, <1>6, <1>7, <1>8 DEF Next, Loop, RunJob

\* What JobsAccounted and the rest of QueueInv say of one job.
JobInv(j) ==
    /\ status[j] = "unsubmitted" => j \notin Listed(pendingJobs) /\ phase[j] = "none"
    /\ Over(j) => j \notin Listed(pendingJobs) /\ phase[j] = "none"
    /\ j \in Listed(pendingJobs) => phase[j] = "none"
    /\ status[j] \in {"pending", "extracting"} =>
          j \in Listed(pendingJobs) \/ phase[j] # "none" \/ shutdown
    /\ phase[j] # "none" => status[j] = "extracting"
    /\ (\/ j \in Listed(pendingJobs) \/ phase[j] = "backoff"
        \/ status[j] = "unsubmitted") => attempts[j] < MaxAttempts

LEMMA JobInvs == QueueInv => Distinct(pendingJobs) /\ \A j \in Job : JobInv(j)
BY DEF QueueInv, JobsAccounted, JobInv

\* A job no step touches keeps its part of the invariant.
LEMMA Untouched ==
    ASSUME NEW j \in Job, JobInv(j), shutdown => shutdown',
           status'[j] = status[j], phase'[j] = phase[j], attempts'[j] = attempts[j],
           j \in Listed(pendingJobs)' <=> j \in Listed(pendingJobs)
    PROVE  JobInv(j)'
BY DEF JobInv, Over

\* Every step leaves each job in one place, or over.
LEMMA JobsStep ==
    ASSUME QueueInv, [Next]_vars
    PROVE  Distinct(pendingJobs)' /\ \A j \in Job : JobInv(j)'
<1> TypeOK /\ Distinct(pendingJobs) /\ \A j \in Job : JobInv(j)
  BY JobInvs DEF QueueInv
<1>1. ASSUME NEW b \in Batch, CreateBatch(b)
      PROVE  Distinct(pendingJobs)' /\ \A j \in Job : JobInv(j)'
  <2>1. PICK S \in SUBSET {j \in Job : status[j] = "unsubmitted"} :
          /\ \E order \in Orders(S) : pendingJobs' = pendingJobs \o order
          /\ status' = [j \in Job |-> IF j \in S THEN "pending" ELSE status[j]]
    BY <1>1 DEF CreateBatch
  <2>2. Listed(pendingJobs) \cap S = {}
    BY <2>1 DEF JobInv
  <2>3. Distinct(pendingJobs') /\ Listed(pendingJobs') = Listed(pendingJobs) \cup S
    BY <2>1, <2>2, ConcatListed DEF TypeOK
  <2>4. ASSUME NEW j \in Job  PROVE JobInv(j)'
    <3> Listed(pendingJobs)' = Listed(pendingJobs) \cup S
      BY <2>3 DEF Listed
    <3>1. CASE j \in S
      BY <1>1, <2>1, <3>1 DEF CreateBatch, JobInv, Over
    <3>2. CASE j \notin S
      BY <1>1, <2>1, <3>2, Untouched DEF CreateBatch
    <3> QED BY <3>1, <3>2
  <2> QED BY <2>3, <2>4 DEF Distinct
<1>2. ASSUME NEW n \in Job, EnqueueEmbedding(n)
      PROVE  Distinct(pendingJobs)' /\ \A j \in Job : JobInv(j)'
  <2>1. n \notin Listed(pendingJobs)
    BY <1>2 DEF EnqueueEmbedding, JobInv
  <2>2. Distinct(pendingJobs') /\ Listed(pendingJobs') = Listed(pendingJobs) \cup {n}
    BY <1>2, <2>1, AppendListed DEF EnqueueEmbedding, TypeOK
  <2>3. ASSUME NEW j \in Job  PROVE JobInv(j)'
    <3> Listed(pendingJobs)' = Listed(pendingJobs) \cup {n}
      BY <2>2 DEF Listed
    <3>1. CASE j = n
      BY <1>2, <3>1 DEF EnqueueEmbedding, JobInv, Over, TypeOK
    <3>2. CASE j # n
      BY <1>2, <3>2, Untouched DEF EnqueueEmbedding, TypeOK
    <3> QED BY <3>1, <3>2
  <2> QED BY <2>2, <2>3 DEF Distinct
<1>3. CASE Dispatch
  <2> DEFINE n == Head(pendingJobs)
  <2>1. /\ n \in Job /\ Listed(pendingJobs) = Listed(Tail(pendingJobs)) \cup {n}
        /\ Distinct(Tail(pendingJobs)) /\ n \notin Listed(Tail(pendingJobs))
    BY <1>3, TailListed DEF Dispatch, MayDispatch, TypeOK
  <2> HIDE DEF n
  <2>2. /\ phase' = [phase EXCEPT ![n] = "processing"]
        /\ status' = [status EXCEPT ![n] = "extracting"]
        /\ attempts' = [attempts EXCEPT ![n] = @ + 1]
        /\ pendingJobs' = Tail(pendingJobs) /\ shutdown' = shutdown
    BY <1>3 DEF Dispatch, n
  <2>3. ASSUME NEW j \in Job  PROVE JobInv(j)'
    <3> Listed(pendingJobs)' = Listed(Tail(pendingJobs))
      BY <2>2 DEF Listed
    <3>1. CASE j = n
      BY <2>1, <2>2, <3>1 DEF JobInv, Over, TypeOK
    <3>2. CASE j # n
      BY <2>1, <2>2, <3>2, Untouched DEF TypeOK
    <3> QED BY <3>1, <3>2
  <2> QED BY <2>1, <2>2, <2>3 DEF Distinct
<1>4. ASSUME NEW n \in Job, Completes(n) \/ Fails(n) \/ GivesUp(n)
      PROVE  Distinct(pendingJobs)' /\ \A j \in Job : JobInv(j)'
  <2>1. /\ phase[n] = "processing" /\ UNCHANGED <<pendingJobs, attempts, shutdown>>
        /\ \/ /\ phase' = [phase EXCEPT ![n] = "none"]
              /\ \E s \in {"completed", "failed"} : status' = [status EXCEPT ![n] = s]
           \/ /\ phase' = [phase EXCEPT ![n] = "backoff"] /\ status' = status
              /\ attempts[n] < MaxAttempts
    BY <1>4 DEF Completes, Fails, GivesUp
  <2>2. ASSUME NEW j \in Job  PROVE JobInv(j)'
    <3> Listed(pendingJobs)' = Listed(pendingJobs)
      BY <2>1 DEF Listed
    <3>1. CASE j = n
      BY <2>1, <3>1 DEF JobInv, Over, TypeOK
    <3>2. CASE j # n
      BY <2>1, <3>2, Untouched DEF TypeOK
    <3> QED BY <3>1, <3>2
  <2> QED BY <2>1, <2>2 DEF Distinct
<1>5. ASSUME NEW n \in Job, BackoffEnds(n)
      PROVE  Distinct(pendingJobs)' /\ \A j \in Job : JobInv(j)'
  <2>1. /\ phase[n] = "backoff" /\ phase' = [phase EXCEPT ![n] = "none"]
        /\ UNCHANGED <<status, attempts, shutdown>>
        /\ pendingJobs' = IF shutdown THEN pendingJobs ELSE Append(pendingJobs, n)
    BY <1>5 DEF BackoffEnds
  <2>2. n \notin Listed(pendingJobs)
    BY <2>1 DEF JobInv
  <2>3. /\ Distinct(pendingJobs')
        /\ Listed(pendingJobs') = IF shutdown THEN Listed(pendingJobs)
                                  ELSE Listed(pendingJobs) \cup {n}
    BY <2>1, <2>2, AppendListed DEF TypeOK
  <2>4. ASSUME NEW j \in Job  PROVE JobInv(j)'
    <3> Listed(pendingJobs)' = IF shutdown THEN Listed(pendingJobs)
                               ELSE Listed(pendingJobs) \cup {n}
      BY <2>3 DEF Listed
    <3>1. CASE j = n
      BY <2>1, <3>1 DEF JobInv, Over, TypeOK
    <3>2. CASE j # n
      BY <2>1, <3>2, Untouched DEF TypeOK
    <3> QED BY <3>1, <3>2
  <2> QED BY <2>3, <2>4 DEF Distinct
<1>6. CASE LoopExits \/ (\E b \in Batch : Expire(b)) \/ ShutDown \/ UNCHANGED vars
  <2>1. Quiet
    BY <1>6, QuietSteps
  <2>2. shutdown => shutdown'
    BY <1>6 DEF LoopExits, Expire, ShutDown, vars
  <2> QED BY <2>1, <2>2, Untouched DEF Quiet, Distinct, Listed
<1> QED BY <1>1, <1>2, <1>3, <1>4, <1>5, <1>6 DEF Next, Loop, RunJob

\* The loop exits only with nothing to dispatch, and every step that adds a job
\* or frees a slot starts it again.
LEMMA IdleStep ==
    ASSUME QueueInv, [Next]_vars
    PROVE  NoIdleSlot'
<1> NoIdleSlot /\ SlotsMatchRunning
  BY DEF QueueInv
<1>1. ASSUME scheduling'  PROVE NoIdleSlot'
  BY <1>1 DEF NoIdleSlot
<1>2. CASE LoopExits
  <2>1. activeCount < Concurrency \/ activeCount = Concurrency
    BY QueueAssumption DEF QueueInv, TypeOK, SlotsMatchRunning, QueueAssumption
  <2> QED BY <1>2, <2>1 DEF LoopExits, MayDispatch, NoIdleSlot
<1>3. CASE ShutDown
  BY <1>3 DEF ShutDown, NoIdleSlot
<1>4. CASE \E b \in Batch : Expire(b)
  BY <1>4 DEF Expire, NoIdleSlot
<1>5. ASSUME NEW j \in Job, Fails(j)  PROVE NoIdleSlot'
  BY <1>5 DEF Fails, NoIdleSlot
<1>6. CASE Dispatch
  BY <1>1, <1>6 DEF Dispatch
<1>7. ASSUME NEW j \in Job, Completes(j) \/ GivesUp(j) \/ BackoffEnds(j) \/ EnqueueEmbedding(j)
      PROVE  NoIdleSlot'
  BY <1>1, <1>7 DEF Completes, GivesUp, BackoffEnds, Release, EnqueueEmbedding
<1>8. ASSUME NEW b \in Batch, CreateBatch(b)  PROVE NoIdleSlot'
  BY <1>1, <1>8 DEF CreateBatch
<1>9. CASE UNCHANGED vars
  BY <1>9 DEF vars, NoIdleSlot
<1> QED BY <1>2, <1>3, <1>4, <1>5, <1>6, <1>7, <1>8, <1>9 DEF Next, Loop, RunJob

LEMMA QueueInvInit == Init => QueueInv
<1> SUFFICES ASSUME Init  PROVE QueueInv
  OBVIOUS
<1> MaxAttempts \in Nat \ {0} /\ Concurrency \in Nat \ {0} /\ MaxFailures \in Nat
  BY QueueAssumption DEF QueueAssumption
<1>1. TypeOK
  <2>1. pendingJobs \in Seq(Job)
    <3>1. <<>> \in Seq(Job)
      OBVIOUS
    <3> QED BY <3>1 DEF Init
  <2>0. scheduling \in BOOLEAN /\ activeCount \in Nat
    BY DEF Init
  <2>2. phase \in [Job -> Phases] /\ status \in [Job -> Statuses]
    BY DEF Init, Phases, Statuses
  <2>3. attempts \in [Job -> 0..MaxAttempts] /\ failures \in 0..MaxFailures
    BY DEF Init
  <2>4. batches \in [Batch -> SUBSET Job] /\ memory \in [Job -> MemoryRow]
        /\ shutdown \in BOOLEAN
    BY DEF Init
  <2> QED BY <2>0, <2>1, <2>2, <2>3, <2>4 DEF TypeOK
<1>2. SlotsMatchRunning
  <2>1. Running = {}
    BY DEF Init, Running
  <2> QED BY <2>1, FS_EmptySet DEF Init, SlotsMatchRunning
<1>3. Listed(pendingJobs) = {} /\ Distinct(pendingJobs)
  BY DEF Init, Listed, Distinct
<1>4. JobsAccounted
  BY <1>3 DEF Init, JobsAccounted, Over
<1>5. NoIdleSlot
  BY DEF Init, NoIdleSlot
<1> QED BY <1>1, <1>2, <1>3, <1>4, <1>5 DEF Init, QueueInv

LEMMA QueueInvStep == QueueInv /\ [Next]_vars => QueueInv'
<1> SUFFICES ASSUME QueueInv, [Next]_vars  PROVE QueueInv'
  OBVIOUS
<1> QED BY TypeStep, SlotsStep, JobsStep, IdleStep DEF QueueInv, JobsAccounted, JobInv

LEMMA QueueInvHolds == Spec => []QueueInv
BY QueueInvInit, QueueInvStep, PTL DEF Spec

\* Every variable stays in its type; in particular no job is attempted more than
\* MaxAttempts times and the count of active jobs never drops below zero.
THEOREM QueueTypeCorrect == Spec => []TypeOK
<1>1. QueueInv => TypeOK
  BY DEF QueueInv
<1> QED BY QueueInvHolds, <1>1, PTL

\* activeCount counts the running jobs and never exceeds the concurrency.
THEOREM SlotsCorrect == Spec => []SlotsMatchRunning
<1>1. QueueInv => SlotsMatchRunning
  BY DEF QueueInv
<1> QED BY QueueInvHolds, <1>1, PTL

\* No submitted job is lost or run twice.
THEOREM JobsAccountedCorrect == Spec => []JobsAccounted
<1>1. QueueInv => JobsAccounted
  BY DEF QueueInv
<1> QED BY QueueInvHolds, <1>1, PTL

\* No job waits beside a free slot once the loop has run.
THEOREM NoIdleSlotCorrect == Spec => []NoIdleSlot
<1>1. QueueInv => NoIdleSlot
  BY DEF QueueInv
<1> QED BY QueueInvHolds, <1>1, PTL

-----------------------------------------------------------------------------
(* Batch reports                                                           *)

\* A job that is over keeps its status: it waits nowhere and is not running.
LEMMA OverStays ==
    ASSUME QueueInv, [Next]_vars, NEW j \in Job, Over(j)
    PROVE  status'[j] = status[j]
<1> TypeOK /\ JobInv(j) /\ j \notin Listed(pendingJobs) /\ phase[j] = "none"
  BY JobInvs DEF QueueInv, JobInv
<1>1. CASE \E b \in Batch : CreateBatch(b)
  BY <1>1 DEF CreateBatch, Over
<1>2. ASSUME NEW n \in Job, EnqueueEmbedding(n)  PROVE status'[j] = status[j]
  BY <1>2 DEF EnqueueEmbedding, Over, TypeOK
<1>3. CASE Dispatch
  <2>1. Head(pendingJobs) # j
    BY <1>3, TailListed DEF Dispatch, MayDispatch, TypeOK
  <2> QED BY <1>3, <2>1 DEF Dispatch, TypeOK
<1>4. ASSUME NEW n \in Job, RunJob(n)  PROVE status'[j] = status[j]
  BY <1>4 DEF RunJob, Completes, Fails, GivesUp, BackoffEnds, TypeOK
<1>5. CASE LoopExits \/ (\E b \in Batch : Expire(b)) \/ ShutDown \/ UNCHANGED vars
  BY <1>5, QuietSteps DEF Quiet
<1> QED BY <1>1, <1>2, <1>3, <1>4, <1>5 DEF Next, Loop

\* A batch whose report is not "processing" has no job left to run.
LEMMA ReportedOver ==
    ASSUME TypeOK, NEW S \in SUBSET Job, Report(S) # "processing"
    PROVE  \A j \in S : Over(j)
<1> DEFINE C == {j \in S : status[j] = "completed"}
           F == {j \in S : status[j] = "failed"}
<1>1. IsFiniteSet(S) /\ IsFiniteSet(C) /\ IsFiniteSet(F) /\ IsFiniteSet(C \cup F)
  BY QueueAssumption, FS_Subset, FS_Union DEF QueueAssumption
<1>2. ~(Cardinality(C) + Cardinality(F) < Cardinality(S))
  BY DEF Report, Count
<1>3. Cardinality(C \cup F) = Cardinality(C) + Cardinality(F)
  <2>1. C \cap F = {}
    OBVIOUS
  <2>2. Cardinality(C \cap F) = 0
    BY <2>1, FS_EmptySet
  <2>3. Cardinality(C) \in Nat /\ Cardinality(F) \in Nat
    BY <1>1, FS_CardinalityType
  <2> HIDE DEF C, F
  <2>4. Cardinality(C \cup F) = Cardinality(C) + Cardinality(F) - Cardinality(C \cap F)
    BY <1>1, FS_Union
  <2> QED BY <2>2, <2>3, <2>4
<1>4. Cardinality(C \cup F) <= Cardinality(S) /\ C \cup F \subseteq S
  BY <1>1, FS_Subset
<1>5. C \cup F = S
  BY <1>1, <1>2, <1>3, <1>4, FS_Subset, FS_CardinalityType
<1> QED BY <1>5 DEF Over

LEMMA ReportStays ==
    ASSUME QueueInv, [Next]_vars, NEW b \in Batch,
           batches[b] # {}, Report(batches[b]) # "processing"
    PROVE  batches'[b] = {} \/ Report(batches[b])' = Report(batches[b])
<1> TypeOK /\ batches[b] \in SUBSET Job
  BY DEF QueueInv, TypeOK
<1>1. batches'[b] = {} \/ batches'[b] = batches[b]
  <2>1. ASSUME NEW c \in Batch, CreateBatch(c)  PROVE batches'[b] = batches[b]
    BY <2>1 DEF CreateBatch, TypeOK
  <2>2. ASSUME NEW c \in Batch, Expire(c)
        PROVE  batches'[b] = {} \/ batches'[b] = batches[b]
    BY <2>2 DEF Expire, TypeOK
  <2>3. ASSUME UNCHANGED batches  PROVE batches'[b] = batches[b]
    BY <2>3
  <2>4. ASSUME NEW j \in Job, EnqueueEmbedding(j) \/ RunJob(j)  PROVE UNCHANGED batches
    BY <2>4 DEF EnqueueEmbedding, RunJob, Completes, Fails, GivesUp, BackoffEnds
  <2>5. CASE Loop \/ ShutDown \/ UNCHANGED vars
    BY <2>5 DEF Loop, Dispatch, LoopExits, ShutDown, vars
  <2> QED BY <2>1, <2>2, <2>3, <2>4, <2>5 DEF Next
<1>2. \A j \in batches[b] : status'[j] = status[j]
  BY ReportedOver, OverStays
<1>3. \A s : {j \in batches[b] : status'[j] = s} = {j \in batches[b] : status[j] = s}
  BY <1>2
<1>4. ASSUME batches'[b] = batches[b]  PROVE Report(batches[b])' = Report(batches[b])
  BY <1>3, <1>4 DEF Report, Count
<1> QED BY <1>1, <1>4

\* A batch that getBatchStatus reports over keeps its report until it expires.
THEOREM ReportIsFinalCorrect == Spec => ReportIsFinal
<1>1. QueueInv /\ [Next]_vars =>
        [\A b \in Batch : batches[b] # {} /\ Report(batches[b]) # "processing" =>
            batches'[b] = {} \/ Report(batches[b])' = Report(batches[b])]_vars
  BY ReportStays
<1> QED BY QueueInvHolds, <1>1, PTL DEF Spec, ReportIsFinal

-----------------------------------------------------------------------------
(* What jobs come to                                                       *)

\* The inductive invariant behind OutcomesAreTrue: every attempt that is behind a job
\* whose memory could still be extracted was one of the passing failures.
OutcomeOf(j) ==
    /\ status[j] = "completed" => memory[j] = "extracted"
    /\ status[j] = "failed" => attempts[j] = MaxAttempts
    /\ memory[j] = "bare" =>
          attempts[j] <= (IF phase[j] = "processing" THEN failures + 1 ELSE failures)

\* A call that throws leaves the other memories alone, and a memory that is still
\* bare costs one of the failures.
LEMMA ThrowsCounts ==
    ASSUME TypeOK, NEW n \in Job, ProcessorThrows(n)
    PROVE  /\ failures \in Nat /\ failures' \in Nat /\ failures <= failures'
           /\ \A j \in Job : j # n => memory'[j] = memory[j]
           /\ memory'[n] = "bare" => memory[n] = "bare" /\ failures' = failures + 1
<1>1. failures \in Nat
  BY QueueAssumption DEF TypeOK, QueueAssumption
<1>2. CASE memory[n] # "bare" /\ UNCHANGED <<memory, failures>>
  BY <1>1, <1>2
<1>3. CASE /\ memory[n] = "bare" /\ failures < MaxFailures /\ failures' = failures + 1
           /\ \E r \in {"bare", "extracted"} : memory' = [memory EXCEPT ![n] = r]
  BY <1>1, <1>3 DEF TypeOK
<1> QED BY <1>2, <1>3 DEF ProcessorThrows

LEMMA OutcomeInit == Init => \A j \in Job : OutcomeOf(j)
BY DEF Init, OutcomeOf

LEMMA OutcomeStep ==
    ASSUME QueueInv, [Next]_vars, NEW j \in Job, OutcomeOf(j)
    PROVE  OutcomeOf(j)'
<1>1. /\ TypeOK /\ JobInv(j) /\ failures \in Nat /\ attempts[j] \in Nat
      /\ MaxAttempts \in Nat /\ attempts[j] <= MaxAttempts
  BY JobInvs, QueueAssumption DEF QueueInv, TypeOK, QueueAssumption
<1>2. ASSUME status'[j] = status[j], phase'[j] = phase[j], attempts'[j] = attempts[j],
             memory'[j] = memory[j], failures' \in Nat, failures <= failures'
      PROVE  OutcomeOf(j)'
  BY <1>1, <1>2 DEF OutcomeOf
<1>3. ASSUME NEW b \in Batch, CreateBatch(b)  PROVE OutcomeOf(j)'
  <2>1. PICK S \in SUBSET {k \in Job : status[k] = "unsubmitted"} :
          status' = [k \in Job |-> IF k \in S THEN "pending" ELSE status[k]]
    BY <1>3 DEF CreateBatch
  <2>2. status'[j] = status[j] \/ (status'[j] = "pending" /\ status[j] = "unsubmitted")
    BY <2>1
  <2> QED BY <1>1, <1>2, <1>3, <2>2 DEF CreateBatch, OutcomeOf
<1>4. ASSUME NEW n \in Job, EnqueueEmbedding(n)  PROVE OutcomeOf(j)'
  <2>1. status'[j] = status[j] \/ (status'[j] = "pending" /\ status[j] = "unsubmitted")
    BY <1>1, <1>4 DEF EnqueueEmbedding, TypeOK
  <2> QED BY <1>1, <1>2, <1>4, <2>1 DEF EnqueueEmbedding, OutcomeOf
<1>5. CASE Dispatch
  <2> DEFINE n == Head(pendingJobs)
  <2>1. n \in Job /\ n \in Listed(pendingJobs)
    BY <1>1, <1>5, TailListed DEF Dispatch, MayDispatch, TypeOK
  <2> HIDE DEF n
  <2>2. /\ phase' = [phase EXCEPT ![n] = "processing"]
        /\ status' = [status EXCEPT ![n] = "extracting"]
        /\ attempts' = [attempts EXCEPT ![n] = attempts[n] + 1]
        /\ UNCHANGED <<memory, failures>>
    BY <1>5 DEF Dispatch, n
  <2>3. CASE j = n
    <3>1. phase[j] = "none"
      BY <1>1, <2>1, <2>3 DEF JobInv
    <3>2. phase'[j] = "processing" /\ status'[j] = "extracting" /\ attempts'[j] = attempts[j] + 1
      BY <1>1, <2>2, <2>3 DEF TypeOK
    <3> QED BY <1>1, <2>2, <3>1, <3>2 DEF OutcomeOf
  <2>4. CASE j # n
    BY <1>1, <1>2, <2>2, <2>4 DEF TypeOK
  <2> QED BY <2>3, <2>4
<1>6. ASSUME NEW n \in Job, Completes(n)  PROVE OutcomeOf(j)'
  <2>1. CASE j = n
    BY <1>1, <1>6, <2>1 DEF Completes, TypeOK, OutcomeOf
  <2>2. CASE j # n
    BY <1>1, <1>2, <1>6, <2>2 DEF Completes, TypeOK
  <2> QED BY <2>1, <2>2
<1>7. ASSUME NEW n \in Job, Fails(n) \/ GivesUp(n)  PROVE OutcomeOf(j)'
  <2>1. ProcessorThrows(n) /\ phase[n] = "processing" /\ attempts' = attempts
    BY <1>7 DEF Fails, GivesUp
  <2>2. /\ failures' \in Nat /\ failures <= failures'
        /\ j # n => memory'[j] = memory[j]
        /\ memory'[n] = "bare" => memory[n] = "bare" /\ failures' = failures + 1
    BY <1>1, <2>1, ThrowsCounts
  <2>3. CASE j = n
    <3>1. \/ phase'[j] = "backoff" /\ status'[j] = status[j]
          \/ phase'[j] = "none" /\ status'[j] = "failed" /\ attempts[j] = MaxAttempts
      BY <1>1, <1>7, <2>3 DEF Fails, GivesUp, TypeOK
    <3>2. status[j] = "extracting"
      BY <1>1, <2>1, <2>3 DEF JobInv
    <3> QED BY <1>1, <2>1, <2>2, <2>3, <3>1, <3>2 DEF OutcomeOf
  <2>4. CASE j # n
    <3>1. phase'[j] = phase[j] /\ status'[j] = status[j]
      BY <1>1, <1>7, <2>4 DEF Fails, GivesUp, TypeOK
    <3> QED BY <1>2, <2>1, <2>2, <2>4, <3>1
  <2> QED BY <2>3, <2>4
<1>8. ASSUME NEW n \in Job, BackoffEnds(n)  PROVE OutcomeOf(j)'
  <2>1. UNCHANGED <<status, attempts, memory, failures>>
    BY <1>8 DEF BackoffEnds
  <2>2. phase'[j] = phase[j] \/ (phase[j] = "backoff" /\ phase'[j] = "none")
    BY <1>1, <1>8 DEF BackoffEnds, TypeOK
  <2> QED BY <1>1, <2>1, <2>2 DEF OutcomeOf
<1>9. CASE LoopExits \/ (\E b \in Batch : Expire(b)) \/ ShutDown \/ UNCHANGED vars
  BY <1>1, <1>2, <1>9, QuietSteps DEF Quiet
<1> QED BY <1>3, <1>4, <1>5, <1>6, <1>7, <1>8, <1>9 DEF Next, Loop, RunJob

\* A completed job extracted its memory, and a failed one either had a memory no
\* attempt could extract or met MaxAttempts failures that would have passed.
THEOREM OutcomesCorrect == Spec => []OutcomesAreTrue
<1> DEFINE OInv == \A j \in Job : OutcomeOf(j)
<1>1. QueueInv /\ OInv /\ [Next]_vars => OInv'
  BY OutcomeStep
<1>2. QueueInv /\ OInv => OutcomesAreTrue
  <2> SUFFICES ASSUME QueueInv, OInv, NEW j \in Job
               PROVE  /\ status[j] = "completed" => memory[j] = "extracted"
                      /\ status[j] = "failed" =>
                            /\ attempts[j] = MaxAttempts
                            /\ memory[j] = "bare" => failures >= MaxAttempts
    BY DEF OutcomesAreTrue
  <2>1. OutcomeOf(j) /\ JobInv(j)
    BY JobInvs
  <2>2. failures \in Nat /\ MaxAttempts \in Nat
    BY QueueAssumption DEF QueueInv, TypeOK, QueueAssumption
  <2>3. status[j] = "failed" => phase[j] = "none"
    BY <2>1 DEF JobInv, Over
  <2> QED BY <2>1, <2>2, <2>3 DEF OutcomeOf
<1> HIDE DEF OInv
<1>3. Init => OInv
  BY OutcomeInit DEF OInv
<1> QED BY <1>1, <1>2, <1>3, QueueInvHolds, PTL DEF Spec

-----------------------------------------------------------------------------
(* The service the queue implements                                        *)

SState == [j \in Job |-> Place(j)]
SVars  == <<SState, activeCount, attempts, shutdown>>

\* A job no step touches stays where it is.
LEMMA PlaceKept ==
    ASSUME NEW j \in Job, status'[j] = status[j], phase'[j] = phase[j],
           j \in Listed(pendingJobs)' <=> j \in Listed(pendingJobs)
    PROVE  Place(j)' = Place(j)
BY DEF Place, Over

LEMMA SubmitRefines ==
    ASSUME QueueInv, NEW S \in SUBSET {j \in Job : status[j] = "unsubmitted"},
           status' = [j \in Job |-> IF j \in S THEN "pending" ELSE status[j]],
           UNCHANGED <<phase, activeCount, attempts, shutdown>>,
           Listed(pendingJobs)' = Listed(pendingJobs) \cup S
    PROVE  Service!Submit(S)
<1>1. \A j \in S : Place(j) = "new"
  BY DEF Place
<1>2. ASSUME NEW j \in Job
      PROVE  Place(j)' = IF j \in S THEN "waiting" ELSE Place(j)
  <2>1. CASE j \in S
    <3>1. JobInv(j)
      BY JobInvs
    <3> QED BY <2>1, <3>1 DEF Place, Over, JobInv
  <2>2. CASE j \notin S
    BY <2>2, PlaceKept
  <2> QED BY <2>1, <2>2
<1> QED BY <1>1, <1>2 DEF Service!Submit

LEMMA StartRefines == ASSUME QueueInv, Dispatch  PROVE Service!Next
<1> DEFINE n == Head(pendingJobs)
<1>0. TypeOK
  BY DEF QueueInv
<1>1. /\ n \in Job /\ n \in Listed(pendingJobs)
      /\ Listed(pendingJobs) = Listed(Tail(pendingJobs)) \cup {n}
      /\ n \notin Listed(Tail(pendingJobs))
  BY <1>0, TailListed, JobInvs DEF Dispatch, MayDispatch, TypeOK
<1> HIDE DEF n
<1>2. /\ phase' = [phase EXCEPT ![n] = "processing"]
      /\ status' = [status EXCEPT ![n] = "extracting"]
      /\ attempts' = [attempts EXCEPT ![n] = @ + 1]
      /\ pendingJobs' = Tail(pendingJobs) /\ shutdown' = shutdown
      /\ ~shutdown /\ activeCount < Concurrency /\ activeCount' = activeCount + 1
  BY DEF Dispatch, MayDispatch, n
<1>3. JobInv(n)
  BY <1>1, JobInvs
<1>4. Place(n) = "waiting" /\ attempts[n] < MaxAttempts
  BY <1>0, <1>1, <1>3 DEF Place, JobInv
<1>6. ASSUME NEW j \in Job  PROVE Place(j)' = IF j = n THEN "running" ELSE Place(j)
  <2>1. CASE j = n
    BY <1>0, <1>2, <2>1 DEF TypeOK, Place, Over
  <2>2. CASE j # n
    <3>1. j \in Listed(pendingJobs)' <=> j \in Listed(pendingJobs)
      BY <1>1, <1>2, <2>2 DEF Listed
    <3>2. status'[j] = status[j] /\ phase'[j] = phase[j]
      BY <1>0, <1>2, <2>2 DEF TypeOK
    <3> QED BY <2>2, <3>1, <3>2, PlaceKept
  <2> QED BY <2>1, <2>2
<1>7. SState' = [SState EXCEPT ![n] = "running"]
  BY <1>6 DEF SState
<1>8. Service!Start(n)
  <2>1. SState[n] = "waiting"
    BY <1>1, <1>4 DEF SState
  <2>2. /\ ~shutdown /\ UNCHANGED shutdown
        /\ attempts[n] < MaxAttempts /\ attempts' = [attempts EXCEPT ![n] = @ + 1]
    BY <1>2, <1>4
  <2> QED BY <1>2, <1>7, <2>1, <2>2 DEF Service!Start, SState
<1> QED BY <1>1, <1>8 DEF Service!Next

\* The call of runJob for n ends and n goes where s says.
LEMMA EndRefines ==
    ASSUME QueueInv, NEW n \in Job, phase[n] # "none",
           NEW s \in {"waiting", "dropped", "completed", "failed"}, Place(n)' = s,
           \A j \in Job : j # n => /\ status'[j] = status[j] /\ phase'[j] = phase[j]
                                   /\ j \in Listed(pendingJobs)' <=> j \in Listed(pendingJobs),
           UNCHANGED <<attempts, shutdown>>, activeCount' = activeCount - 1,
           s = "waiting" => ~shutdown /\ attempts[n] < MaxAttempts,
           s = "dropped" => shutdown,
           s = "failed"  => attempts[n] = MaxAttempts
    PROVE  Service!Next
<1>1. Place(n) = "running"
  BY JobInvs DEF Place, Over, JobInv
<1>2. \A j \in Job : j # n => Place(j)' = Place(j)
  BY PlaceKept
<1>3. SState' = [SState EXCEPT ![n] = s]
  BY <1>2 DEF SState
<1>4. Service!Outcome(n, s)
  BY <1>1, <1>3 DEF Service!Outcome, SState
<1> QED BY <1>4 DEF Service!Next

LEMMA RunRefines ==
    ASSUME QueueInv, NEW n \in Job, RunJob(n)
    PROVE  Service!Next \/ UNCHANGED SVars
<1>1. TypeOK /\ JobInv(n) /\ attempts[n] <= MaxAttempts /\ attempts[n] \in Nat
      /\ MaxAttempts \in Nat
  BY JobInvs, QueueAssumption DEF QueueInv, TypeOK, QueueAssumption
<1>2. CASE Completes(n)
  <2>1. Place(n)' = "completed"
    BY <1>1, <1>2 DEF Completes, TypeOK, Place, Over
  <2>2. Listed(pendingJobs)' = Listed(pendingJobs)
    BY <1>2 DEF Completes, Listed
  <2> QED BY <1>1, <1>2, <2>1, <2>2, EndRefines DEF Completes, Release, TypeOK
<1>3. CASE GivesUp(n)
  <2>1. Place(n)' = "failed" /\ attempts[n] = MaxAttempts
    BY <1>1, <1>3 DEF GivesUp, TypeOK, Place, Over
  <2>2. Listed(pendingJobs)' = Listed(pendingJobs)
    BY <1>3 DEF GivesUp, Listed
  <2> QED BY <1>1, <1>3, <2>1, <2>2, EndRefines DEF GivesUp, Release, TypeOK
<1>4. CASE BackoffEnds(n)
  <2>1. /\ phase[n] = "backoff" /\ phase' = [phase EXCEPT ![n] = "none"]
        /\ UNCHANGED <<status, attempts, shutdown>>
        /\ pendingJobs' = IF shutdown THEN pendingJobs ELSE Append(pendingJobs, n)
        /\ activeCount' = activeCount - 1
    BY <1>4 DEF BackoffEnds, Release
  <2>2. /\ n \notin Listed(pendingJobs) /\ status[n] = "extracting"
        /\ attempts[n] < MaxAttempts
    BY <1>1, <2>1 DEF JobInv
  <2>3. Listed(pendingJobs)' = IF shutdown THEN Listed(pendingJobs)
                               ELSE Listed(pendingJobs) \cup {n}
    <3>1. Listed(pendingJobs') = IF shutdown THEN Listed(pendingJobs)
                                 ELSE Listed(pendingJobs) \cup {n}
      BY <1>1, <2>1, AppendListed DEF TypeOK
    <3> QED BY <3>1 DEF Listed
  <2>4. Place(n)' = IF shutdown THEN "dropped" ELSE "waiting"
    BY <1>1, <2>1, <2>2, <2>3 DEF TypeOK, Place, Over
  <2>5. \A j \in Job : j # n => /\ status'[j] = status[j] /\ phase'[j] = phase[j]
                                /\ j \in Listed(pendingJobs)' <=> j \in Listed(pendingJobs)
    BY <1>1, <2>1, <2>3 DEF TypeOK
  <2>6. CASE shutdown
    BY <2>1, <2>4, <2>5, <2>6, EndRefines
  <2>7. CASE ~shutdown
    BY <2>1, <2>2, <2>4, <2>5, <2>7, EndRefines
  <2> QED BY <2>6, <2>7
<1>5. CASE Fails(n)
  <2>1. /\ phase[n] = "processing" /\ phase' = [phase EXCEPT ![n] = "backoff"]
        /\ UNCHANGED <<status, activeCount, attempts, shutdown, pendingJobs>>
    BY <1>5 DEF Fails
  <2>2. Listed(pendingJobs)' = Listed(pendingJobs)
    BY <2>1 DEF Listed
  <2>3. ASSUME NEW j \in Job  PROVE Place(j)' = Place(j)
    <3>1. CASE j = n
      BY <1>1, <2>1, <2>2, <3>1 DEF Place, Over, JobInv, TypeOK
    <3>2. CASE j # n
      BY <1>1, <2>1, <2>2, <3>2, PlaceKept DEF TypeOK
    <3> QED BY <3>1, <3>2
  <2> QED BY <2>1, <2>3 DEF SVars, SState
<1> QED BY <1>2, <1>3, <1>4, <1>5 DEF RunJob

LEMMA ServiceRefines ==
    ASSUME QueueInv, [Next]_vars
    PROVE  Service!Next \/ UNCHANGED SVars
<1>0. TypeOK
  BY DEF QueueInv
<1>1. ASSUME NEW b \in Batch, CreateBatch(b)  PROVE Service!Next
  <2>1. PICK S \in SUBSET {j \in Job : status[j] = "unsubmitted"} :
          /\ \E order \in Orders(S) : pendingJobs' = pendingJobs \o order
          /\ status' = [j \in Job |-> IF j \in S THEN "pending" ELSE status[j]]
    BY <1>1 DEF CreateBatch
  <2>2. Listed(pendingJobs)' = Listed(pendingJobs) \cup S
    <3>1. Listed(pendingJobs') = Listed(pendingJobs) \cup S
      BY <1>0, <2>1, ConcatListed DEF TypeOK
    <3> QED BY <3>1 DEF Listed
  <2>3. Service!Submit(S)
    BY <1>1, <2>1, <2>2, SubmitRefines DEF CreateBatch
  <2> QED BY <2>3 DEF Service!Next
<1>2. ASSUME NEW n \in Job, EnqueueEmbedding(n)  PROVE Service!Next
  <2>1. {n} \in SUBSET {j \in Job : status[j] = "unsubmitted"}
    BY <1>2 DEF EnqueueEmbedding
  <2>2. Listed(pendingJobs)' = Listed(pendingJobs) \cup {n}
    BY <1>0, <1>2, AppendListed DEF EnqueueEmbedding, TypeOK, Listed
  <2>3. status' = [j \in Job |-> IF j \in {n} THEN "pending" ELSE status[j]]
    BY <1>0, <1>2 DEF EnqueueEmbedding, TypeOK
  <2>4. Service!Submit({n})
    BY <1>2, <2>1, <2>2, <2>3, SubmitRefines DEF EnqueueEmbedding
  <2> QED BY <2>4 DEF Service!Next
<1>3. ASSUME Quiet, shutdown' = shutdown  PROVE UNCHANGED SVars
  BY <1>3 DEF Quiet, SVars, SState, Place, Over, Listed
<1>4. CASE LoopExits \/ (\E b \in Batch : Expire(b)) \/ UNCHANGED vars
  <2>1. shutdown' = shutdown
    BY <1>4 DEF LoopExits, Expire, vars
  <2> QED BY <1>0, <1>3, <1>4, <2>1, QuietSteps
<1>5. CASE ShutDown
  <2>1. /\ SState' = SState /\ activeCount' = activeCount /\ attempts' = attempts
        /\ shutdown' = TRUE
    BY <1>5 DEF ShutDown, SState, Place, Over, Listed
  <2>2. Service!Close
    BY <2>1 DEF Service!Close, SState
  <2> QED BY <2>2 DEF Service!Next
<1> QED BY <1>1, <1>2, <1>4, <1>5, StartRefines, RunRefines DEF Next, Loop

\* The queue implements the service that JobService specifies, for any number of
\* jobs, batches, slots and attempts.
THEOREM QueueServesJobs == Spec => ServesJobs
<1>1. Init => Service!Init
  BY DEF Init, Service!Init, Place
<1>2. QueueInv /\ [Next]_vars => [Service!Next]_(Service!vars)
  <2>1. ASSUME UNCHANGED SVars  PROVE UNCHANGED Service!vars
    BY <2>1 DEF SVars, SState, Service!vars
  <2> QED BY ServiceRefines, <2>1
<1> QED BY <1>1, <1>2, QueueInvHolds, PTL DEF Spec, ServesJobs, Service!Spec
=============================================================================
