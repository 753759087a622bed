---------------------- MODULE EmbeddingPipelineProofs ----------------------
(***************************************************************************)
(* Type correctness of the embedding pipeline for any number of memories,  *)
(* workers, sweeps and requests, and any value of the limits.              *)
(***************************************************************************)
EXTENDS EmbeddingPipeline, TLAPS

-----------------------------------------------------------------------------
(* Typing                                                                  *)

\* Writing columns of one row leaves every row well typed.
LEMMA RowUpdates ==
    ASSUME NEW r \in [Memory -> Row], NEW i
    PROVE  /\ \A s \in Statuses : [r EXCEPT ![i].status = s] \in [Memory -> Row]
           /\ \A v \in Version : [r EXCEPT ![i].vector = v] \in [Memory -> Row]
           /\ \A v \in Version : [r EXCEPT ![i].text = v] \in [Memory -> Row]
           /\ \A c \in Column : /\ [r EXCEPT ![i].extraction = c] \in [Memory -> Row]
                               /\ [r EXCEPT ![i].embeddingId = c] \in [Memory -> Row]
                               /\ [r EXCEPT ![i].deletedAt = c] \in [Memory -> Row]
           /\ \A s \in Statuses, c \in Column :
                 [r EXCEPT ![i] = [@ EXCEPT !.status = s, !.embeddingId = c]]
                    \in [Memory -> Row]
           /\ \A s \in Statuses, d \in Memory \cup {NoMemory} :
                 [r EXCEPT ![i] = [@ EXCEPT !.status = s, !.dupOf = d]]
                    \in [Memory -> Row]
           /\ \A t \in Version, v \in Version :
                 [r EXCEPT ![i] = [@ EXCEPT !.text = t, !.vector = v]] \in [Memory -> Row]
<1>1. CASE i \in Memory
  <2>1. \A s \in Statuses : [r EXCEPT ![i].status = s] \in [Memory -> Row]
    BY <1>1 DEF Row
  <2>2. \A v \in Version : /\ [r EXCEPT ![i].vector = v] \in [Memory -> Row]
                           /\ [r EXCEPT ![i].text = v] \in [Memory -> Row]
    BY <1>1 DEF Row
  <2>3. \A c \in Column : /\ [r EXCEPT ![i].extraction = c] \in [Memory -> Row]
                          /\ [r EXCEPT ![i].embeddingId = c] \in [Memory -> Row]
                          /\ [r EXCEPT ![i].deletedAt = c] \in [Memory -> Row]
    BY <1>1 DEF Row
  <2>4. \A s \in Statuses, c \in Column :
           [r EXCEPT ![i] = [@ EXCEPT !.status = s, !.embeddingId = c]] \in [Memory -> Row]
    BY <1>1 DEF Row
  <2>5. \A s \in Statuses, d \in Memory \cup {NoMemory} :
           [r EXCEPT ![i] = [@ EXCEPT !.status = s, !.dupOf = d]] \in [Memory -> Row]
    BY <1>1 DEF Row
  <2>6. \A t \in Version, v \in Version :
           [r EXCEPT ![i] = [@ EXCEPT !.text = t, !.vector = v]] \in [Memory -> Row]
    BY <1>1 DEF Row
  <2> QED BY <2>1, <2>2, <2>3, <2>4, <2>5, <2>6
<1>2. CASE i \notin Memory
  <2> r = [k \in Memory |-> r[k]]
    OBVIOUS
  <2> QED BY <1>2
<1> QED BY <1>1, <1>2

\* A job that is over is well typed, and so is one that stalled.
LEMMA JobTypes ==
    ASSUME NEW j \in Job
    PROVE  /\ Ended("done") \in Job /\ Ended("failed") \in Job
           /\ Stalled(j) \in Job
<1>1. Ended("done") \in Job /\ Ended("failed") \in Job
  BY LimitsAssumption DEF LimitsAssumption, Ended, Job
<1>2. CASE j.stalls < MaxStalls
  <2> j.stalls + 1 \in 0..MaxStalls
    BY <1>2, LimitsAssumption DEF LimitsAssumption, Job
  <2> QED BY <1>1, <1>2 DEF Stalled, Job
<1>3. CASE ~(j.stalls < MaxStalls)
  BY <1>1, <1>3 DEF Stalled
<1> QED BY <1>1, <1>2, <1>3

\* What a slot reports keeps the jobs typed.
LEMMA ReportType ==
    ASSUME TypeOK, NEW w \in Workers, NEW j \in Job, Report(w, j)
    PROVE  job' \in [Memory -> Job]
BY DEF TypeOK, Report

\* Emptying or requeuing one entry of the retry map keeps the map typed.
LEMMA EntryUpdates ==
    ASSUME NEW q \in [Memory -> Entry], NEW i
    PROVE  /\ [q EXCEPT ![i] = NoEntry] \in [Memory -> Entry]
           /\ \A v \in Version :
                 [q EXCEPT ![i] = [state |-> "queued", raw |-> v, attempts |-> q[i].attempts + 1]]
                    \in [Memory -> Entry]
<1> 0 \in Version
  BY BoundsAssumption DEF BoundsAssumption, Version
<1>1. CASE i \in Memory
  <2> q[i].attempts + 1 \in Nat
    BY <1>1 DEF Entry
  <2> QED BY DEF Entry, NoEntry
<1>2. CASE i \notin Memory
  BY <1>2
<1> QED BY <1>1, <1>2

\* Writing the program counter of one actor keeps the actors typed.
LEMMA ActUpdates ==
    ASSUME NEW f \in [Actors -> Act], NEW a \in Actors, NEW p \in PCs
    PROVE  /\ [f EXCEPT ![a].pc = p] \in [Actors -> Act]
           /\ [f EXCEPT ![a].lost = TRUE] \in [Actors -> Act]
           /\ \A n \in Memory :
                 [f EXCEPT ![a] = [@ EXCEPT !.pc = p, !.match = n]] \in [Actors -> Act]
<1> QED BY DEF Act

\* The idle local state of an actor is well typed.
LEMMA IdleType == Idle \in Act
  BY BoundsAssumption, LimitsAssumption
     DEF BoundsAssumption, LimitsAssumption, Idle, Act, PCs, Version

\* So is the local state with which an actor leaves a memory.
LEMMA ResumeType ==
    ASSUME TypeOK, NEW a \in Actors
    PROVE  Resume(a) \in Act
<1> act[a] \in Act
  BY DEF TypeOK
<1> 0 \in Version
  BY BoundsAssumption DEF BoundsAssumption, Version
<1> QED BY IdleType DEF Resume, Act, PCs

\* So are the rows after the best-effort write of FAILED.
LEMMA MarkFailedType ==
    ASSUME TypeOK, NEW m, MarkFailed(m)
    PROVE  row' \in [Memory -> Row]
<1>1. CASE row' = [row EXCEPT ![m].status = "FAILED"]
  BY <1>1, RowUpdates DEF TypeOK, Statuses
<1> QED BY <1>1 DEF MarkFailed, TypeOK

\* So are the rows an aborted transaction leaves behind.
LEMMA RolledBackType ==
    ASSUME NEW t \in [Memory -> Row]
    PROVE  RolledBack(t) \in [Memory -> Row]
BY DEF RolledBack, Row, Statuses

\* The write path keeps the types.
LEMMA WritePathType ==
    ASSUME TypeOK, NEW m \in Memory, Post(m) \/ Delete(m)
    PROVE  TypeOK'
<1>f. ASSUME Failing  PROVE failures' \in 0..MaxFailures
  BY <1>f, BoundsAssumption DEF BoundsAssumption, TypeOK, Failing
<1>r. [row EXCEPT ![m] = RolledBack(row)[m]] \in [Memory -> Row]
  BY RolledBackType DEF TypeOK
<1>1. CASE Create(m)
  <2>1. row' \in [Memory -> Row]
    <3>1. PICK s \in {"PENDING", "uncommitted"} : row' = [row EXCEPT ![m].status = s]
      BY <1>1 DEF Create
    <3>2. s \in Statuses
      BY DEF Statuses
    <3> QED BY <3>1, <3>2, RowUpdates DEF TypeOK
  <2>2. job' \in [Memory -> Job]
    BY <1>1 DEF TypeOK, Create, Job
  <2> QED BY <1>1, <2>1, <2>2 DEF TypeOK, Create
<1>2. CASE Enqueue(m)
  BY <1>2 DEF TypeOK, Enqueue, Job
<1>3. CASE EnqueueFails(m)
  <2>1. job' \in [Memory -> Job]
    BY <1>3 DEF TypeOK, EnqueueFails, Job
  <2> QED BY <1>3, <1>f, <1>r, <2>1 DEF TypeOK, EnqueueFails
<1>4. CASE Delete(m)
  BY <1>4 DEF TypeOK, Delete, Row, Column
<1>5. CASE Commit(m)
  BY <1>5, RowUpdates DEF TypeOK, Commit, Statuses
<1>6. CASE CommitFails(m)
  BY <1>6, <1>f, <1>r DEF TypeOK, CommitFails
<1> QED BY <1>1, <1>2, <1>3, <1>4, <1>5, <1>6 DEF Post

\* The steps of the queue processor keep the types.
LEMMA ProcessorType ==
    ASSUME TypeOK, NEW w \in Workers,
           \/ Stall(w) \/ \E m \in Memory : Take(w, m)
           \/ SaveExtraction(w) \/ ExtractionExists(w) \/ PipelineFails(w)
           \/ MatchFound(w) \/ NoMatch(w) \/ MarkDuplicate(w) \/ MarkDuplicateFails(w)
    PROVE  TypeOK'
<1> w \in Actors
  BY DEF Actors
<1>0. act[w] \in Act
  BY DEF TypeOK
<1>f. ASSUME Failing  PROVE failures' \in 0..MaxFailures
  BY <1>f, BoundsAssumption DEF BoundsAssumption, TypeOK, Failing
<1>r. ASSUME Reject(w), failures' \in 0..MaxFailures  PROVE TypeOK'
  <2>1. row' \in [Memory -> Row]
    BY <1>r, MarkFailedType DEF Reject
  <2>2. job' \in [Memory -> Job]
    <3>1. CASE act[w].lost
      BY <1>r, <3>1 DEF TypeOK, Reject, Report
    <3>2. CASE act[w].m \notin Memory
      BY <1>r, <3>2 DEF TypeOK, Reject, Report
    <3>3. CASE act[w].m \in Memory
      <4>1. job[act[w].m] \in Job /\ job[act[w].m].attempts + 1 \in Nat
        BY <3>3 DEF TypeOK, Job
      <4>2. PICK j \in Job : Report(w, j)
        BY <1>r, <4>1, JobTypes DEF Reject, Job
      <4> QED BY <4>2, ReportType
    <3> QED BY <3>1, <3>2, <3>3
  <2> QED BY <1>r, <2>1, <2>2, IdleType DEF TypeOK, Reject
<1>1. ASSUME NEW m \in Memory, Take(w, m)  PROVE TypeOK'
  <2>1. job' \in [Memory -> Job]
    <3>1. job[m] \in Job
      BY DEF TypeOK
    <3>2. PICK j \in Job : job' = [job EXCEPT ![m] = j]
      BY <1>1, <3>1, JobTypes DEF Take, Job
    <3> QED BY <3>2 DEF TypeOK
  <2>2. [Idle EXCEPT !.pc = "extract", !.m = m] \in Act
    BY IdleType DEF Act, PCs
  <2>3. act' \in [Actors -> Act]
    BY <1>1, <2>2 DEF TypeOK, Take
  <2> QED BY <1>1, <2>1, <2>3 DEF TypeOK, Take
<1>2. CASE SaveExtraction(w)
  <2>1. row' \in [Memory -> Row]
    BY <1>2, RowUpdates DEF TypeOK, SaveExtraction, Column
  <2>2. act' \in [Actors -> Act]
    BY <1>2, ActUpdates DEF TypeOK, SaveExtraction, PCs
  <2> QED BY <1>2, <2>1, <2>2 DEF TypeOK, SaveExtraction
<1>3. CASE ExtractionExists(w)
  BY <1>3, <1>r DEF TypeOK, ExtractionExists
<1>4. CASE PipelineFails(w)
  BY <1>4, <1>r, <1>f DEF PipelineFails
<1>5. CASE MatchFound(w)
  <2>1. act' \in [Actors -> Act]
    <3>1. PICK n \in Memory : act' = [act EXCEPT ![w] = [@ EXCEPT !.pc = "markdup", !.match = n]]
      BY <1>5 DEF MatchFound, Candidates
    <3> QED BY <3>1, ActUpdates DEF TypeOK, PCs
  <2> QED BY <1>5, <2>1 DEF TypeOK, MatchFound
<1>c. ASSUME Completes(w)  PROVE job' \in [Memory -> Job] /\ act' \in [Actors -> Act]
  <2>1. Ended("done") \in Job
    BY LimitsAssumption DEF LimitsAssumption, Ended, Job
  <2> QED BY <1>c, <2>1, ReportType, IdleType DEF TypeOK, Completes
<1>6. CASE NoMatch(w)
  BY <1>6, <1>c DEF TypeOK, NoMatch
<1>7. CASE MarkDuplicate(w)
  <2>1. act[w].match \in Memory \cup {NoMemory}
    BY <1>0 DEF Act
  <2>2. row' \in [Memory -> Row]
    BY <1>7, <2>1, RowUpdates DEF TypeOK, MarkDuplicate, Statuses
  <2> QED BY <1>7, <1>c, <2>2 DEF TypeOK, MarkDuplicate
<1>8. CASE MarkDuplicateFails(w)
  BY <1>8, <1>c, <1>f DEF TypeOK, MarkDuplicateFails
<1>9. CASE Stall(w)
  <2>1. job' \in [Memory -> Job]
    <3>1. CASE act[w].m \in Memory
      BY <1>9, <3>1, JobTypes DEF TypeOK, Stall
    <3>2. CASE act[w].m \notin Memory
      BY <1>9, <3>2 DEF TypeOK, Stall
    <3> QED BY <3>1, <3>2
  <2>2. act' \in [Actors -> Act]
    BY <1>9, ActUpdates DEF TypeOK, Stall, PCs
  <2> QED BY <1>9, <2>1, <2>2 DEF TypeOK, Stall
<1> QED BY <1>1, <1>2, <1>3, <1>4, <1>5, <1>6, <1>7, <1>8, <1>9

\* The embedding steps that every actor shares keep the types.
LEMMA EmbedType ==
    ASSUME TypeOK, NEW a \in Actors,
           Embed(a) \/ Mark(a) \/ Unqueue(a) \/ EmbedFails(a) \/ Pick(a)
    PROVE  TypeOK'
<1>0. act[a].raw \in Version /\ act[a] \in Act
  BY DEF TypeOK, Act
<1>1. CASE Embed(a)
  <2>1. row' \in [Memory -> Row]
    BY <1>1, <1>0, RowUpdates DEF TypeOK, Embed
  <2>2. act' \in [Actors -> Act]
    BY <1>1, IdleType, ActUpdates DEF TypeOK, Embed, PCs
  <2> QED BY <1>1, <2>1, <2>2 DEF TypeOK, Embed
<1>2. CASE Mark(a)
  <2>1. row' \in [Memory -> Row]
    BY <1>2, RowUpdates DEF TypeOK, Mark, Statuses, Column
  <2>2. act' \in [Actors -> Act]
    BY <1>2, ActUpdates DEF TypeOK, Mark, PCs
  <2> QED BY <1>2, <2>1, <2>2 DEF TypeOK, Mark
<1>3. CASE Unqueue(a)
  <2>1. retry' \in [Memory -> Entry]
    BY <1>3, EntryUpdates DEF TypeOK, Unqueue
  <2> QED BY <1>3, <2>1, ResumeType DEF TypeOK, Unqueue
<1>4. CASE EmbedFails(a)
  <2>1. row' \in [Memory -> Row]
    BY <1>4, MarkFailedType DEF EmbedFails
  <2>2. retry' \in [Memory -> Entry]
    BY <1>4, <1>0, EntryUpdates DEF TypeOK, EmbedFails
  <2>3. failures' \in 0..MaxFailures
    BY <1>4, BoundsAssumption DEF BoundsAssumption, TypeOK, EmbedFails, Failing
  <2> QED BY <1>4, <2>1, <2>2, <2>3, ResumeType DEF TypeOK, EmbedFails
<1>5. CASE Pick(a)
  <2> PICK e \in act[a].batch :
         act' = [act EXCEPT ![a] = [@ EXCEPT !.pc = "embed", !.m = e[1], !.raw = e[2],
                                             !.batch = act[a].batch \ {e}]]
    BY <1>5 DEF Pick
  <2>1. e[1] \in Memory /\ e[2] \in Version
    BY <1>0 DEF Act, Todo
  <2>2. act[a].batch \ {e} \in SUBSET Todo
    BY <1>0 DEF Act
  <2>3. act' \in [Actors -> Act]
    <3>1. [act[a] EXCEPT !.pc = "embed", !.m = e[1], !.raw = e[2],
                         !.batch = act[a].batch \ {e}] \in Act
      BY <1>0, <2>1, <2>2 DEF Act, PCs
    <3> QED BY <3>1 DEF TypeOK
  <2> QED BY <1>5, <2>3 DEF TypeOK, Pick
<1> QED BY <1>1, <1>2, <1>3, <1>4, <1>5

\* Starting a sweep, healing and editing keep the types.
LEMMA SweepType ==
    ASSUME TypeOK, NEW a \in Actors,
           \/ ReadPage(a) \/ DiscoverFails(a) \/ QueuePage(a) \/ HealStart(a) \/ Healed(a) \/ HealFails(a)
           \/ EditFails(a) \/ \E m \in Memory : Edit(a, m) \/ EditCommits(a, m)
    PROVE  TypeOK'
<1>f. ASSUME Failing  PROVE failures' \in 0..MaxFailures
  BY <1>f, BoundsAssumption DEF BoundsAssumption, TypeOK, Failing
<1>b. ASSUME NEW todo \in SUBSET Todo
      PROVE  [Idle EXCEPT !.pc = "next", !.batch = todo] \in Act
  BY IdleType DEF Act, PCs
<1>1. CASE ReadPage(a)
  <2> DEFINE S == {<<m, row[m].text>> : m \in Page(act[a].page)}
  <2>1. S \in SUBSET Todo
    <3>1. \A m \in Memory : row[m].text \in Version
      BY DEF TypeOK, Row
    <3>2. \A m \in Page(act[a].page) : <<m, row[m].text>> \in Todo
      BY <3>1 DEF Page, Unembedded, Todo
    <3> QED BY <3>2
  <2>2. act' = [act EXCEPT ![a] = [@ EXCEPT !.pc = "page", !.batch = S]]
    BY <1>1 DEF ReadPage
  <2> HIDE DEF S
  <2>3. act' \in [Actors -> Act]
    <3>1. act[a] \in Act
      BY DEF TypeOK
    <3>2. [act[a] EXCEPT !.pc = "page", !.batch = S] \in Act
      BY <2>1, <3>1 DEF Act, PCs
    <3> QED BY <2>2, <3>2 DEF TypeOK
  <2> QED BY <1>1, <2>3 DEF TypeOK, ReadPage
<1>d. CASE DiscoverFails(a)
  BY <1>d, <1>f, IdleType DEF TypeOK, DiscoverFails
<1>q. CASE QueuePage(a)
  <2>1. retry' \in [Memory -> Entry]
    <3>1. \A e \in NewInPage(a) : NewEntry(e) \in Entry
      BY DEF TypeOK, Act, Todo, NewInPage, NewEntry, Entry
    <3>2. \A m \in Memory : retry'[m] \in Entry
      BY <1>q, <3>1 DEF QueuePage, TypeOK
    <3> QED BY <1>q, <3>2 DEF QueuePage
  <2>2. Entries(retry') \in SUBSET Todo
    BY <2>1 DEF Entries, Entry, Todo
  <2>3. Sweep(Entries(retry')) \in Act
    BY <2>2, <1>b, IdleType DEF Sweep
  <2>4. [Idle EXCEPT !.pc = "discover", !.page = act[a].page + 1] \in Act
    <3>1. act[a].page + 1 \in Nat
      BY DEF TypeOK, Act
    <3> QED BY <3>1, IdleType DEF Act, PCs
  <2>5. act' \in [Actors -> Act]
    BY <1>q, <2>3, <2>4 DEF TypeOK, QueuePage
  <2> QED BY <1>q, <2>1, <2>5 DEF TypeOK, QueuePage
<1>2. CASE HealStart(a)
  <2> DEFINE todo == {<<m, row[m].text>> : m \in {n \in Unhealed :
                         Cardinality({k \in Unhealed : k > n}) < HealBatch}}
  <2>1. todo \in SUBSET Todo
    <3>1. \A m \in Memory : row[m].text \in Version
      BY DEF TypeOK, Row
    <3>2. \A m \in Unhealed : m \in Memory /\ <<m, row[m].text>> \in Todo
      BY <3>1 DEF Unhealed, Todo
    <3> QED BY <3>2
  <2>2. act' = [act EXCEPT ![a] = [Idle EXCEPT !.pc = "next", !.batch = todo]]
    BY <1>2 DEF HealStart
  <2>3. act' \in [Actors -> Act]
    BY <2>1, <2>2, <1>b DEF TypeOK
  <2> QED BY <1>2, <2>3 DEF TypeOK, HealStart
<1>3. CASE Healed(a)
  <2>1. row' \in [Memory -> Row]
    BY <1>3, RowUpdates DEF TypeOK, Healed, Column
  <2> QED BY <1>3, <2>1, ResumeType DEF TypeOK, Healed
<1>4. CASE HealFails(a)
  <2>1. act[a] \in Act /\ act[a].misses \in 0..HealFailLimit
    BY DEF TypeOK, Act
  <2>2. act[a].misses + 1 < HealFailLimit => act[a].misses + 1 \in 0..HealFailLimit
    BY <2>1, LimitsAssumption DEF LimitsAssumption
  <2>3. ASSUME act[a].misses + 1 \in 0..HealFailLimit
        PROVE  [Resume(a) EXCEPT !.misses = act[a].misses + 1] \in Act
    BY <2>3, ResumeType DEF Act
  <2>4. act[a].batch # {} => Resume(a).misses = act[a].misses
    BY <2>1 DEF Resume, Act
  <2>5. act' \in [Actors -> Act]
    BY <1>4, <2>1, <2>2, <2>3, <2>4, IdleType, LimitsAssumption
       DEF LimitsAssumption, TypeOK, HealFails
  <2> QED BY <1>4, <2>5, <1>f DEF TypeOK, HealFails
<1>5. CASE EditFails(a)
  BY <1>5, <1>f, IdleType DEF TypeOK, EditFails
<1>t. ASSUME NEW m \in Memory, row[m].text < MaxEdits  PROVE row[m].text + 1 \in Version
  <2>1. row[m].text \in Version
    BY DEF TypeOK, Row
  <2> QED BY <1>t, <2>1, BoundsAssumption DEF BoundsAssumption, Version
<1>6. ASSUME NEW m \in Memory, Edit(a, m)  PROVE TypeOK'
  <2>1. row[m].text + 1 \in Version
    BY <1>6, <1>t DEF Edit
  <2>2. row' \in [Memory -> Row]
    BY <1>6, <2>1, RowUpdates DEF TypeOK, Edit
  <2>3. [Idle EXCEPT !.pc = "embed", !.m = m, !.raw = row[m].text + 1] \in Act
    BY <2>1, IdleType DEF Act, PCs
  <2>4. act' \in [Actors -> Act]
    BY <1>6, <2>3 DEF TypeOK, Edit
  <2> QED BY <1>6, <2>2, <2>4 DEF TypeOK, Edit
<1>7. ASSUME NEW m \in Memory, EditCommits(a, m)  PROVE TypeOK'
  <2>1. row[m].text + 1 \in Version
    BY <1>7, <1>t DEF EditCommits
  <2>2. row' \in [Memory -> Row]
    BY <1>7, <2>1, RowUpdates DEF TypeOK, EditCommits
  <2> QED BY <1>7, <2>2 DEF TypeOK, EditCommits
<1> QED BY <1>1, <1>d, <1>q, <1>2, <1>3, <1>4, <1>5, <1>6, <1>7

\* A restart keeps the types.
LEMMA RestartType ==
    ASSUME TypeOK, Restart
    PROVE  TypeOK'
<1>1. job' \in [Memory -> Job]
  <2> SUFFICES ASSUME NEW m \in Memory  PROVE job'[m] \in Job
    BY DEF Restart
  <2>1. job[m] \in Job
    BY DEF TypeOK
  <2>2. [job[m] EXCEPT !.state = "lost"] \in Job
    BY <2>1 DEF Job
  <2> QED BY <2>1, <2>2, JobTypes DEF Restart
<1>2. retry' \in [Memory -> Entry]
  <2> 0 \in Version
    BY BoundsAssumption DEF BoundsAssumption, Version
  <2> QED BY DEF Restart, Entry, NoEntry
<1>3. restarts' \in 0..MaxRestarts
  <2> restarts \in 0..MaxRestarts /\ restarts < MaxRestarts /\ restarts' = restarts + 1
    BY DEF TypeOK, Restart
  <2> QED BY BoundsAssumption DEF BoundsAssumption
<1>4. row' \in [Memory -> Row]
  BY RolledBackType DEF TypeOK, Restart
<1> QED BY <1>1, <1>2, <1>3, <1>4, IdleType DEF TypeOK, Restart

\* Every variable of the pipeline stays in its type (EmbeddingPipeline's rows,
\* jobs, retry map and actors), whatever the numbers of actors and memories.
THEOREM TypeCorrect == Spec => []TypeOK
<1>1. Init => TypeOK
  <2> SUFFICES ASSUME Init  PROVE TypeOK
    OBVIOUS
  <2>0. 0 \in Version /\ 0 \in 0..MaxStalls /\ 0 \in 0..MaxFailures /\ 0 \in 0..MaxRestarts
    BY BoundsAssumption, LimitsAssumption
       DEF BoundsAssumption, LimitsAssumption, Version
  <2>1. NoRow \in Row
    BY <2>0 DEF NoRow, Row, Statuses, Column
  <2> QED BY <2>0, <2>1, IdleType DEF Init, TypeOK, Job, Entry, NoEntry
<1>2. TypeOK /\ [Next]_vars => TypeOK'
  <2> SUFFICES ASSUME TypeOK, [Next]_vars  PROVE TypeOK'
    OBVIOUS
  <2>1. CASE UNCHANGED vars
    BY <2>1 DEF vars, TypeOK
  <2>2. CASE Next
    BY <2>2, WritePathType, ProcessorType, EmbedType, SweepType, RestartType
       DEF Next, WorkerStep, RetrierStep, HealerStep, EditorStep, Actors
  <2> QED BY <2>1, <2>2
<1> QED BY <1>1, <1>2, PTL DEF Spec
=============================================================================
