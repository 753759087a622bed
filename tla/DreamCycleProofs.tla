-------------------------- MODULE DreamCycleProofs ---------------------------
(***************************************************************************)
(* Proofs about DreamCycle, for any number of runs, flows, instances,      *)
(* connections, memories and failures.                                     *)
(***************************************************************************)
EXTENDS DreamCycle, TLAPS

\* The stages are constants; these are the facts the proofs need of them.
LEMMA StageFacts ==
    /\ Len(RunStages) = 11 /\ DOMAIN RunStages = 1..11
    /\ Len(FlowStages) = 9 /\ DOMAIN FlowStages = 1..9
    /\ RunStages[1] = "pending" /\ RunStages[2] = "tiering" /\ RunStages[3] = "consolidation"
    /\ \A i \in 1..11 : i # 3 => RunStages[i] # "consolidation"
    /\ \A i \in 1..11 : i # 1 => RunStages[i] # "pending"
    /\ FlowStages[1] = "pending"
    /\ \A i \in 1..9 : i # 1 => FlowStages[i] # "pending"
BY DEF RunStages, FlowStages

LEMMA StepRange == \A i \in 0..11 : i \in 0..Len(RunStages)
BY StageFacts

\* What a flow's job j and its run r say of each other: the job is active while its
\* stage is at work in some instance, and has an attempt left unless it is over.
FlowOK(r, j) ==
    /\ r.pc \in StagePCs <=> j.state = "active"
    /\ r.at # None => r.pc \in StagePCs
    /\ r.pc \in StagePCs \cup {"idle", "next", "over"}
    /\ r.pc = "idle" <=> r.step = 0
    /\ r.pc = "over" <=> j.state = "done"
    /\ j.state = "none" => r.pc = "idle"
    /\ j.state \in {"none", "waiting", "active"} => j.attempts < MaxAttempts
    /\ r.step <= 9

RunOK(r) ==
    /\ r.pc \in StagePCs => r.step \in 1..11
    /\ r.pc \in {"idle", "report"} => r.step = 0

\* The pending stage is the first, and has a candidate while it merges one.
PendingOK(r) ==
    /\ r.pc \in {"list", "check", "event", "hide", "status", "reject"} => r.step = 1
    /\ r.pc \in {"check", "event", "hide", "status", "reject"} => r.cand \in Candidate

StandInv ==
    \A c \in Cycle : /\ PendingOK(run[c])
                     /\ c \in Runs => RunOK(run[c])
                     /\ c \in Flows => FlowOK(run[c], job[c])

\* What was merged is in the log before the row is hidden, and stays there.
TraceOK(r, E, I) ==
    /\ r.pc \in {"hide", "status"} => r.cand \in E
    /\ r.pc = "status" => I[r.cand[2]] # None

TraceInv ==
    /\ \A c \in Cycle : TraceOK(run[c], events, into)
    /\ HiddenHasEvent
    /\ MergedWasMerged

\* Only the stage a run is in may be recorded as started; the identity stage never is.
RecordOK(r, rep, recs) ==
    /\ rep = "COMPLETED" => r.pc \in {"catch", "release", "over"}
    /\ (rep = "COMPLETED" \/ r.pc \in {"idle", "report", "next", "start", "finish"}) =>
          \A s \in Stage : recs[s] # "STARTED"
    /\ r.pc \in StagePCs \ {"start"} =>
          \A s \in Stage : recs[s] = "STARTED" => s = RunStages[r.step] /\ s # "identity"

RecordInv == \A c \in Runs : RecordOK(run[c], report[c], record[c])

\* What a run has spent is what it counted, what its stage will report, and what was
\* lost; the stages with a budget stay within it, and consolidation comes but once.
BudgetOK(r, x) ==
    /\ x.calls <= MaxLlmCalls + MaxConsolidations + x.lost
    /\ r.pc # "over" => x.calls <= r.used + r.calls + x.lost
    /\ r.used + r.calls <= MaxLlmCalls + MaxConsolidations
    /\ r.pc = "idle" => r.used = 0
    /\ r.pc \in {"idle", "report", "next", "start", "list", "error"} => r.calls = 0
    /\ r.pc = "work" /\ r.step # 1 => r.calls = 0
    /\ r.step <= 2 => r.used + r.calls <= MaxLlmCalls
    /\ r.step = 3 /\ r.pc \in StagePCs => r.used <= MaxLlmCalls /\ r.calls <= MaxConsolidations
    /\ r.pc \in StagePCs /\ RunStages[r.step] \in Budgeted => r.used + r.calls <= MaxLlmCalls
    /\ r.pc \in StagePCs /\ RunStages[r.step] \notin Budgeted /\ r.step # 3 => r.calls = 0

BudgetInv == \A c \in Runs : BudgetOK(run[c], spent[c])

\* A cycle whose pending stage is at work, and one that is about to hide a memory.
Mid(r) == r.step = 1 /\ r.pc \in StagePCs \ {"start"}
Merging(r) == r.pc \in {"event", "hide"}

\* No memory is merged with itself.
PairsOK(r) ==
    /\ \A p \in r.list : p[1] # p[2]
    /\ r.pc \in {"check", "event", "hide", "status", "reject"} => r.cand[1] # r.cand[2]

Alone ==
    /\ \A c, d \in Cycle : c # d => ~Mid(run[c]) \/ ~Mid(run[d])
    /\ \A c \in Cycle : Merging(run[c]) =>
          into[run[c].cand[1]] = None /\ into[run[c].cand[2]] = None

Reachable ==
    \A M \in SUBSET Memory :
        (M # {} /\ \A m \in M : into[m] # None) => \E m \in M : into[m] \notin M

AloneInv ==
    /\ \A c \in Cycle : PairsOK(run[c])
    /\ \A p \in Candidate : cand[p] # "none" => p[1] # p[2]
    /\ overlapped = FALSE => Alone /\ Reachable

TypeInv == TypeOK /\ StandInv
IInv == TypeInv /\ TraceInv /\ RecordInv /\ BudgetInv /\ AloneInv

\* What the other cycles leave alone.
LEMMA OneStands ==
    ASSUME StandInv, NEW c \in Cycle, \A d \in Cycle \ {c} : run'[d] = run[d],
           \A f \in Flows \ {c} : job'[f] = job[f],
           PendingOK(run'[c]), c \in Runs => RunOK(run'[c]), c \in Flows => FlowOK(run'[c], job'[c])
    PROVE  StandInv'
<1> SUFFICES ASSUME NEW d \in Cycle
             PROVE  /\ PendingOK(run'[d])
                    /\ d \in Runs => RunOK(run'[d])
                    /\ d \in Flows => FlowOK(run'[d], job'[d])
  BY DEF StandInv
<1>1. CASE d = c
  BY <1>1
<1>2. CASE d # c
  <2>1. run'[d] = run[d] /\ (d \in Flows => job'[d] = job[d])
    BY <1>2
  <2> QED BY <2>1 DEF StandInv
<1> QED BY <1>1, <1>2

LEMMA OneRecord ==
    ASSUME RecordInv, NEW c \in Cycle, \A d \in Cycle \ {c} : run'[d] = run[d],
           \A d \in Runs \ {c} : report'[d] = report[d] /\ record'[d] = record[d],
           c \in Runs => RecordOK(run'[c], report'[c], record'[c])
    PROVE  RecordInv'
<1> SUFFICES ASSUME NEW d \in Runs PROVE RecordOK(run'[d], report'[d], record'[d])
  BY DEF RecordInv
<1>1. CASE d = c
  BY <1>1
<1>2. CASE d # c
  <2>1. run'[d] = run[d] /\ report'[d] = report[d] /\ record'[d] = record[d]
    BY <1>2 DEF Cycle
  <2> QED BY <2>1 DEF RecordInv
<1> QED BY <1>1, <1>2

LEMMA OneBudget ==
    ASSUME BudgetInv, NEW c \in Cycle, \A d \in Cycle \ {c} : run'[d] = run[d],
           \A d \in Runs \ {c} : spent'[d] = spent[d],
           c \in Runs => BudgetOK(run'[c], spent'[c])
    PROVE  BudgetInv'
<1> SUFFICES ASSUME NEW d \in Runs PROVE BudgetOK(run'[d], spent'[d])
  BY DEF BudgetInv
<1>1. CASE d = c
  BY <1>1
<1>2. CASE d # c
  <2>1. run'[d] = run[d] /\ spent'[d] = spent[d]
    BY <1>2 DEF Cycle
  <2> QED BY <2>1 DEF BudgetInv
<1> QED BY <1>1, <1>2

LEMMA OneTrace ==
    ASSUME TraceInv, NEW c \in Cycle, \A d \in Cycle \ {c} : run'[d] = run[d],
           UNCHANGED tables, TraceOK(run'[c], events, into)
    PROVE  TraceInv'
<1>1. into' = into /\ cand' = cand /\ events' = events
  BY DEF tables
<1>2. \A d \in Cycle : TraceOK(run'[d], events', into')
  <2> SUFFICES ASSUME NEW d \in Cycle PROVE TraceOK(run'[d], events, into)
    BY <1>1
  <2>1. CASE d = c
    BY <2>1
  <2>2. CASE d # c
    <3>1. run'[d] = run[d]
      BY <2>2
    <3> QED BY <3>1 DEF TraceInv
  <2> QED BY <2>1, <2>2
<1> QED BY <1>1, <1>2 DEF TraceInv, HiddenHasEvent, MergedWasMerged

LEMMA OnePair ==
    ASSUME AloneInv, NEW c \in Cycle, \A d \in Cycle \ {c} : run'[d] = run[d], PairsOK(run'[c])
    PROVE  \A d \in Cycle : PairsOK(run'[d])
<1> SUFFICES ASSUME NEW d \in Cycle PROVE PairsOK(run'[d])
  OBVIOUS
<1>1. CASE d = c
  BY <1>1
<1>2. CASE d # c
  <2>1. run'[d] = run[d]
    BY <1>2
  <2> QED BY <2>1 DEF AloneInv
<1> QED BY <1>1, <1>2

LEMMA OneAlone ==
    ASSUME AloneInv, NEW c \in Cycle, \A d \in Cycle \ {c} : run'[d] = run[d],
           into' = into, \A p \in Candidate : cand'[p] # "none" => p[1] # p[2],
           overlapped' = overlapped, PairsOK(run'[c]),
           Mid(run'[c]) => Mid(run[c]),
           Merging(run'[c]) => Merging(run[c]) /\ run'[c].cand = run[c].cand
    PROVE  AloneInv'
<1>1. \A d \in Cycle : PairsOK(run'[d])
  BY OnePair
<1>2. \A d \in Cycle : Mid(run'[d]) => Mid(run[d])
  OBVIOUS
<1>3. \A d \in Cycle : Merging(run'[d]) => Merging(run[d]) /\ run'[d].cand = run[d].cand
  OBVIOUS
<1>4. ASSUME overlapped' = FALSE PROVE Alone' /\ Reachable'
  <2>1. Alone /\ Reachable
    BY <1>4 DEF AloneInv
  <2>2. Alone'
    BY <1>2, <1>3, <2>1 DEF Alone
  <2> QED BY <2>1, <2>2 DEF Reachable
<1> QED BY <1>1, <1>4 DEF AloneInv

\* A step of one cycle that leaves the tables of the memories alone.
Ordinary(c) ==
    /\ \A d \in Cycle \ {c} : run'[d] = run[d]
    /\ \A f \in Flows \ {c} : job'[f] = job[f]
    /\ \A d \in Runs \ {c} : report'[d] = report[d] /\ record'[d] = record[d]
    /\ \A d \in Runs \ {c} : spent'[d] = spent[d]
    /\ UNCHANGED tables /\ UNCHANGED overlapped
    /\ PendingOK(run'[c]) /\ (c \in Runs => RunOK(run'[c]))
    /\ c \in Flows => FlowOK(run'[c], job'[c])
    /\ TraceOK(run'[c], events, into)
    /\ c \in Runs => RecordOK(run'[c], report'[c], record'[c])
    /\ c \in Runs => BudgetOK(run'[c], spent'[c])
    /\ PairsOK(run'[c])
    /\ Mid(run'[c]) => Mid(run[c])
    /\ Merging(run'[c]) => Merging(run[c]) /\ run'[c].cand = run[c].cand

LEMMA OrdinaryStep == ASSUME IInv, NEW c \in Cycle, Ordinary(c), TypeOK' PROVE IInv'
<1>1. StandInv'
  BY OneStands DEF Ordinary, IInv, TypeInv
<1>2. TraceInv'
  BY OneTrace DEF Ordinary, IInv
<1>3. RecordInv'
  BY OneRecord DEF Ordinary, IInv
<1>4. BudgetInv'
  BY OneBudget DEF Ordinary, IInv
<1>5. into' = into /\ cand' = cand /\ overlapped' = overlapped
  BY DEF Ordinary, tables
<1>6. \A p \in Candidate : cand'[p] # "none" => p[1] # p[2]
  BY <1>5 DEF IInv, AloneInv
<1>7. AloneInv'
  BY <1>5, <1>6, OneAlone DEF Ordinary, IInv
<1> QED BY <1>1, <1>2, <1>3, <1>4, <1>7 DEF IInv, TypeInv

\* A step of c that only moves its pc.
LEMMA GoFacts ==
    ASSUME TypeOK, NEW c \in Cycle, NEW pc \in PCs,
           Go(c, pc)
    PROVE  /\ run' \in [Cycle -> RunRec]
           /\ run'[c].pc = pc /\ run'[c].at = run[c].at /\ run'[c].step = run[c].step
           /\ run'[c].only = run[c].only /\ run'[c].used = run[c].used
           /\ run'[c].calls = run[c].calls /\ run'[c].list = run[c].list
           /\ run'[c].cand = run[c].cand
           /\ \A d \in Cycle \ {c} : run'[d] = run[d]
<1>1. run[c] \in RunRec /\ run \in [Cycle -> RunRec] /\ c \in Cycle
  BY DEF TypeOK, Cycle
<1> QED BY <1>1 DEF Go, RunRec, PCs, StagePCs

\* A step of c that drops its candidate.
LEMMA BackFacts ==
    ASSUME TypeOK, NEW c \in Cycle,
           Back(c)
    PROVE  /\ run' \in [Cycle -> RunRec]
           /\ run'[c].pc = "work" /\ run'[c].at = run[c].at /\ run'[c].step = run[c].step
           /\ run'[c].only = run[c].only /\ run'[c].used = run[c].used
           /\ run'[c].calls = run[c].calls /\ run'[c].list = run[c].list
           /\ run'[c].cand = None
           /\ \A d \in Cycle \ {c} : run'[d] = run[d]
<1>1. run[c] \in RunRec /\ run \in [Cycle -> RunRec] /\ c \in Cycle
  BY DEF TypeOK, Cycle
<1> QED BY <1>1 DEF Back, RunRec, PCs, StagePCs

\* A throw in a sequential run.
LEMMA ThrowRunFacts ==
    ASSUME TypeOK, NEW c \in Runs,
           Throw(c)
    PROVE  /\ run' \in [Cycle -> RunRec]
           /\ run'[c].pc = "catch" /\ run'[c].at = run[c].at
           /\ run'[c].step = run[c].step /\ run'[c].only = run[c].only
           /\ run'[c].used = run[c].used /\ run'[c].calls = run[c].calls
           /\ run'[c].list = run[c].list /\ run'[c].cand = run[c].cand
           /\ \A d \in Cycle \ {c} : run'[d] = run[d]
           /\ UNCHANGED job
<1>1. run[c] \in RunRec /\ run \in [Cycle -> RunRec] /\ c \in Cycle
  BY DEF TypeOK, Cycle
<1> QED BY <1>1 DEF Throw, Go, RunRec, PCs, StagePCs

\* A throw in a stage job.
LEMMA ThrowFlowFacts ==
    ASSUME TypeOK, NEW c \in Flows, Throw(c), job[c].state = "active", job[c].attempts < MaxAttempts
    PROVE  /\ run' \in [Cycle -> RunRec]
           /\ run'[c].pc = "next" /\ run'[c].at = None /\ run'[c].step = run[c].step
           /\ run'[c].only = run[c].only /\ run'[c].used = run[c].used
           /\ run'[c].calls = 0 /\ run'[c].list = {} /\ run'[c].cand = None
           /\ \A d \in Cycle \ {c} : run'[d] = run[d]
           /\ job' \in [Flows -> JobRec]
           /\ job'[c].state = (IF job[c].attempts + 1 < MaxAttempts THEN "waiting" ELSE "failed")
           /\ job'[c].attempts = job[c].attempts + 1
           /\ \A f \in Flows \ {c} : job'[f] = job[f]
<1>1. run[c] \in RunRec /\ run \in [Cycle -> RunRec] /\ c \in Cycle /\ job[c] \in JobRec
  BY DEF TypeOK, Cycle
<1>2. c \notin Runs
  BY DreamSets
<1>3. PICK r : r = [run[c] EXCEPT !.pc = "next", !.at = None, !.calls = 0, !.list = {}, !.cand = None]
  OBVIOUS
<1>4. /\ r.pc = "next" /\ r.at = None /\ r.step = run[c].step /\ r.only = run[c].only
      /\ r.used = run[c].used /\ r.calls = 0 /\ r.list = {} /\ r.cand = None /\ r \in RunRec
  BY <1>1, <1>3, StageFacts DEF RunRec, PCs, StagePCs
<1>5. run' = [run EXCEPT ![c] = r]
  BY <1>2, <1>3 DEF Throw
<1>6. PICK j : j = [job[c] EXCEPT !.attempts = job[c].attempts + 1,
                      !.state = IF job[c].attempts + 1 < MaxAttempts THEN "waiting" ELSE "failed"]
  OBVIOUS
<1>7. job' = [job EXCEPT ![c] = j]
  BY <1>2, <1>6 DEF Throw
<1>8. /\ j.attempts = job[c].attempts + 1 /\ j.stalls = job[c].stalls
      /\ j.state = (IF job[c].attempts + 1 < MaxAttempts THEN "waiting" ELSE "failed")
  BY <1>1, <1>6 DEF JobRec
<1>9. j \in JobRec
  <2>1. job[c].attempts + 1 \in 0..MaxAttempts
    BY <1>1, DreamBounds DEF JobRec
  <2>2. j = [state |-> (IF job[c].attempts + 1 < MaxAttempts THEN "waiting" ELSE "failed"),
             attempts |-> job[c].attempts + 1, stalls |-> job[c].stalls]
    BY <1>1, <1>6 DEF JobRec
  <2> QED BY <1>1, <2>1, <2>2 DEF JobRec
<1>10. job \in [Flows -> JobRec]
  BY DEF TypeOK
<1>11. run'[c] = r /\ run' \in [Cycle -> RunRec] /\ \A d \in Cycle \ {c} : run'[d] = run[d]
  BY <1>1, <1>4, <1>5
<1>12. job'[c] = j /\ job' \in [Flows -> JobRec] /\ \A f \in Flows \ {c} : job'[f] = job[f]
  BY <1>7, <1>9, <1>10
<1> QED BY <1>4, <1>8, <1>11, <1>12

Grant(c, i, only) ==
    run' = [run EXCEPT ![c] = [Idle EXCEPT !.pc = "report", !.at = i, !.only = only]]
\* A run that was granted the lock.
LEMMA AcquireFacts ==
    ASSUME TypeOK, NEW c \in Cycle, NEW i \in Instances, NEW only \in SUBSET Stage,
           Grant(c, i, only)
    PROVE  /\ run' \in [Cycle -> RunRec]
           /\ run'[c].pc = "report" /\ run'[c].at = i /\ run'[c].step = 0
           /\ run'[c].only = only /\ run'[c].used = 0 /\ run'[c].calls = 0
           /\ run'[c].list = {} /\ run'[c].cand = None
           /\ \A d \in Cycle \ {c} : run'[d] = run[d]
<1>1. run[c] \in RunRec /\ run \in [Cycle -> RunRec] /\ c \in Cycle
  BY DEF TypeOK, Cycle
<1>2. 0 \in 0..Len(RunStages)
  BY StepRange
<1> QED BY <1>1, <1>2 DEF Grant, Idle, RunRec, PCs, StagePCs

\* The next stage of a run.
LEMMA NextStageFacts ==
    ASSUME TypeOK, NEW c \in Cycle, NEW i \in 1..11,
           run' = [run EXCEPT ![c] = [@ EXCEPT !.pc = "start", !.step = i]]
    PROVE  /\ run' \in [Cycle -> RunRec]
           /\ run'[c].pc = "start" /\ run'[c].at = run[c].at /\ run'[c].step = i
           /\ run'[c].only = run[c].only /\ run'[c].used = run[c].used
           /\ run'[c].calls = run[c].calls /\ run'[c].list = run[c].list
           /\ run'[c].cand = run[c].cand
           /\ \A d \in Cycle \ {c} : run'[d] = run[d]
<1>1. run[c] \in RunRec /\ run \in [Cycle -> RunRec] /\ c \in Cycle
  BY DEF TypeOK, Cycle
<1>2. i \in 0..Len(RunStages)
  BY StepRange
<1> QED BY <1>1, <1>2 DEF RunRec, PCs, StagePCs

\* A stage that has done its work, with n calls.
LEMMA WorkFacts ==
    ASSUME TypeOK, NEW c \in Cycle, NEW n \in Nat,
           run' = [run EXCEPT ![c] = [@ EXCEPT !.pc = "complete", !.calls = n]]
    PROVE  /\ run' \in [Cycle -> RunRec]
           /\ run'[c].pc = "complete" /\ run'[c].at = run[c].at
           /\ run'[c].step = run[c].step /\ run'[c].only = run[c].only
           /\ run'[c].used = run[c].used /\ run'[c].calls = n
           /\ run'[c].list = run[c].list /\ run'[c].cand = run[c].cand
           /\ \A d \in Cycle \ {c} : run'[d] = run[d]
<1>1. run[c] \in RunRec /\ run \in [Cycle -> RunRec] /\ c \in Cycle
  BY DEF TypeOK, Cycle
<1> QED BY <1>1 DEF RunRec, PCs, StagePCs

\* A stage whose calls are forgotten.
LEMMA UncountFacts ==
    ASSUME TypeOK, NEW c \in Cycle,
           run' = [run EXCEPT ![c] = [@ EXCEPT !.pc = "error", !.calls = 0]]
    PROVE  /\ run' \in [Cycle -> RunRec]
           /\ run'[c].pc = "error" /\ run'[c].at = run[c].at
           /\ run'[c].step = run[c].step /\ run'[c].only = run[c].only
           /\ run'[c].used = run[c].used /\ run'[c].calls = 0
           /\ run'[c].list = run[c].list /\ run'[c].cand = run[c].cand
           /\ \A d \in Cycle \ {c} : run'[d] = run[d]
<1>1. run[c] \in RunRec /\ run \in [Cycle -> RunRec] /\ c \in Cycle
  BY DEF TypeOK, Cycle
<1> QED BY <1>1 DEF RunRec, PCs, StagePCs

\* A stage of a run whose calls are counted.
LEMMA CountFacts ==
    ASSUME TypeOK, NEW c \in Cycle,
           run' = [run EXCEPT ![c] = [@ EXCEPT !.pc = "next", !.calls = 0, !.used = run[c].used + run[c].calls]]
    PROVE  /\ run' \in [Cycle -> RunRec]
           /\ run'[c].pc = "next" /\ run'[c].at = run[c].at /\ run'[c].step = run[c].step
           /\ run'[c].only = run[c].only /\ run'[c].used = run[c].used + run[c].calls
           /\ run'[c].calls = 0 /\ run'[c].list = run[c].list
           /\ run'[c].cand = run[c].cand
           /\ \A d \in Cycle \ {c} : run'[d] = run[d]
<1>1. run[c] \in RunRec /\ run \in [Cycle -> RunRec] /\ c \in Cycle
  BY DEF TypeOK, Cycle
<1>2. run[c].used + run[c].calls \in Nat
  BY <1>1 DEF RunRec
<1> QED BY <1>1, <1>2 DEF RunRec, PCs, StagePCs

Leave(c, pc, k) ==
    run' = [run EXCEPT ![c] = [@ EXCEPT !.pc = pc, !.at = None, !.calls = 0, !.step = k]]
\* A stage job that is done.
LEMMA CompleteJobFacts ==
    ASSUME TypeOK, NEW c \in Cycle, NEW pc \in PCs, NEW k \in 0..11,
           Leave(c, pc, k)
    PROVE  /\ run' \in [Cycle -> RunRec]
           /\ run'[c].pc = pc /\ run'[c].at = None /\ run'[c].step = k
           /\ run'[c].only = run[c].only /\ run'[c].used = run[c].used
           /\ run'[c].calls = 0 /\ run'[c].list = run[c].list
           /\ run'[c].cand = run[c].cand
           /\ \A d \in Cycle \ {c} : run'[d] = run[d]
<1>1. run[c] \in RunRec /\ run \in [Cycle -> RunRec] /\ c \in Cycle
  BY DEF TypeOK, Cycle
<1>2. k \in 0..Len(RunStages)
  BY StepRange
<1> QED BY <1>1, <1>2 DEF Leave, RunRec, PCs, StagePCs

\* A stage of a run that failed.
LEMMA ErrorRunFacts ==
    ASSUME TypeOK, NEW c \in Cycle,
           run' = [run EXCEPT ![c] = [@ EXCEPT !.pc = "next", !.calls = 0, !.list = {},
                                                   !.cand = None]]
    PROVE  /\ run' \in [Cycle -> RunRec]
           /\ run'[c].pc = "next" /\ run'[c].at = run[c].at /\ run'[c].step = run[c].step
           /\ run'[c].only = run[c].only /\ run'[c].used = run[c].used
           /\ run'[c].calls = 0 /\ run'[c].list = {} /\ run'[c].cand = None
           /\ \A d \in Cycle \ {c} : run'[d] = run[d]
<1>1. run[c] \in RunRec /\ run \in [Cycle -> RunRec] /\ c \in Cycle
  BY DEF TypeOK, Cycle
<1> QED BY <1>1 DEF RunRec, PCs, StagePCs

LookAt(c, pc, l) == run' = [run EXCEPT ![c] = [@ EXCEPT !.pc = pc, !.list = l]]
\* The list of candidates that the pending stage will look at.
LEMMA ListFacts ==
    ASSUME TypeOK, NEW c \in Cycle, NEW l \in SUBSET Candidate, NEW pc \in PCs,
           LookAt(c, pc, l)
    PROVE  /\ run' \in [Cycle -> RunRec]
           /\ run'[c].pc = pc /\ run'[c].at = run[c].at /\ run'[c].step = run[c].step
           /\ run'[c].only = run[c].only /\ run'[c].used = run[c].used
           /\ run'[c].calls = run[c].calls /\ run'[c].list = l
           /\ run'[c].cand = run[c].cand
           /\ \A d \in Cycle \ {c} : run'[d] = run[d]
<1>1. run[c] \in RunRec /\ run \in [Cycle -> RunRec] /\ c \in Cycle
  BY DEF TypeOK, Cycle
<1> QED BY <1>1 DEF LookAt, RunRec, PCs, StagePCs

Decide(c, pc, p, n) ==
    run' = [run EXCEPT ![c] = [@ EXCEPT !.pc = pc, !.cand = p, !.list = run[c].list \ {p},
                                        !.calls = run[c].calls + n]]
\* A candidate that was judged with n calls.
LEMMA JudgeFacts ==
    ASSUME TypeOK, NEW c \in Cycle, NEW pc \in PCs, NEW p \in Candidate, NEW n \in {0, 1},
           Decide(c, pc, p, n)
    PROVE  /\ run' \in [Cycle -> RunRec]
           /\ run'[c].pc = pc /\ run'[c].at = run[c].at /\ run'[c].step = run[c].step
           /\ run'[c].only = run[c].only /\ run'[c].used = run[c].used
           /\ run'[c].calls = run[c].calls + n /\ run'[c].list = run[c].list \ {p}
           /\ run'[c].cand = p
           /\ \A d \in Cycle \ {c} : run'[d] = run[d]
<1>1. run[c] \in RunRec /\ run \in [Cycle -> RunRec] /\ c \in Cycle
  BY DEF TypeOK, Cycle
<1>2. run[c].calls + n \in Nat
  BY <1>1 DEF RunRec
<1> QED BY <1>1, <1>2 DEF Decide, RunRec, PCs, StagePCs

Begin(c, i, k) ==
    run' = [run EXCEPT ![c] = [@ EXCEPT !.pc = "start", !.at = i, !.step = k]]
\* A stage job that an instance took.
LEMMA TakeFacts ==
    ASSUME TypeOK, NEW c \in Cycle, NEW i \in Instances, NEW k \in 0..11,
           Begin(c, i, k)
    PROVE  /\ run' \in [Cycle -> RunRec]
           /\ run'[c].pc = "start" /\ run'[c].at = i /\ run'[c].step = k
           /\ run'[c].only = run[c].only /\ run'[c].used = run[c].used
           /\ run'[c].calls = run[c].calls /\ run'[c].list = run[c].list
           /\ run'[c].cand = run[c].cand
           /\ \A d \in Cycle \ {c} : run'[d] = run[d]
<1>1. run[c] \in RunRec /\ run \in [Cycle -> RunRec] /\ c \in Cycle
  BY DEF TypeOK, Cycle
<1>2. k \in 0..Len(RunStages)
  BY StepRange
<1> QED BY <1>1, <1>2 DEF Begin, RunRec, PCs, StagePCs


LEMMA StagesOf ==
    /\ \A c \in Runs : StageOf(c) = RunStages[run[c].step]
    /\ \A f \in Flows : StageOf(f) = FlowStages[run[f].step]
BY DreamSets DEF StageOf, Stages

LEMMA RecordType ==
    ASSUME TypeOK, NEW c \in Cycle, NEW s \in {"STARTED", "COMPLETED", "ERROR"}, WriteRecord(c, s)
    PROVE  record' \in [Cycle -> [Stage -> {"none", "STARTED", "COMPLETED", "ERROR"}]]
<1>1. record[c] \in [Stage -> {"none", "STARTED", "COMPLETED", "ERROR"}]
  BY DEF TypeOK
<1>2. record' = record \/ record' = [record EXCEPT ![c] = [record[c] EXCEPT ![StageOf(c)] = s]]
  BY DEF WriteRecord
<1>3. [record[c] EXCEPT ![StageOf(c)] = s] \in [Stage -> {"none", "STARTED", "COMPLETED", "ERROR"}]
  BY <1>1
<1> QED BY <1>2, <1>3 DEF TypeOK

LEMMA SpendType ==
    ASSUME TypeOK, NEW c \in Cycle, NEW n \in Nat, NEW k \in Nat, Spend(c, n, k)
    PROVE  /\ spent' \in [Runs -> [calls: Nat, lost: Nat]]
           /\ c \in Runs => /\ spent'[c].calls = spent[c].calls + n
                            /\ spent'[c].lost = spent[c].lost + k
           /\ \A d \in Runs \ {c} : spent'[d] = spent[d]
<1>1. CASE c \notin Runs
  BY <1>1 DEF Spend, TypeOK
<1>2. CASE c \in Runs
  <2>1. spent[c] \in [calls: Nat, lost: Nat] /\ spent \in [Runs -> [calls: Nat, lost: Nat]]
    BY <1>2 DEF TypeOK
  <2>2. PICK x : x = [calls |-> spent[c].calls + n, lost |-> spent[c].lost + k]
    OBVIOUS
  <2>3. spent' = [spent EXCEPT ![c] = x]
    BY <1>2, <2>2 DEF Spend
  <2>4. x \in [calls: Nat, lost: Nat]
    BY <2>1, <2>2
  <2> QED BY <1>2, <2>1, <2>2, <2>3, <2>4
<1> QED BY <1>1, <1>2

LEMMA LlmLimitType == ASSUME TypeOK, NEW c \in Cycle PROVE LlmLimit(c) \in Int
<1>1. run[c].used \in Nat
  BY DEF TypeOK, RunRec
<1>2. CASE StageOf(c) \in Budgeted
  BY <1>1, <1>2, DreamBounds DEF LlmLimit
<1>3. CASE StageOf(c) \notin Budgeted /\ StageOf(c) = "consolidation"
  BY <1>3, DreamBounds DEF LlmLimit
<1>4. CASE StageOf(c) \notin Budgeted /\ StageOf(c) # "consolidation"
  BY <1>4 DEF LlmLimit
<1> QED BY <1>2, <1>3, <1>4


\* A record that was written is one of c, and says what was written.
LEMMA RecordFacts ==
    ASSUME TypeOK, NEW c \in Cycle, NEW s \in {"STARTED", "COMPLETED", "ERROR"}, WriteRecord(c, s)
    PROVE  /\ \A d \in Cycle \ {c} : record'[d] = record[d]
           /\ \A x \in Stage : record'[c][x] = IF Recorded(c) /\ x = StageOf(c) THEN s ELSE record[c][x]
<1>1. record \in [Cycle -> [Stage -> {"none", "STARTED", "COMPLETED", "ERROR"}]]
  BY DEF TypeOK
<1>2. CASE Recorded(c)
  <2>1. record' = [record EXCEPT ![c] = [record[c] EXCEPT ![StageOf(c)] = s]]
    BY <1>2 DEF WriteRecord
  <2> QED BY <1>1, <1>2, <2>1
<1>3. CASE ~Recorded(c)
  BY <1>3 DEF WriteRecord
<1> QED BY <1>2, <1>3

LEMMA InitIInv == Init => IInv
<1> SUFFICES ASSUME Init PROVE IInv
  OBVIOUS
<1>1. TypeOK
  <2>1. Idle \in RunRec
    BY StepRange DEF Idle, RunRec, PCs, StagePCs
  <2>2. run \in [Cycle -> RunRec]
    BY <2>1 DEF Init
  <2>3. job \in [Flows -> JobRec]
    BY DreamBounds DEF Init, JobRec
  <2>4. cand \in [Candidate -> {"none", "PENDING", "MERGED", "REJECTED"}]
    BY DEF Init
  <2>5. into \in [Memory -> Memory \cup {None}] /\ events \in SUBSET Candidate
    BY DEF Init
  <2>6. spent \in [Runs -> [calls: Nat, lost: Nat]]
    BY DEF Init
  <2>7. record \in [Cycle -> [Stage -> {"none", "STARTED", "COMPLETED", "ERROR"}]]
    BY DEF Init
  <2>8. lock \in [Session -> Nat] /\ report \in [Runs -> {"none", "RUNNING", "COMPLETED", "FAILED"}]
    BY DEF Init
  <2>9. overlapped \in BOOLEAN
    BY DEF Init
  <2>10. faults \in 0..MaxFaults
    BY DreamBounds DEF Init
  <2> QED BY <2>2, <2>3, <2>4, <2>5, <2>6, <2>7, <2>8, <2>9, <2>10 DEF TypeOK
<1>2. PendingOK(Idle) /\ RunOK(Idle) /\ TraceOK(Idle, {}, into) /\ PairsOK(Idle)
  BY DEF PendingOK, RunOK, TraceOK, PairsOK, Idle, StagePCs
<1>3. FlowOK(Idle, [state |-> "none", attempts |-> 0, stalls |-> 0])
  BY DreamBounds DEF FlowOK, Idle, StagePCs
<1>4. RecordOK(Idle, "none", [s \in Stage |-> "none"]) /\ BudgetOK(Idle, [calls |-> 0, lost |-> 0])
  BY DreamBounds DEF RecordOK, BudgetOK, Idle, StagePCs
<1>5. \A c \in Cycle : run[c] = Idle
  BY DEF Init
<1>6. StandInv /\ RecordInv /\ BudgetInv
  BY <1>2, <1>3, <1>4, <1>5 DEF Init, StandInv, RecordInv, BudgetInv, Cycle
<1>7. TraceInv
  BY <1>2, <1>5 DEF Init, TraceInv, HiddenHasEvent, MergedWasMerged, Candidate
<1>8. AloneInv
  <2>1. \A p \in Candidate : cand[p] # "none" => p[1] # p[2]
    BY DEF Init
  <2>2. \A c \in Cycle : ~Mid(run[c]) /\ ~Merging(run[c])
    BY <1>5 DEF Mid, Merging, Idle
  <2>3. Reachable
    BY DEF Init, Reachable
  <2> QED BY <1>2, <1>5, <2>1, <2>2, <2>3 DEF AloneInv, Alone
<1> QED BY <1>1, <1>6, <1>7, <1>8 DEF IInv, TypeInv

LEMMA RunStepInv ==
    ASSUME IInv, NEW c \in Runs, RunStep(c) PROVE IInv'
<1> USE DreamSets, StageFacts
<1>0. /\ TypeOK /\ run[c] \in RunRec /\ c \in Cycle /\ PendingOK(run[c])
      /\ (c \in Runs => RunOK(run[c])) /\ (c \in Flows => FlowOK(run[c], job[c]))
  BY DEF IInv, TypeInv, TypeOK, StandInv, Cycle
<1>inv. /\ TraceOK(run[c], events, into) /\ PairsOK(run[c])
        /\ c \in Runs => RecordOK(run[c], report[c], record[c]) /\ BudgetOK(run[c], spent[c])
  BY <1>0 DEF IInv, TraceInv, AloneInv, RecordInv, BudgetInv
<1>1. CASE OpenReport(c)
  <2>1. Go(c, "next") /\ "next" \in PCs
    BY <1>1 DEF OpenReport, PCs, StagePCs
  <2>2. /\ run' \in [Cycle -> RunRec]
        /\ run'[c].pc = "next" /\ run'[c].at = run[c].at /\ run'[c].step = run[c].step /\ run'[c].only = run[c].only
        /\ run'[c].used = run[c].used /\ run'[c].calls = run[c].calls /\ run'[c].list = run[c].list /\ run'[c].cand = run[c].cand
        /\ \A d \in Cycle \ {c} : run'[d] = run[d]
    BY <1>0, <2>1, GoFacts
  <2>3. job' = job /\ UNCHANGED tables /\ UNCHANGED overlapped
    BY <1>1 DEF OpenReport, tables
  <2>4. \A d \in Runs \ {c} : report'[d] = report[d] /\ record'[d] = record[d]
    BY <1>0, <1>1 DEF OpenReport, TypeOK
  <2>5. \A d \in Runs \ {c} : spent'[d] = spent[d]
    BY <1>0, <1>1 DEF OpenReport
  <2>6. TypeOK'
    BY <1>0, <1>1, <2>2, <2>3 DEF OpenReport, TypeOK, tables
  <2>7. /\ PendingOK(run'[c]) /\ (c \in Runs => RunOK(run'[c]))
        /\ (c \in Flows => FlowOK(run'[c], job'[c]))
    BY <1>0, <1>1, <2>2, <2>3 DEF OpenReport, PendingOK, RunOK, FlowOK, StagePCs, RunRec
  <2>8. /\ TraceOK(run'[c], events, into) /\ PairsOK(run'[c]) /\ (Mid(run'[c]) => Mid(run[c]))
        /\ (Merging(run'[c]) => Merging(run[c]) /\ run'[c].cand = run[c].cand)
    BY <1>0, <1>inv, <1>1, <2>2 DEF OpenReport, TraceOK, PairsOK, Mid, Merging, StagePCs
  <2>9. c \in Runs => RecordOK(run'[c], report'[c], record'[c])
    BY <1>0, <1>inv, <1>1, <2>2 DEF OpenReport, RecordOK, StagePCs, TypeOK
  <2>10. c \in Runs => BudgetOK(run'[c], spent'[c])
    BY <1>0, <1>inv, <1>1, <2>2, DreamBounds DEF OpenReport, BudgetOK, StagePCs, RunRec
  <2>11. Ordinary(c)
    BY <2>2, <2>3, <2>4, <2>5, <2>7, <2>8, <2>9, <2>10 DEF Ordinary
  <2> QED BY <1>0, <2>6, <2>11, OrdinaryStep
<1>2. CASE OpenReportFails(c)
  <2>1. Go(c, "release") /\ "release" \in PCs
    BY <1>2 DEF OpenReportFails, PCs, StagePCs
  <2>2. /\ run' \in [Cycle -> RunRec]
        /\ run'[c].pc = "release" /\ run'[c].at = run[c].at /\ run'[c].step = run[c].step /\ run'[c].only = run[c].only
        /\ run'[c].used = run[c].used /\ run'[c].calls = run[c].calls /\ run'[c].list = run[c].list /\ run'[c].cand = run[c].cand
        /\ \A d \in Cycle \ {c} : run'[d] = run[d]
    BY <1>0, <2>1, GoFacts
  <2>3. job' = job /\ UNCHANGED tables /\ UNCHANGED overlapped
    BY <1>2 DEF OpenReportFails, tables
  <2>4. \A d \in Runs \ {c} : report'[d] = report[d] /\ record'[d] = record[d]
    BY <1>0, <1>2 DEF OpenReportFails, TypeOK
  <2>5. \A d \in Runs \ {c} : spent'[d] = spent[d]
    BY <1>0, <1>2 DEF OpenReportFails
  <2>6. TypeOK'
    BY <1>0, <1>2, <2>2, <2>3, DreamBounds DEF OpenReportFails, Fault, TypeOK, tables
  <2>7. /\ PendingOK(run'[c]) /\ (c \in Runs => RunOK(run'[c]))
        /\ (c \in Flows => FlowOK(run'[c], job'[c]))
    BY <1>0, <1>2, <2>2, <2>3 DEF OpenReportFails, PendingOK, RunOK, FlowOK, StagePCs, RunRec
  <2>8. /\ TraceOK(run'[c], events, into) /\ PairsOK(run'[c]) /\ (Mid(run'[c]) => Mid(run[c]))
        /\ (Merging(run'[c]) => Merging(run[c]) /\ run'[c].cand = run[c].cand)
    BY <1>0, <1>inv, <1>2, <2>2 DEF OpenReportFails, TraceOK, PairsOK, Mid, Merging, StagePCs
  <2>9. c \in Runs => RecordOK(run'[c], report'[c], record'[c])
    BY <1>0, <1>inv, <1>2, <2>2 DEF OpenReportFails, RecordOK, StagePCs, TypeOK
  <2>10. c \in Runs => BudgetOK(run'[c], spent'[c])
    BY <1>0, <1>inv, <1>2, <2>2, DreamBounds DEF OpenReportFails, BudgetOK, StagePCs, RunRec
  <2>11. Ordinary(c)
    BY <2>2, <2>3, <2>4, <2>5, <2>7, <2>8, <2>9, <2>10 DEF Ordinary
  <2> QED BY <1>0, <2>6, <2>11, OrdinaryStep
<1>3. CASE NextStage(c)
  <2>1. CASE Go(c, "finish")
    <3>1. "finish" \in PCs
      BY DEF PCs
    <3>2. /\ run' \in [Cycle -> RunRec]
          /\ run'[c].pc = "finish" /\ run'[c].at = run[c].at /\ run'[c].step = run[c].step /\ run'[c].only = run[c].only
          /\ run'[c].used = run[c].used /\ run'[c].calls = run[c].calls /\ run'[c].list = run[c].list /\ run'[c].cand = run[c].cand
          /\ \A d \in Cycle \ {c} : run'[d] = run[d]
      BY <1>0, <2>1, <3>1, GoFacts
    <3>3. job' = job /\ UNCHANGED tables /\ UNCHANGED overlapped
      BY <1>3 DEF NextStage, tables
    <3>4. \A d \in Runs \ {c} : report'[d] = report[d] /\ record'[d] = record[d]
      BY <1>0, <1>3 DEF NextStage, TypeOK
    <3>5. \A d \in Runs \ {c} : spent'[d] = spent[d]
      BY <1>0, <1>3 DEF NextStage
    <3>6. TypeOK'
      BY <1>0, <1>3, <3>2, <3>3 DEF NextStage, TypeOK, tables
    <3>7. /\ PendingOK(run'[c]) /\ (c \in Runs => RunOK(run'[c]))
          /\ (c \in Flows => FlowOK(run'[c], job'[c]))
      BY <1>0, <1>3, <3>2, <3>3 DEF NextStage, PendingOK, RunOK, FlowOK, StagePCs, RunRec
    <3>8. /\ TraceOK(run'[c], events, into) /\ PairsOK(run'[c]) /\ (Mid(run'[c]) => Mid(run[c]))
          /\ (Merging(run'[c]) => Merging(run[c]) /\ run'[c].cand = run[c].cand)
      BY <1>0, <1>inv, <1>3, <3>2 DEF NextStage, TraceOK, PairsOK, Mid, Merging, StagePCs
    <3>9. c \in Runs => RecordOK(run'[c], report'[c], record'[c])
      BY <1>0, <1>inv, <1>3, <3>2 DEF NextStage, RecordOK, StagePCs, TypeOK
    <3>10. c \in Runs => BudgetOK(run'[c], spent'[c])
      BY <1>0, <1>inv, <1>3, <3>2, DreamBounds DEF NextStage, BudgetOK, StagePCs, RunRec
    <3>11. Ordinary(c)
      BY <3>2, <3>3, <3>4, <3>5, <3>7, <3>8, <3>9, <3>10 DEF Ordinary
    <3> QED BY <1>0, <3>6, <3>11, OrdinaryStep
  <2>2. CASE ~Go(c, "finish")
    <3>1. PICK i \in run[c].step + 1 .. Len(RunStages) :
            /\ run' = [run EXCEPT ![c] = [@ EXCEPT !.pc = "start", !.step = i]]
            /\ Selected(c, RunStages[i])
      BY <1>3, <2>2 DEF NextStage
    <3>2. i \in 1..11 /\ i > run[c].step
      BY <1>0, <3>1 DEF RunRec
    <3>3. RunStages[i] \in Budgeted => run[c].used < MaxLlmCalls
      BY <3>1 DEF Selected
    <3>4. run[c].calls = 0 /\ (i <= 3 => run[c].used <= MaxLlmCalls)
      <4>1. run[c].calls = 0 /\ (run[c].step <= 2 => run[c].used + run[c].calls <= MaxLlmCalls)
        BY <1>inv, <1>3 DEF NextStage, BudgetOK
      <4>2. run[c].used \in Nat /\ run[c].step \in Int
        BY <1>0 DEF RunRec
      <4> QED BY <3>2, <4>1, <4>2
    <3>5. /\ run' \in [Cycle -> RunRec]
          /\ run'[c].pc = "start" /\ run'[c].at = run[c].at /\ run'[c].step = i /\ run'[c].only = run[c].only
          /\ run'[c].used = run[c].used /\ run'[c].calls = run[c].calls /\ run'[c].list = run[c].list /\ run'[c].cand = run[c].cand
          /\ \A d \in Cycle \ {c} : run'[d] = run[d]
      BY <1>0, <3>1, <3>2, NextStageFacts
    <3>6. job' = job /\ UNCHANGED tables /\ UNCHANGED overlapped
      BY <1>3 DEF NextStage, tables
    <3>7. \A d \in Runs \ {c} : report'[d] = report[d] /\ record'[d] = record[d]
      BY <1>0, <1>3 DEF NextStage, TypeOK
    <3>8. \A d \in Runs \ {c} : spent'[d] = spent[d]
      BY <1>0, <1>3 DEF NextStage
    <3>9. TypeOK'
      BY <1>0, <1>3, <3>5, <3>6 DEF NextStage, TypeOK, tables
    <3>10. /\ PendingOK(run'[c]) /\ (c \in Runs => RunOK(run'[c]))
          /\ (c \in Flows => FlowOK(run'[c], job'[c]))
      BY <1>0, <1>3, <3>5, <3>6, <3>2 DEF NextStage, PendingOK, RunOK, FlowOK, StagePCs, RunRec
    <3>11. /\ TraceOK(run'[c], events, into) /\ PairsOK(run'[c]) /\ (Mid(run'[c]) => Mid(run[c]))
          /\ (Merging(run'[c]) => Merging(run[c]) /\ run'[c].cand = run[c].cand)
      BY <1>0, <1>inv, <1>3, <3>5 DEF NextStage, TraceOK, PairsOK, Mid, Merging, StagePCs
    <3>12. c \in Runs => RecordOK(run'[c], report'[c], record'[c])
      BY <1>0, <1>inv, <1>3, <3>5 DEF NextStage, RecordOK, StagePCs, TypeOK
    <3>13. c \in Runs => BudgetOK(run'[c], spent'[c])
      <4>1. spent' = spent /\ run[c].used \in Nat /\ MaxLlmCalls \in Nat /\ MaxConsolidations \in Nat
        BY <1>0, <1>3, DreamBounds DEF NextStage, RunRec
      <4>2. /\ spent[c].calls <= MaxLlmCalls + MaxConsolidations + spent[c].lost
            /\ spent[c].calls <= run[c].used + run[c].calls + spent[c].lost
            /\ run[c].used + run[c].calls <= MaxLlmCalls + MaxConsolidations
        BY <1>inv, <1>3 DEF NextStage, BudgetOK
      <4>3. run'[c].pc = "start" /\ run'[c].step = i /\ run'[c].used = run[c].used /\ run'[c].calls = 0
        BY <3>5, <3>4
      <4> QED BY <3>2, <3>3, <3>4, <4>1, <4>2, <4>3 DEF BudgetOK
    <3>14. Ordinary(c)
      BY <3>5, <3>6, <3>7, <3>8, <3>10, <3>11, <3>12, <3>13 DEF Ordinary
    <3> QED BY <1>0, <3>9, <3>14, OrdinaryStep
  <2> QED BY <2>1, <2>2
<1>4. CASE Finish(c)
  <2>1. Go(c, "release") /\ "release" \in PCs
    BY <1>4 DEF Finish, PCs, StagePCs
  <2>2. /\ run' \in [Cycle -> RunRec]
        /\ run'[c].pc = "release" /\ run'[c].at = run[c].at /\ run'[c].step = run[c].step /\ run'[c].only = run[c].only
        /\ run'[c].used = run[c].used /\ run'[c].calls = run[c].calls /\ run'[c].list = run[c].list /\ run'[c].cand = run[c].cand
        /\ \A d \in Cycle \ {c} : run'[d] = run[d]
    BY <1>0, <2>1, GoFacts
  <2>3. job' = job /\ UNCHANGED tables /\ UNCHANGED overlapped
    BY <1>4 DEF Finish, tables
  <2>4. \A d \in Runs \ {c} : report'[d] = report[d] /\ record'[d] = record[d]
    BY <1>0, <1>4 DEF Finish, TypeOK
  <2>5. \A d \in Runs \ {c} : spent'[d] = spent[d]
    BY <1>0, <1>4 DEF Finish
  <2>6. TypeOK'
    BY <1>0, <1>4, <2>2, <2>3 DEF Finish, TypeOK, tables
  <2>7. /\ PendingOK(run'[c]) /\ (c \in Runs => RunOK(run'[c]))
        /\ (c \in Flows => FlowOK(run'[c], job'[c]))
    BY <1>0, <1>4, <2>2, <2>3 DEF Finish, PendingOK, RunOK, FlowOK, StagePCs, RunRec
  <2>8. /\ TraceOK(run'[c], events, into) /\ PairsOK(run'[c]) /\ (Mid(run'[c]) => Mid(run[c]))
        /\ (Merging(run'[c]) => Merging(run[c]) /\ run'[c].cand = run[c].cand)
    BY <1>0, <1>inv, <1>4, <2>2 DEF Finish, TraceOK, PairsOK, Mid, Merging, StagePCs
  <2>9. c \in Runs => RecordOK(run'[c], report'[c], record'[c])
    BY <1>0, <1>inv, <1>4, <2>2 DEF Finish, RecordOK, StagePCs, TypeOK
  <2>10. c \in Runs => BudgetOK(run'[c], spent'[c])
    BY <1>0, <1>inv, <1>4, <2>2, DreamBounds DEF Finish, BudgetOK, StagePCs, RunRec
  <2>11. Ordinary(c)
    BY <2>2, <2>3, <2>4, <2>5, <2>7, <2>8, <2>9, <2>10 DEF Ordinary
  <2> QED BY <1>0, <2>6, <2>11, OrdinaryStep
<1>5. CASE FinishFails(c)
  <2>1. Go(c, "catch") /\ "catch" \in PCs
    BY <1>5 DEF FinishFails, PCs, StagePCs
  <2>2. /\ run' \in [Cycle -> RunRec]
        /\ run'[c].pc = "catch" /\ run'[c].at = run[c].at /\ run'[c].step = run[c].step /\ run'[c].only = run[c].only
        /\ run'[c].used = run[c].used /\ run'[c].calls = run[c].calls /\ run'[c].list = run[c].list /\ run'[c].cand = run[c].cand
        /\ \A d \in Cycle \ {c} : run'[d] = run[d]
    BY <1>0, <2>1, GoFacts
  <2>3. job' = job /\ UNCHANGED tables /\ UNCHANGED overlapped
    BY <1>5 DEF FinishFails, tables
  <2>4. \A d \in Runs \ {c} : report'[d] = report[d] /\ record'[d] = record[d]
    BY <1>0, <1>5 DEF FinishFails, TypeOK
  <2>5. \A d \in Runs \ {c} : spent'[d] = spent[d]
    BY <1>0, <1>5 DEF FinishFails
  <2>6. TypeOK'
    BY <1>0, <1>5, <2>2, <2>3, DreamBounds DEF FinishFails, Fault, TypeOK, tables
  <2>7. /\ PendingOK(run'[c]) /\ (c \in Runs => RunOK(run'[c]))
        /\ (c \in Flows => FlowOK(run'[c], job'[c]))
    BY <1>0, <1>5, <2>2, <2>3 DEF FinishFails, PendingOK, RunOK, FlowOK, StagePCs, RunRec
  <2>8. /\ TraceOK(run'[c], events, into) /\ PairsOK(run'[c]) /\ (Mid(run'[c]) => Mid(run[c]))
        /\ (Merging(run'[c]) => Merging(run[c]) /\ run'[c].cand = run[c].cand)
    BY <1>0, <1>inv, <1>5, <2>2 DEF FinishFails, TraceOK, PairsOK, Mid, Merging, StagePCs
  <2>9. c \in Runs => RecordOK(run'[c], report'[c], record'[c])
    BY <1>0, <1>inv, <1>5, <2>2 DEF FinishFails, RecordOK, StagePCs, TypeOK
  <2>10. c \in Runs => BudgetOK(run'[c], spent'[c])
    BY <1>0, <1>inv, <1>5, <2>2, DreamBounds DEF FinishFails, BudgetOK, StagePCs, RunRec
  <2>11. Ordinary(c)
    BY <2>2, <2>3, <2>4, <2>5, <2>7, <2>8, <2>9, <2>10 DEF Ordinary
  <2> QED BY <1>0, <2>6, <2>11, OrdinaryStep
<1>6. CASE Catch(c)
  <2>1. Go(c, "release") /\ "release" \in PCs
    BY <1>6 DEF Catch, PCs
  <2>2. report' \in [Runs -> {"none", "RUNNING", "COMPLETED", "FAILED"}] /\ faults' \in 0..MaxFaults
    BY <1>0, <1>6, DreamBounds DEF Catch, Fault, TypeOK
  <2>3. /\ run' \in [Cycle -> RunRec]
        /\ run'[c].pc = "release" /\ run'[c].at = run[c].at /\ run'[c].step = run[c].step /\ run'[c].only = run[c].only
        /\ run'[c].used = run[c].used /\ run'[c].calls = run[c].calls /\ run'[c].list = run[c].list /\ run'[c].cand = run[c].cand
        /\ \A d \in Cycle \ {c} : run'[d] = run[d]
    BY <1>0, <2>1, GoFacts
  <2>4. job' = job /\ UNCHANGED tables /\ UNCHANGED overlapped
    BY <1>6 DEF Catch, tables
  <2>5. \A d \in Runs \ {c} : report'[d] = report[d] /\ record'[d] = record[d]
    BY <1>0, <1>6 DEF Catch, TypeOK
  <2>6. \A d \in Runs \ {c} : spent'[d] = spent[d]
    BY <1>0, <1>6 DEF Catch
  <2>7. TypeOK'
    BY <1>0, <1>6, <2>3, <2>4, <2>2 DEF Catch, TypeOK, tables
  <2>8. /\ PendingOK(run'[c]) /\ (c \in Runs => RunOK(run'[c]))
        /\ (c \in Flows => FlowOK(run'[c], job'[c]))
    BY <1>0, <1>6, <2>3, <2>4 DEF Catch, PendingOK, RunOK, FlowOK, StagePCs, RunRec
  <2>9. /\ TraceOK(run'[c], events, into) /\ PairsOK(run'[c]) /\ (Mid(run'[c]) => Mid(run[c]))
        /\ (Merging(run'[c]) => Merging(run[c]) /\ run'[c].cand = run[c].cand)
    BY <1>0, <1>inv, <1>6, <2>3 DEF Catch, TraceOK, PairsOK, Mid, Merging, StagePCs
  <2>10. c \in Runs => RecordOK(run'[c], report'[c], record'[c])
    BY <1>0, <1>inv, <1>6, <2>3 DEF Catch, RecordOK, StagePCs, TypeOK
  <2>11. c \in Runs => BudgetOK(run'[c], spent'[c])
    BY <1>0, <1>inv, <1>6, <2>3, DreamBounds DEF Catch, BudgetOK, StagePCs, RunRec
  <2>12. Ordinary(c)
    BY <2>3, <2>4, <2>5, <2>6, <2>8, <2>9, <2>10, <2>11 DEF Ordinary
  <2> QED BY <1>0, <2>7, <2>12, OrdinaryStep
<1>7. CASE \E s \in Session : Acquire(c, s)
  <2>1. PICK s \in Session, only \in Selections :
          Grant(c, s[1], only) /\ Acquire(c, s)
    BY <1>7 DEF Acquire, Grant
  <2>2. s[1] \in Instances /\ only \in SUBSET Stage
    BY DEF Session
  <2>3. lock' \in [Session -> Nat]
    BY <1>0, <2>1 DEF Acquire, TypeOK
  <2>4. /\ run' \in [Cycle -> RunRec]
        /\ run'[c].pc = "report" /\ run'[c].at = s[1] /\ run'[c].step = 0 /\ run'[c].only = only
        /\ run'[c].used = 0 /\ run'[c].calls = 0 /\ run'[c].list = {} /\ run'[c].cand = None
        /\ \A d \in Cycle \ {c} : run'[d] = run[d]
    BY <1>0, <2>1, <2>2, AcquireFacts
  <2>5. job' = job /\ UNCHANGED tables /\ UNCHANGED overlapped
    BY <1>7, <2>1 DEF Acquire, tables
  <2>6. \A d \in Runs \ {c} : report'[d] = report[d] /\ record'[d] = record[d]
    BY <1>0, <1>7, <2>1 DEF Acquire, TypeOK
  <2>7. \A d \in Runs \ {c} : spent'[d] = spent[d]
    BY <1>0, <1>7, <2>1 DEF Acquire
  <2>8. TypeOK'
    BY <1>0, <1>7, <2>1, <2>4, <2>5, <2>1, <2>3 DEF Acquire, TypeOK, tables
  <2>9. /\ PendingOK(run'[c]) /\ (c \in Runs => RunOK(run'[c]))
        /\ (c \in Flows => FlowOK(run'[c], job'[c]))
    BY <1>0, <1>7, <2>1, <2>4, <2>5, <2>1 DEF Acquire, PendingOK, RunOK, FlowOK, StagePCs, RunRec
  <2>10. /\ TraceOK(run'[c], events, into) /\ PairsOK(run'[c]) /\ (Mid(run'[c]) => Mid(run[c]))
        /\ (Merging(run'[c]) => Merging(run[c]) /\ run'[c].cand = run[c].cand)
    BY <1>0, <1>inv, <1>7, <2>1, <2>4 DEF Acquire, TraceOK, PairsOK, Mid, Merging, StagePCs
  <2>11. c \in Runs => RecordOK(run'[c], report'[c], record'[c])
    BY <1>0, <1>inv, <1>7, <2>1, <2>4 DEF Acquire, RecordOK, StagePCs, TypeOK
  <2>12. c \in Runs => BudgetOK(run'[c], spent'[c])
    BY <1>0, <1>inv, <1>7, <2>1, <2>4, DreamBounds DEF Acquire, BudgetOK, StagePCs, RunRec
  <2>13. Ordinary(c)
    BY <2>4, <2>5, <2>6, <2>7, <2>9, <2>10, <2>11, <2>12 DEF Ordinary
  <2> QED BY <1>0, <2>8, <2>13, OrdinaryStep
<1>8. CASE \E s \in Session : Release(c, s)
  <2>1. PICK s \in Session : Go(c, "over") /\ Release(c, s)
    BY <1>8 DEF Release
  <2>2. "over" \in PCs
    BY DEF PCs
  <2>3. lock' \in [Session -> Nat]
    BY <1>0, <2>1 DEF Release, TypeOK
  <2>4. /\ run' \in [Cycle -> RunRec]
        /\ run'[c].pc = "over" /\ run'[c].at = run[c].at /\ run'[c].step = run[c].step /\ run'[c].only = run[c].only
        /\ run'[c].used = run[c].used /\ run'[c].calls = run[c].calls /\ run'[c].list = run[c].list /\ run'[c].cand = run[c].cand
        /\ \A d \in Cycle \ {c} : run'[d] = run[d]
    BY <1>0, <2>1, <2>2, GoFacts
  <2>5. job' = job /\ UNCHANGED tables /\ UNCHANGED overlapped
    BY <1>8, <2>1 DEF Release, tables
  <2>6. \A d \in Runs \ {c} : report'[d] = report[d] /\ record'[d] = record[d]
    BY <1>0, <1>8, <2>1 DEF Release, TypeOK
  <2>7. \A d \in Runs \ {c} : spent'[d] = spent[d]
    BY <1>0, <1>8, <2>1 DEF Release
  <2>8. TypeOK'
    BY <1>0, <1>8, <2>1, <2>4, <2>5, <2>1, <2>3 DEF Release, TypeOK, tables
  <2>9. /\ PendingOK(run'[c]) /\ (c \in Runs => RunOK(run'[c]))
        /\ (c \in Flows => FlowOK(run'[c], job'[c]))
    BY <1>0, <1>8, <2>1, <2>4, <2>5, <2>1 DEF Release, PendingOK, RunOK, FlowOK, StagePCs, RunRec
  <2>10. /\ TraceOK(run'[c], events, into) /\ PairsOK(run'[c]) /\ (Mid(run'[c]) => Mid(run[c]))
        /\ (Merging(run'[c]) => Merging(run[c]) /\ run'[c].cand = run[c].cand)
    BY <1>0, <1>inv, <1>8, <2>1, <2>4 DEF Release, TraceOK, PairsOK, Mid, Merging, StagePCs
  <2>11. c \in Runs => RecordOK(run'[c], report'[c], record'[c])
    BY <1>0, <1>inv, <1>8, <2>1, <2>4 DEF Release, RecordOK, StagePCs, TypeOK
  <2>12. c \in Runs => BudgetOK(run'[c], spent'[c])
    BY <1>0, <1>inv, <1>8, <2>1, <2>4, DreamBounds DEF Release, BudgetOK, StagePCs, RunRec
  <2>13. Ordinary(c)
    BY <2>4, <2>5, <2>6, <2>7, <2>9, <2>10, <2>11, <2>12 DEF Ordinary
  <2> QED BY <1>0, <2>8, <2>13, OrdinaryStep
<1> QED BY <1>1, <1>2, <1>3, <1>4, <1>5, <1>6, <1>7, <1>8 DEF RunStep

LEMMA ThrowInv ==
    ASSUME IInv, NEW c \in Cycle, Throw(c), run[c].pc \in {"start", "error"},
           UNCHANGED tables, UNCHANGED overlapped, UNCHANGED spent, UNCHANGED report,
           \A d \in Runs \ {c} : record'[d] = record[d]
    PROVE  run' \in [Cycle -> RunRec] /\ job' \in [Flows -> JobRec] /\ Ordinary(c)
<1> USE DreamSets
<1>0. /\ TypeOK /\ run[c] \in RunRec /\ PendingOK(run[c])
      /\ (c \in Runs => RunOK(run[c])) /\ (c \in Flows => FlowOK(run[c], job[c]))
      /\ job \in [Flows -> JobRec]
  BY DEF IInv, TypeInv, TypeOK, StandInv
<1>inv. /\ TraceOK(run[c], events, into) /\ PairsOK(run[c])
        /\ c \in Runs => RecordOK(run[c], report[c], record[c]) /\ BudgetOK(run[c], spent[c])
  BY <1>0 DEF IInv, TraceInv, AloneInv, RecordInv, BudgetInv
<1>1. CASE c \in Runs
  <2>1. /\ run' \in [Cycle -> RunRec]
        /\ run'[c].pc = "catch" /\ run'[c].at = run[c].at /\ run'[c].step = run[c].step /\ run'[c].only = run[c].only
        /\ run'[c].used = run[c].used /\ run'[c].calls = run[c].calls /\ run'[c].list = run[c].list /\ run'[c].cand = run[c].cand
        /\ \A d \in Cycle \ {c} : run'[d] = run[d]
        /\ UNCHANGED job
    BY <1>0, <1>1, ThrowRunFacts
  <2>2. PendingOK(run'[c]) /\ RunOK(run'[c]) /\ c \notin Flows
    BY <1>1, <2>1 DEF PendingOK, RunOK, StagePCs
  <2>3. TraceOK(run'[c], events, into) /\ PairsOK(run'[c]) /\ ~Mid(run'[c]) /\ ~Merging(run'[c])
    BY <1>inv, <2>1 DEF TraceOK, PairsOK, Mid, Merging, StagePCs
  <2>4. RecordOK(run'[c], report'[c], record'[c])
    BY <1>inv, <1>1, <2>1 DEF RecordOK, StagePCs
  <2>5. BudgetOK(run'[c], spent'[c])
    BY <1>0, <1>inv, <1>1, <2>1, DreamBounds DEF BudgetOK, StagePCs, RunRec
  <2> QED BY <1>0, <1>1, <2>1, <2>2, <2>3, <2>4, <2>5 DEF Ordinary
<1>2. CASE c \in Flows
  <2>1. job[c].state = "active" /\ job[c].attempts < MaxAttempts /\ run[c].step # 0
    BY <1>0, <1>2 DEF FlowOK, StagePCs
  <2>2. /\ run' \in [Cycle -> RunRec] /\ job' \in [Flows -> JobRec]
        /\ run'[c].pc = "next" /\ run'[c].at = None /\ run'[c].step = run[c].step /\ run'[c].list = {}
        /\ job'[c].state = (IF job[c].attempts + 1 < MaxAttempts THEN "waiting" ELSE "failed")
        /\ job'[c].attempts = job[c].attempts + 1
        /\ \A d \in Cycle \ {c} : run'[d] = run[d]
        /\ \A f \in Flows \ {c} : job'[f] = job[f]
    BY <1>0, <1>2, <2>1, ThrowFlowFacts
  <2>3. PendingOK(run'[c]) /\ c \notin Runs
    BY <1>2, <2>2 DEF PendingOK
  <2>4. FlowOK(run'[c], job'[c])
    BY <1>0, <1>2, <2>1, <2>2 DEF FlowOK, StagePCs
  <2>5. TraceOK(run'[c], events, into) /\ PairsOK(run'[c]) /\ ~Mid(run'[c]) /\ ~Merging(run'[c])
    BY <2>2 DEF TraceOK, PairsOK, Mid, Merging, StagePCs
  <2> QED BY <1>0, <2>2, <2>3, <2>4, <2>5 DEF Ordinary
<1> QED BY <1>1, <1>2 DEF Cycle

LEMMA StageStepInv ==
    ASSUME IInv, NEW c \in Cycle, StageStep(c) PROVE IInv'
<1> USE DreamSets, StageFacts
<1>0. /\ TypeOK /\ run[c] \in RunRec /\ c \in Cycle /\ PendingOK(run[c])
      /\ (c \in Runs => RunOK(run[c])) /\ (c \in Flows => FlowOK(run[c], job[c]))
  BY DEF IInv, TypeInv, TypeOK, StandInv, Cycle
<1>inv. /\ TraceOK(run[c], events, into) /\ PairsOK(run[c])
        /\ c \in Runs => RecordOK(run[c], report[c], record[c]) /\ BudgetOK(run[c], spent[c])
  BY <1>0 DEF IInv, TraceInv, AloneInv, RecordInv, BudgetInv
<1>1. CASE StartStage(c)
  <2>0. PICK pc : pc = IF StageOf(c) = "pending" THEN "list" ELSE "work"
    OBVIOUS
  <2>1. pc \in {"list", "work"} /\ Go(c, pc)
    BY <1>1, <2>0 DEF StartStage
  <2>2. pc \in PCs
    BY <2>1 DEF PCs, StagePCs
  <2>3. record' \in [Cycle -> [Stage -> {"none", "STARTED", "COMPLETED", "ERROR"}]]
    BY <1>0, <1>1, RecordType DEF StartStage
  <2>4. /\ \A d \in Cycle \ {c} : record'[d] = record[d]
        /\ \A x \in Stage : record'[c][x] = IF Recorded(c) /\ x = StageOf(c) THEN "STARTED" ELSE record[c][x]
    BY <1>0, <1>1, RecordFacts DEF StartStage
  <2>5. pc = "list" <=> run[c].step = 1
    <3>1. pc = "list" <=> StageOf(c) = "pending"
      BY <2>0
    <3>2. CASE c \in Runs
      BY <1>0, <1>1, <3>1, <3>2, StagesOf DEF StartStage, RunOK, StagePCs
    <3>3. CASE c \in Flows
      BY <1>0, <1>1, <3>1, <3>3, StagesOf DEF StartStage, FlowOK, StagePCs, RunRec
    <3> QED BY <3>2, <3>3 DEF Cycle
  <2>6. /\ run' \in [Cycle -> RunRec]
        /\ run'[c].pc = pc /\ run'[c].at = run[c].at /\ run'[c].step = run[c].step /\ run'[c].only = run[c].only
        /\ run'[c].used = run[c].used /\ run'[c].calls = run[c].calls /\ run'[c].list = run[c].list /\ run'[c].cand = run[c].cand
        /\ \A d \in Cycle \ {c} : run'[d] = run[d]
    BY <1>0, <2>1, <2>2, GoFacts
  <2>7. job' = job /\ UNCHANGED tables /\ UNCHANGED report /\ UNCHANGED spent
    BY <1>1 DEF StartStage, tables
  <2>8. TypeOK'
    BY <1>0, <1>1, <2>3, <2>6, <2>7 DEF StartStage, TypeOK, tables
  <2>9. StandInv'
    <3>1. /\ PendingOK(run'[c]) /\ (c \in Runs => RunOK(run'[c]))
          /\ (c \in Flows => FlowOK(run'[c], job'[c]))
      BY <1>0, <1>1, <2>1, <2>5, <2>6, <2>7 DEF StartStage, PendingOK, RunOK, FlowOK, StagePCs, RunRec
    <3> QED BY <2>6, <2>7, <3>1, OneStands DEF IInv, TypeInv
  <2>10. TraceInv'
    <3>1. TraceOK(run'[c], events, into)
      BY <2>1, <2>6 DEF TraceOK
    <3> QED BY <1>0, <2>6, <2>7, <3>1, OneTrace DEF IInv
  <2>11. RecordInv'
    <3>1. c \in Runs => RecordOK(run'[c], report'[c], record'[c])
      <4>1. c \in Runs => StageOf(c) = RunStages[run[c].step]
        BY StagesOf
      <4>2. c \in Runs /\ Recorded(c) => RunStages[run[c].step] # "identity"
        BY <4>1 DEF Recorded
      <4> QED BY <1>inv, <1>1, <2>1, <2>4, <2>6, <2>7, <4>1, <4>2 DEF StartStage, RecordOK, StagePCs
    <3> QED BY <1>0, <2>4, <2>6, <2>7, <3>1, OneRecord DEF IInv, Cycle
  <2>12. BudgetInv'
    <3>1. c \in Runs => BudgetOK(run'[c], spent'[c])
      BY <1>0, <1>inv, <1>1, <2>1, <2>6, <2>7, DreamBounds DEF StartStage, BudgetOK, StagePCs, RunRec
    <3> QED BY <1>0, <2>6, <2>7, <3>1, OneBudget DEF IInv
  <2>13. AloneInv'
    <3>1. PairsOK(run'[c]) /\ ~Merging(run'[c])
      BY <1>inv, <2>1, <2>6 DEF PairsOK, Merging
    <3>2. \A d \in Cycle : PairsOK(run'[d])
      BY <1>0, <2>6, <3>1, OnePair DEF IInv
    <3>3. into' = into /\ cand' = cand
      BY <2>7 DEF tables
    <3>4. ASSUME overlapped' = FALSE PROVE Alone' /\ Reachable'
      <4>1. overlapped = FALSE /\ ~(run[c].step = 1 /\ \E d \in Cycle \ {c} : InPending(d))
        BY <1>0, <1>1, <3>4 DEF StartStage, TypeOK
      <4>2. Alone /\ Reachable
        BY <4>1 DEF IInv, AloneInv
      <4>3. \A d \in Cycle \ {c} : ~Mid(run'[c]) \/ ~Mid(run'[d])
        BY <2>6, <4>1 DEF Mid, InPending
      <4>4. Alone'
        BY <2>6, <3>1, <3>3, <4>2, <4>3 DEF Alone
      <4> QED BY <3>3, <4>2, <4>4 DEF Reachable
    <3> QED BY <3>2, <3>3, <3>4 DEF AloneInv, IInv
  <2> QED BY <2>8, <2>9, <2>10, <2>11, <2>12, <2>13 DEF IInv, TypeInv
<1>2. CASE StartFails(c)
  <2>1. run' \in [Cycle -> RunRec] /\ job' \in [Flows -> JobRec] /\ Ordinary(c)
    BY <1>0, <1>2, ThrowInv DEF StartFails
  <2>2. TypeOK'
    BY <1>0, <1>2, <2>1, DreamBounds DEF StartFails, Fault, TypeOK, tables
  <2> QED BY <1>0, <2>1, <2>2, OrdinaryStep
<1>3. CASE Work(c)
  <2>1. PICK n \in 0..LlmLimit(c) :
          /\ run' = [run EXCEPT ![c] = [@ EXCEPT !.pc = "complete", !.calls = n]]
          /\ Spend(c, n, 0)
    BY <1>3 DEF Work
  <2>2. n \in Nat /\ n <= LlmLimit(c)
    BY <1>0, <2>1, LlmLimitType
  <2>3. /\ spent' \in [Runs -> [calls: Nat, lost: Nat]]
        /\ c \in Runs => /\ spent'[c].calls = spent[c].calls + n
                         /\ spent'[c].lost = spent[c].lost + 0
        /\ \A d \in Runs \ {c} : spent'[d] = spent[d]
    BY <1>0, <2>1, <2>2, SpendType
  <2>4. c \in Runs => /\ run[c].step \in 2..11 /\ StageOf(c) = RunStages[run[c].step]
                      /\ RunStages[run[c].step] \in Budgeted => n <= MaxLlmCalls - run[c].used
                      /\ run[c].step = 3 => n <= MaxConsolidations
                      /\ RunStages[run[c].step] \notin Budgeted /\ run[c].step # 3 => n = 0
    <3>1. SUFFICES ASSUME c \in Runs
                   PROVE  /\ run[c].step \in 2..11 /\ StageOf(c) = RunStages[run[c].step]
                          /\ RunStages[run[c].step] \in Budgeted => n <= MaxLlmCalls - run[c].used
                          /\ run[c].step = 3 => n <= MaxConsolidations
                          /\ RunStages[run[c].step] \notin Budgeted /\ run[c].step # 3 => n = 0
      OBVIOUS
    <3>2. StageOf(c) = RunStages[run[c].step] /\ run[c].step \in 1..11 /\ run[c].step # 1
      BY <1>0, <1>3, <3>1, StagesOf DEF Work, RunOK, StagePCs
    <3>3. RunStages[run[c].step] \in Budgeted => n <= MaxLlmCalls - run[c].used
      BY <2>2, <3>2 DEF LlmLimit, Budgeted
    <3>4. run[c].step = 3 => n <= MaxConsolidations
      BY <2>2, <3>2 DEF LlmLimit, Budgeted
    <3>5. RunStages[run[c].step] \notin Budgeted /\ run[c].step # 3 => n = 0
      BY <2>2, <3>2 DEF LlmLimit
    <3> QED BY <3>2, <3>3, <3>4, <3>5
  <2>5. /\ run' \in [Cycle -> RunRec]
        /\ run'[c].pc = "complete" /\ run'[c].at = run[c].at /\ run'[c].step = run[c].step /\ run'[c].only = run[c].only
        /\ run'[c].used = run[c].used /\ run'[c].calls = n /\ run'[c].list = run[c].list /\ run'[c].cand = run[c].cand
        /\ \A d \in Cycle \ {c} : run'[d] = run[d]
    BY <1>0, <2>1, <2>2, WorkFacts
  <2>6. job' = job /\ UNCHANGED tables /\ UNCHANGED overlapped
    BY <1>3 DEF Work, tables
  <2>7. \A d \in Runs \ {c} : report'[d] = report[d] /\ record'[d] = record[d]
    BY <1>0, <1>3 DEF Work, TypeOK
  <2>8. \A d \in Runs \ {c} : spent'[d] = spent[d]
    BY <1>0, <1>3, <2>3 DEF Work
  <2>9. TypeOK'
    BY <1>0, <1>3, <2>5, <2>6, <2>3 DEF Work, TypeOK, tables
  <2>10. /\ PendingOK(run'[c]) /\ (c \in Runs => RunOK(run'[c]))
        /\ (c \in Flows => FlowOK(run'[c], job'[c]))
    BY <1>0, <1>3, <2>5, <2>6 DEF Work, PendingOK, RunOK, FlowOK, StagePCs, RunRec
  <2>11. /\ TraceOK(run'[c], events, into) /\ PairsOK(run'[c]) /\ (Mid(run'[c]) => Mid(run[c]))
        /\ (Merging(run'[c]) => Merging(run[c]) /\ run'[c].cand = run[c].cand)
    BY <1>0, <1>inv, <1>3, <2>5 DEF Work, TraceOK, PairsOK, Mid, Merging, StagePCs
  <2>12. c \in Runs => RecordOK(run'[c], report'[c], record'[c])
    BY <1>0, <1>inv, <1>3, <2>5 DEF Work, RecordOK, StagePCs, TypeOK
  <2>13. c \in Runs => BudgetOK(run'[c], spent'[c])
    BY <1>0, <1>inv, <1>3, <2>5, <2>2, <2>3, <2>4, DreamBounds DEF Work, BudgetOK, StagePCs, RunRec, Budgeted, TypeOK
  <2>14. Ordinary(c)
    BY <2>5, <2>6, <2>7, <2>8, <2>10, <2>11, <2>12, <2>13 DEF Ordinary
  <2> QED BY <1>0, <2>9, <2>14, OrdinaryStep
<1>4. CASE LlmFails(c)
  <2>2. run' = run /\ job' = job /\ UNCHANGED <<report, record, overlapped>> /\ UNCHANGED tables
    BY <1>4 DEF LlmFails, tables
  <2>3. /\ spent' \in [Runs -> [calls: Nat, lost: Nat]]
        /\ c \in Runs => /\ spent'[c].calls = spent[c].calls + 1
                         /\ spent'[c].lost = spent[c].lost + 1
        /\ \A d \in Runs \ {c} : spent'[d] = spent[d]
    BY <1>0, <1>4, SpendType DEF LlmFails
  <2>4. TypeOK'
    BY <1>0, <1>4, <2>2, <2>3, DreamBounds DEF LlmFails, Fault, TypeOK, tables
  <2>5. StandInv' /\ RecordInv'
    BY <2>2 DEF IInv, TypeInv, StandInv, RecordInv
  <2>6. TraceInv' /\ AloneInv'
    BY <2>2 DEF IInv, TraceInv, HiddenHasEvent, MergedWasMerged, AloneInv, Alone, Reachable, tables
  <2>7. BudgetInv'
    <3>1. c \in Runs => BudgetOK(run'[c], spent'[c])
      BY <1>0, <1>inv, <2>2, <2>3, DreamBounds DEF BudgetOK, RunRec, TypeOK
    <3> QED BY <1>0, <2>2, <2>3, <3>1, OneBudget DEF IInv
  <2> QED BY <2>4, <2>5, <2>6, <2>7 DEF IInv, TypeInv
<1>5. CASE StageFails(c)
  <2>1. PICK n \in Nat : Spend(c, n, n)
    <3>1. CASE UNCHANGED spent
      <4>1. c \in Runs => spent[c] = [calls |-> spent[c].calls + 0, lost |-> spent[c].lost + 0]
        BY <1>0 DEF TypeOK
      <4>2. Spend(c, 0, 0)
        BY <1>0, <3>1, <4>1 DEF Spend, TypeOK
      <4> QED BY <4>2
    <3>2. CASE \E n \in 0..LlmLimit(c) : Spend(c, n, n)
      BY <1>0, <3>2, LlmLimitType
    <3> QED BY <1>5, <3>1, <3>2 DEF StageFails
  <2>2. Go(c, "error") /\ "error" \in PCs
    BY <1>5 DEF StageFails, PCs, StagePCs
  <2>3. /\ spent' \in [Runs -> [calls: Nat, lost: Nat]]
        /\ c \in Runs => /\ spent'[c].calls = spent[c].calls + n
                         /\ spent'[c].lost = spent[c].lost + n
        /\ \A d \in Runs \ {c} : spent'[d] = spent[d]
    BY <1>0, <2>1, SpendType
  <2>4. c \in Runs => run[c].calls = 0 /\ run[c].pc \in StagePCs \ {"start"}
    <3>1. c \in Runs /\ run[c].pc = "work" => run[c].step # 1
      BY <1>0, <1>5, StagesOf DEF StageFails
    <3> QED BY <1>0, <1>inv, <1>5, <3>1 DEF StageFails, BudgetOK, StagePCs
  <2>5. /\ run' \in [Cycle -> RunRec]
        /\ run'[c].pc = "error" /\ run'[c].at = run[c].at /\ run'[c].step = run[c].step /\ run'[c].only = run[c].only
        /\ run'[c].used = run[c].used /\ run'[c].calls = run[c].calls /\ run'[c].list = run[c].list /\ run'[c].cand = run[c].cand
        /\ \A d \in Cycle \ {c} : run'[d] = run[d]
    BY <1>0, <2>2, GoFacts
  <2>6. job' = job /\ UNCHANGED tables /\ UNCHANGED overlapped
    BY <1>5 DEF StageFails, tables
  <2>7. \A d \in Runs \ {c} : report'[d] = report[d] /\ record'[d] = record[d]
    BY <1>0, <1>5 DEF StageFails, TypeOK
  <2>8. \A d \in Runs \ {c} : spent'[d] = spent[d]
    BY <1>0, <1>5, <2>3 DEF StageFails
  <2>9. TypeOK'
    BY <1>0, <1>5, <2>5, <2>6, <2>3, DreamBounds DEF StageFails, Fault, TypeOK, tables
  <2>10. /\ PendingOK(run'[c]) /\ (c \in Runs => RunOK(run'[c]))
        /\ (c \in Flows => FlowOK(run'[c], job'[c]))
    BY <1>0, <1>5, <2>5, <2>6 DEF StageFails, PendingOK, RunOK, FlowOK, StagePCs, RunRec
  <2>11. /\ TraceOK(run'[c], events, into) /\ PairsOK(run'[c]) /\ (Mid(run'[c]) => Mid(run[c]))
        /\ (Merging(run'[c]) => Merging(run[c]) /\ run'[c].cand = run[c].cand)
    BY <1>0, <1>inv, <1>5, <2>5 DEF StageFails, TraceOK, PairsOK, Mid, Merging, StagePCs
  <2>12. c \in Runs => RecordOK(run'[c], report'[c], record'[c])
    BY <1>0, <1>inv, <1>5, <2>5 DEF StageFails, RecordOK, StagePCs, TypeOK
  <2>13. c \in Runs => BudgetOK(run'[c], spent'[c])
    BY <1>0, <1>inv, <1>5, <2>5, <2>3, <2>4, DreamBounds DEF StageFails, BudgetOK, StagePCs, RunRec, TypeOK
  <2>14. Ordinary(c)
    BY <2>5, <2>6, <2>7, <2>8, <2>10, <2>11, <2>12, <2>13 DEF Ordinary
  <2> QED BY <1>0, <2>9, <2>14, OrdinaryStep
<1>6. CASE Complete(c)
  <2>0. record' \in [Cycle -> [Stage -> {"none", "STARTED", "COMPLETED", "ERROR"}]]
    BY <1>0, <1>6, RecordType DEF Complete
  <2>00. /\ \A d \in Cycle \ {c} : record'[d] = record[d]
         /\ \A x \in Stage : record'[c][x] = IF Recorded(c) /\ x = StageOf(c) THEN "COMPLETED" ELSE record[c][x]
    BY <1>0, <1>6, RecordFacts DEF Complete
  <2>1. CASE c \in Runs
    <3>1. run' = [run EXCEPT ![c] = [@ EXCEPT !.pc = "next", !.calls = 0,
                                              !.used = run[c].used + run[c].calls]]
      BY <1>6, <2>1 DEF Complete
    <3>2. \A s \in Stage : record'[c][s] # "STARTED"
      <4>1. StageOf(c) = RunStages[run[c].step] /\ (Recorded(c) <=> StageOf(c) # "identity")
        BY <2>1, StagesOf DEF Recorded
      <4>2. \A s \in Stage : record[c][s] = "STARTED" => s = StageOf(c) /\ Recorded(c)
        BY <1>inv, <1>6, <2>1, <4>1 DEF Complete, RecordOK, StagePCs
      <4> QED BY <2>00, <4>2
    <3>3. /\ run' \in [Cycle -> RunRec]
          /\ run'[c].pc = "next" /\ run'[c].at = run[c].at /\ run'[c].step = run[c].step /\ run'[c].only = run[c].only
          /\ run'[c].used = run[c].used + run[c].calls /\ run'[c].calls = 0 /\ run'[c].list = run[c].list /\ run'[c].cand = run[c].cand
          /\ \A d \in Cycle \ {c} : run'[d] = run[d]
      BY <1>0, <3>1, CountFacts
    <3>4. job' = job /\ UNCHANGED tables /\ UNCHANGED overlapped
      BY <1>6, <2>1 DEF Complete, tables
    <3>5. \A d \in Runs \ {c} : report'[d] = report[d] /\ record'[d] = record[d]
      BY <1>0, <1>6, <2>1, <2>00 DEF Complete, TypeOK, Cycle
    <3>6. \A d \in Runs \ {c} : spent'[d] = spent[d]
      BY <1>0, <1>6, <2>1 DEF Complete
    <3>7. TypeOK'
      BY <1>0, <1>6, <2>1, <3>3, <3>4, <2>0 DEF Complete, TypeOK, tables
    <3>8. /\ PendingOK(run'[c]) /\ (c \in Runs => RunOK(run'[c]))
          /\ (c \in Flows => FlowOK(run'[c], job'[c]))
      BY <1>0, <1>6, <2>1, <3>3, <3>4, <2>1 DEF Complete, PendingOK, RunOK, FlowOK, StagePCs, RunRec
    <3>9. /\ TraceOK(run'[c], events, into) /\ PairsOK(run'[c]) /\ (Mid(run'[c]) => Mid(run[c]))
          /\ (Merging(run'[c]) => Merging(run[c]) /\ run'[c].cand = run[c].cand)
      BY <1>0, <1>inv, <1>6, <2>1, <3>3 DEF Complete, TraceOK, PairsOK, Mid, Merging, StagePCs
    <3>10. c \in Runs => RecordOK(run'[c], report'[c], record'[c])
      BY <1>0, <1>inv, <1>6, <2>1, <3>3, <3>2 DEF Complete, RecordOK, StagePCs, TypeOK
    <3>11. c \in Runs => BudgetOK(run'[c], spent'[c])
      BY <1>0, <1>inv, <1>6, <2>1, <3>3, DreamBounds DEF Complete, BudgetOK, StagePCs, RunRec, TypeOK
    <3>12. Ordinary(c)
      BY <3>3, <3>4, <3>5, <3>6, <3>8, <3>9, <3>10, <3>11 DEF Ordinary
    <3> QED BY <1>0, <3>7, <3>12, OrdinaryStep
  <2>2. CASE c \in Flows
    <3>1. c \notin Runs /\ run[c].step \in 1..9
      BY <1>0, <1>6, <2>2 DEF Complete, FlowOK, RunRec
    <3>2. PICK pc, k, s :
            /\ pc = IF run[c].step = Len(FlowStages) THEN "over" ELSE "next"
            /\ k = IF run[c].step = Len(FlowStages) THEN run[c].step ELSE run[c].step + 1
            /\ s = IF run[c].step = Len(FlowStages) THEN "done" ELSE "waiting"
      OBVIOUS
    <3>3. /\ Leave(c, pc, k)
          /\ job' = [job EXCEPT ![c] = [state |-> s, attempts |-> 0, stalls |-> 0]]
      BY <1>6, <3>1, <3>2 DEF Complete, Leave
    <3>4. /\ k \in 1..9 /\ k \in 0..11 /\ pc \in PCs
          /\ (pc = "over" /\ s = "done") \/ (pc = "next" /\ s = "waiting")
      BY <3>1, <3>2 DEF PCs
    <3>5. job' \in [Flows -> JobRec] /\ job'[c].state = s /\ job'[c].attempts = 0
          /\ \A f \in Flows \ {c} : job'[f] = job[f]
      BY <1>0, <2>2, <3>4, <3>3, DreamBounds DEF TypeOK, JobRec
    <3>6. /\ run' \in [Cycle -> RunRec]
          /\ run'[c].pc = pc /\ run'[c].at = None /\ run'[c].step = k /\ run'[c].only = run[c].only
          /\ run'[c].used = run[c].used /\ run'[c].calls = 0 /\ run'[c].list = run[c].list /\ run'[c].cand = run[c].cand
          /\ \A d \in Cycle \ {c} : run'[d] = run[d]
      BY <1>0, <3>3, <3>4, CompleteJobFacts
    <3>7. TypeOK'
      BY <1>0, <1>6, <2>0, <3>5, <3>6 DEF Complete, TypeOK, tables
    <3>8. PendingOK(run'[c]) /\ FlowOK(run'[c], job'[c])
      BY <3>4, <3>5, <3>6, DreamBounds DEF PendingOK, FlowOK, StagePCs
    <3>9. TraceOK(run'[c], events, into) /\ PairsOK(run'[c]) /\ ~Mid(run'[c]) /\ ~Merging(run'[c])
      BY <1>inv, <3>4, <3>6 DEF TraceOK, PairsOK, Mid, Merging, StagePCs
    <3>10. UNCHANGED <<report, spent, overlapped>> /\ UNCHANGED tables
      BY <1>6 DEF Complete, tables
    <3>11. Ordinary(c)
      BY <2>00, <3>1, <3>5, <3>6, <3>8, <3>9, <3>10 DEF Ordinary, Cycle
    <3> QED BY <1>0, <3>7, <3>11, OrdinaryStep
  <2> QED BY <2>1, <2>2 DEF Cycle
<1>7. CASE CompleteFails(c)
  <2>1. run[c].calls \in Nat
    BY <1>0 DEF RunRec
  <2>2. run' = [run EXCEPT ![c] = [@ EXCEPT !.pc = "error", !.calls = 0]]
    BY <1>7 DEF CompleteFails
  <2>3. /\ spent' \in [Runs -> [calls: Nat, lost: Nat]]
        /\ c \in Runs => /\ spent'[c].calls = spent[c].calls + 0
                         /\ spent'[c].lost = spent[c].lost + run[c].calls
        /\ \A d \in Runs \ {c} : spent'[d] = spent[d]
    BY <1>0, <1>7, <2>1, SpendType DEF CompleteFails
  <2>4. /\ run' \in [Cycle -> RunRec]
        /\ run'[c].pc = "error" /\ run'[c].at = run[c].at /\ run'[c].step = run[c].step /\ run'[c].only = run[c].only
        /\ run'[c].used = run[c].used /\ run'[c].calls = 0 /\ run'[c].list = run[c].list /\ run'[c].cand = run[c].cand
        /\ \A d \in Cycle \ {c} : run'[d] = run[d]
    BY <1>0, <2>2, UncountFacts
  <2>5. job' = job /\ UNCHANGED tables /\ UNCHANGED overlapped
    BY <1>7 DEF CompleteFails, tables
  <2>6. \A d \in Runs \ {c} : report'[d] = report[d] /\ record'[d] = record[d]
    BY <1>0, <1>7 DEF CompleteFails, TypeOK
  <2>7. \A d \in Runs \ {c} : spent'[d] = spent[d]
    BY <1>0, <1>7, <2>3 DEF CompleteFails
  <2>8. TypeOK'
    BY <1>0, <1>7, <2>4, <2>5, <2>3, DreamBounds DEF CompleteFails, Fault, TypeOK, tables
  <2>9. /\ PendingOK(run'[c]) /\ (c \in Runs => RunOK(run'[c]))
        /\ (c \in Flows => FlowOK(run'[c], job'[c]))
    BY <1>0, <1>7, <2>4, <2>5 DEF CompleteFails, PendingOK, RunOK, FlowOK, StagePCs, RunRec
  <2>10. /\ TraceOK(run'[c], events, into) /\ PairsOK(run'[c]) /\ (Mid(run'[c]) => Mid(run[c]))
        /\ (Merging(run'[c]) => Merging(run[c]) /\ run'[c].cand = run[c].cand)
    BY <1>0, <1>inv, <1>7, <2>4 DEF CompleteFails, TraceOK, PairsOK, Mid, Merging, StagePCs
  <2>11. c \in Runs => RecordOK(run'[c], report'[c], record'[c])
    BY <1>0, <1>inv, <1>7, <2>4 DEF CompleteFails, RecordOK, StagePCs, TypeOK
  <2>12. c \in Runs => BudgetOK(run'[c], spent'[c])
    BY <1>0, <1>inv, <1>7, <2>4, <2>3, DreamBounds DEF CompleteFails, BudgetOK, StagePCs, RunRec, TypeOK
  <2>13. Ordinary(c)
    BY <2>4, <2>5, <2>6, <2>7, <2>9, <2>10, <2>11, <2>12 DEF Ordinary
  <2> QED BY <1>0, <2>8, <2>13, OrdinaryStep
<1>8. CASE Error(c)
  <2>0. record' \in [Cycle -> [Stage -> {"none", "STARTED", "COMPLETED", "ERROR"}]]
    BY <1>0, <1>8, RecordType DEF Error
  <2>00. /\ \A d \in Cycle \ {c} : record'[d] = record[d]
         /\ \A x \in Stage : record'[c][x] = IF Recorded(c) /\ x = StageOf(c) THEN "ERROR" ELSE record[c][x]
    BY <1>0, <1>8, RecordFacts DEF Error
  <2>1. CASE c \in Runs
    <3>1. run' = [run EXCEPT ![c] = [@ EXCEPT !.pc = "next", !.calls = 0, !.list = {}, !.cand = None]]
      BY <1>8, <2>1 DEF Error
    <3>2. \A s \in Stage : record'[c][s] # "STARTED"
      <4>1. StageOf(c) = RunStages[run[c].step] /\ (Recorded(c) <=> StageOf(c) # "identity")
        BY <2>1, StagesOf DEF Recorded
      <4>2. \A s \in Stage : record[c][s] = "STARTED" => s = StageOf(c) /\ Recorded(c)
        BY <1>inv, <1>8, <2>1, <4>1 DEF Error, RecordOK, StagePCs
      <4> QED BY <2>00, <4>2
    <3>3. /\ run' \in [Cycle -> RunRec]
          /\ run'[c].pc = "next" /\ run'[c].at = run[c].at /\ run'[c].step = run[c].step /\ run'[c].only = run[c].only
          /\ run'[c].used = run[c].used /\ run'[c].calls = 0 /\ run'[c].list = {} /\ run'[c].cand = None
          /\ \A d \in Cycle \ {c} : run'[d] = run[d]
      BY <1>0, <3>1, ErrorRunFacts
    <3>4. job' = job /\ UNCHANGED tables /\ UNCHANGED overlapped
      BY <1>8, <2>1 DEF Error, tables
    <3>5. \A d \in Runs \ {c} : report'[d] = report[d] /\ record'[d] = record[d]
      BY <1>0, <1>8, <2>1, <2>00 DEF Error, TypeOK, Cycle
    <3>6. \A d \in Runs \ {c} : spent'[d] = spent[d]
      BY <1>0, <1>8, <2>1 DEF Error
    <3>7. TypeOK'
      BY <1>0, <1>8, <2>1, <3>3, <3>4, <2>0 DEF Error, TypeOK, tables
    <3>8. /\ PendingOK(run'[c]) /\ (c \in Runs => RunOK(run'[c]))
          /\ (c \in Flows => FlowOK(run'[c], job'[c]))
      BY <1>0, <1>8, <2>1, <3>3, <3>4, <2>1 DEF Error, PendingOK, RunOK, FlowOK, StagePCs, RunRec
    <3>9. /\ TraceOK(run'[c], events, into) /\ PairsOK(run'[c]) /\ (Mid(run'[c]) => Mid(run[c]))
          /\ (Merging(run'[c]) => Merging(run[c]) /\ run'[c].cand = run[c].cand)
      BY <1>0, <1>inv, <1>8, <2>1, <3>3 DEF Error, TraceOK, PairsOK, Mid, Merging, StagePCs
    <3>10. c \in Runs => RecordOK(run'[c], report'[c], record'[c])
      BY <1>0, <1>inv, <1>8, <2>1, <3>3, <3>2 DEF Error, RecordOK, StagePCs, TypeOK
    <3>11. c \in Runs => BudgetOK(run'[c], spent'[c])
      BY <1>0, <1>inv, <1>8, <2>1, <3>3, DreamBounds DEF Error, BudgetOK, StagePCs, RunRec
    <3>12. Ordinary(c)
      BY <3>3, <3>4, <3>5, <3>6, <3>8, <3>9, <3>10, <3>11 DEF Ordinary
    <3> QED BY <1>0, <3>7, <3>12, OrdinaryStep
  <2>2. CASE c \notin Runs
    <3>1. run' \in [Cycle -> RunRec] /\ job' \in [Flows -> JobRec] /\ Ordinary(c)
      BY <1>0, <1>8, <2>2, <2>00, ThrowInv DEF Error, Cycle
    <3>2. TypeOK'
      BY <1>0, <1>8, <2>0, <3>1 DEF Error, TypeOK, tables
    <3> QED BY <1>0, <3>1, <3>2, OrdinaryStep
  <2> QED BY <2>1, <2>2
<1>9. CASE ErrorFails(c)
  <2>1. run' \in [Cycle -> RunRec] /\ job' \in [Flows -> JobRec] /\ Ordinary(c)
    BY <1>0, <1>9, ThrowInv DEF ErrorFails
  <2>2. TypeOK'
    BY <1>0, <1>9, <2>1, DreamBounds DEF ErrorFails, Fault, TypeOK, tables
  <2> QED BY <1>0, <2>1, <2>2, OrdinaryStep
<1> QED BY <1>1, <1>2, <1>3, <1>4, <1>5, <1>6, <1>7, <1>8, <1>9 DEF StageStep

LEMMA PendingStepInv ==
    ASSUME IInv, NEW c \in Cycle, PendingStep(c) PROVE IInv'
<1> USE DreamSets, StageFacts
<1>0. /\ TypeOK /\ run[c] \in RunRec /\ c \in Cycle /\ PendingOK(run[c])
      /\ (c \in Runs => RunOK(run[c])) /\ (c \in Flows => FlowOK(run[c], job[c]))
  BY DEF IInv, TypeInv, TypeOK, StandInv, Cycle
<1>inv. /\ TraceOK(run[c], events, into) /\ PairsOK(run[c])
        /\ c \in Runs => RecordOK(run[c], report[c], record[c]) /\ BudgetOK(run[c], spent[c])
  BY <1>0 DEF IInv, TraceInv, AloneInv, RecordInv, BudgetInv
<1>1. CASE ListPending(c)
  <2>1. PICK l : l = {p \in Candidate : cand[p] = "PENDING"}
    OBVIOUS
  <2>2. LookAt(c, "work", l)
    BY <1>1, <2>1 DEF ListPending, LookAt
  <2>3. l \in SUBSET Candidate /\ "work" \in PCs
    BY <2>1 DEF PCs, StagePCs
  <2>4. run[c].step = 1 /\ \A p \in l : p[1] # p[2]
    BY <1>0, <1>1, <2>1 DEF ListPending, PendingOK, IInv, AloneInv
  <2>5. /\ run' \in [Cycle -> RunRec]
        /\ run'[c].pc = "work" /\ run'[c].at = run[c].at /\ run'[c].step = run[c].step /\ run'[c].only = run[c].only
        /\ run'[c].used = run[c].used /\ run'[c].calls = run[c].calls /\ run'[c].list = l /\ run'[c].cand = run[c].cand
        /\ \A d \in Cycle \ {c} : run'[d] = run[d]
    BY <1>0, <2>2, <2>3, ListFacts
  <2>6. job' = job /\ UNCHANGED tables /\ UNCHANGED overlapped
    BY <1>1 DEF ListPending, tables
  <2>7. \A d \in Runs \ {c} : report'[d] = report[d] /\ record'[d] = record[d]
    BY <1>0, <1>1 DEF ListPending, TypeOK
  <2>8. \A d \in Runs \ {c} : spent'[d] = spent[d]
    BY <1>0, <1>1 DEF ListPending
  <2>9. TypeOK'
    BY <1>0, <1>1, <2>5, <2>6 DEF ListPending, TypeOK, tables
  <2>10. /\ PendingOK(run'[c]) /\ (c \in Runs => RunOK(run'[c]))
        /\ (c \in Flows => FlowOK(run'[c], job'[c]))
    BY <1>0, <1>1, <2>5, <2>6 DEF ListPending, PendingOK, RunOK, FlowOK, StagePCs, RunRec
  <2>11. /\ TraceOK(run'[c], events, into) /\ PairsOK(run'[c]) /\ (Mid(run'[c]) => Mid(run[c]))
        /\ (Merging(run'[c]) => Merging(run[c]) /\ run'[c].cand = run[c].cand)
    BY <1>0, <1>inv, <1>1, <2>5, <2>4 DEF ListPending, TraceOK, PairsOK, Mid, Merging, StagePCs
  <2>12. c \in Runs => RecordOK(run'[c], report'[c], record'[c])
    BY <1>0, <1>inv, <1>1, <2>5 DEF ListPending, RecordOK, StagePCs, TypeOK
  <2>13. c \in Runs => BudgetOK(run'[c], spent'[c])
    BY <1>0, <1>inv, <1>1, <2>5, DreamBounds DEF ListPending, BudgetOK, StagePCs, RunRec
  <2>14. Ordinary(c)
    BY <2>5, <2>6, <2>7, <2>8, <2>10, <2>11, <2>12, <2>13 DEF Ordinary
  <2> QED BY <1>0, <2>9, <2>14, OrdinaryStep
<1>2. CASE EndOfPending(c)
  <2>1. LookAt(c, "complete", {})
    BY <1>2 DEF EndOfPending, LookAt
  <2>2. {} \in SUBSET Candidate /\ "complete" \in PCs
    BY DEF PCs, StagePCs
  <2>3. run[c].pc = "work"
    BY <1>2 DEF EndOfPending
  <2>4. /\ run' \in [Cycle -> RunRec]
        /\ run'[c].pc = "complete" /\ run'[c].at = run[c].at /\ run'[c].step = run[c].step /\ run'[c].only = run[c].only
        /\ run'[c].used = run[c].used /\ run'[c].calls = run[c].calls /\ run'[c].list = {} /\ run'[c].cand = run[c].cand
        /\ \A d \in Cycle \ {c} : run'[d] = run[d]
    BY <1>0, <2>1, <2>2, ListFacts
  <2>5. job' = job /\ UNCHANGED tables /\ UNCHANGED overlapped
    BY <1>2 DEF EndOfPending, tables
  <2>6. \A d \in Runs \ {c} : report'[d] = report[d] /\ record'[d] = record[d]
    BY <1>0, <1>2 DEF EndOfPending, TypeOK
  <2>7. \A d \in Runs \ {c} : spent'[d] = spent[d]
    BY <1>0, <1>2 DEF EndOfPending
  <2>8. TypeOK'
    BY <1>0, <1>2, <2>4, <2>5 DEF EndOfPending, TypeOK, tables
  <2>9. /\ PendingOK(run'[c]) /\ (c \in Runs => RunOK(run'[c]))
        /\ (c \in Flows => FlowOK(run'[c], job'[c]))
    BY <1>0, <1>2, <2>4, <2>5 DEF EndOfPending, PendingOK, RunOK, FlowOK, StagePCs, RunRec
  <2>10. /\ TraceOK(run'[c], events, into) /\ PairsOK(run'[c]) /\ (Mid(run'[c]) => Mid(run[c]))
        /\ (Merging(run'[c]) => Merging(run[c]) /\ run'[c].cand = run[c].cand)
    BY <1>0, <1>inv, <1>2, <2>4, <2>3 DEF EndOfPending, TraceOK, PairsOK, Mid, Merging, StagePCs
  <2>11. c \in Runs => RecordOK(run'[c], report'[c], record'[c])
    BY <1>0, <1>inv, <1>2, <2>4 DEF EndOfPending, RecordOK, StagePCs, TypeOK
  <2>12. c \in Runs => BudgetOK(run'[c], spent'[c])
    BY <1>0, <1>inv, <1>2, <2>4, <2>3, DreamBounds DEF EndOfPending, BudgetOK, StagePCs, RunRec
  <2>13. Ordinary(c)
    BY <2>4, <2>5, <2>6, <2>7, <2>9, <2>10, <2>11, <2>12 DEF Ordinary
  <2> QED BY <1>0, <2>8, <2>13, OrdinaryStep
<1>3. CASE CheckMerge(c)
  <2>0. run[c].cand \in Candidate
    BY <1>0, <1>3 DEF CheckMerge, PendingOK
  <2>1. CASE into[run[c].cand[1]] = None /\ into[run[c].cand[2]] = None
    <3>1. Go(c, "event") /\ "event" \in PCs
      BY <1>3, <2>1 DEF CheckMerge, PCs, StagePCs
    <3>2. /\ run' \in [Cycle -> RunRec]
          /\ run'[c].pc = "event" /\ run'[c].at = run[c].at /\ run'[c].step = run[c].step /\ run'[c].only = run[c].only
          /\ run'[c].used = run[c].used /\ run'[c].calls = run[c].calls /\ run'[c].list = run[c].list /\ run'[c].cand = run[c].cand
          /\ \A d \in Cycle \ {c} : run'[d] = run[d]
      BY <1>0, <3>1, GoFacts
    <3>3. job' = job /\ UNCHANGED <<report, record, spent>>
      BY <1>3, <2>0 DEF CheckMerge
    <3>4. TypeOK'
      BY <1>0, <1>3, <2>0, <3>2, <3>3 DEF CheckMerge, TypeOK, tables
    <3>5. StandInv'
      <4>1. /\ PendingOK(run'[c]) /\ (c \in Runs => RunOK(run'[c]))
               /\ (c \in Flows => FlowOK(run'[c], job'[c]))
        BY <1>0, <1>3, <2>0, <3>2, <3>3 DEF CheckMerge, PendingOK, RunOK, FlowOK, StagePCs, RunRec
      <4> QED BY <1>0, <3>2, <3>3, <4>1, OneStands DEF IInv, TypeInv
    <3>6. RecordInv'
      <4>1. c \in Runs => RecordOK(run'[c], report'[c], record'[c])
        BY <1>0, <1>inv, <1>3, <2>0, <3>2, <3>3 DEF CheckMerge, RecordOK, StagePCs
      <4> QED BY <1>0, <3>2, <3>3, <4>1, OneRecord DEF IInv
    <3>7. BudgetInv'
      <4>1. c \in Runs => BudgetOK(run'[c], spent'[c])
        BY <1>0, <1>inv, <1>3, <2>0, <3>2, <3>3, DreamBounds DEF CheckMerge, BudgetOK, StagePCs, RunRec
      <4> QED BY <1>0, <3>2, <3>3, <4>1, OneBudget DEF IInv
    <3>8. TraceInv'
      <4>1. TraceOK(run'[c], events, into) /\ UNCHANGED tables
        BY <1>inv, <1>3, <3>2 DEF CheckMerge, TraceOK, tables
      <4> QED BY <1>0, <3>2, <4>1, OneTrace DEF IInv
    <3>9. AloneInv'
      <4>1. PairsOK(run'[c])
        BY <1>inv, <1>3, <3>2 DEF CheckMerge, PairsOK
      <4>2. \A d \in Cycle : PairsOK(run'[d])
        BY <1>0, <3>2, <4>1, OnePair DEF IInv
      <4>3. into' = into /\ cand' = cand /\ overlapped' = overlapped
        BY <1>3 DEF CheckMerge, tables
      <4>4. ASSUME overlapped' = FALSE PROVE Alone' /\ Reachable'
        <5>1. Alone /\ Reachable
          BY <4>3, <4>4 DEF IInv, AloneInv
        <5>2. \A d \in Cycle : Mid(run'[d]) => Mid(run[d])
          BY <1>3, <3>2 DEF CheckMerge, Mid, StagePCs
        <5>3. \A d \in Cycle : Merging(run'[d]) =>
                into'[run'[d].cand[1]] = None /\ into'[run'[d].cand[2]] = None
          BY <2>1, <3>2, <4>3, <5>1 DEF Alone
        <5>4. Alone'
          BY <5>1, <5>2, <5>3 DEF Alone
        <5> QED BY <4>3, <5>1, <5>4 DEF Reachable
      <4> QED BY <4>2, <4>3, <4>4 DEF AloneInv, IInv
    <3> QED BY <3>4, <3>5, <3>6, <3>7, <3>8, <3>9 DEF IInv, TypeInv
  <2>2. CASE ~(into[run[c].cand[1]] = None /\ into[run[c].cand[2]] = None)
    <3>1. Back(c)
      BY <1>3, <2>2 DEF CheckMerge
    <3>2. run[c].step = 1 /\ run[c].pc \in StagePCs
      BY <1>0, <1>3 DEF CheckMerge, PendingOK, StagePCs
    <3>3. /\ run' \in [Cycle -> RunRec]
          /\ run'[c].pc = "work" /\ run'[c].at = run[c].at /\ run'[c].step = run[c].step /\ run'[c].only = run[c].only
          /\ run'[c].used = run[c].used /\ run'[c].calls = run[c].calls /\ run'[c].list = run[c].list /\ run'[c].cand = None
          /\ \A d \in Cycle \ {c} : run'[d] = run[d]
      BY <1>0, <3>1, BackFacts
    <3>4. job' = job /\ UNCHANGED tables /\ UNCHANGED overlapped
      BY <1>3 DEF CheckMerge, tables
    <3>5. \A d \in Runs \ {c} : report'[d] = report[d] /\ record'[d] = record[d]
      BY <1>0, <1>3 DEF CheckMerge, TypeOK
    <3>6. \A d \in Runs \ {c} : spent'[d] = spent[d]
      BY <1>0, <1>3 DEF CheckMerge
    <3>7. TypeOK'
      BY <1>0, <1>3, <3>3, <3>4 DEF CheckMerge, TypeOK, tables
    <3>8. /\ PendingOK(run'[c]) /\ (c \in Runs => RunOK(run'[c]))
          /\ (c \in Flows => FlowOK(run'[c], job'[c]))
      BY <1>0, <1>3, <3>3, <3>4 DEF CheckMerge, PendingOK, RunOK, FlowOK, StagePCs, RunRec
    <3>9. /\ TraceOK(run'[c], events, into) /\ PairsOK(run'[c]) /\ (Mid(run'[c]) => Mid(run[c]))
          /\ (Merging(run'[c]) => Merging(run[c]) /\ run'[c].cand = run[c].cand)
      BY <1>0, <1>inv, <1>3, <3>3 DEF CheckMerge, TraceOK, PairsOK, Mid, Merging, StagePCs
    <3>10. c \in Runs => RecordOK(run'[c], report'[c], record'[c])
      BY <1>0, <1>inv, <1>3, <3>3 DEF CheckMerge, RecordOK, StagePCs, TypeOK
    <3>11. c \in Runs => BudgetOK(run'[c], spent'[c])
      BY <1>0, <1>inv, <1>3, <3>3, <3>2, DreamBounds DEF CheckMerge, BudgetOK, StagePCs, RunRec
    <3>12. Ordinary(c)
      BY <3>3, <3>4, <3>5, <3>6, <3>8, <3>9, <3>10, <3>11 DEF Ordinary
    <3> QED BY <1>0, <3>7, <3>12, OrdinaryStep
  <2> QED BY <2>1, <2>2
<1>4. CASE RecordMerge(c)
  <2>0. run[c].cand \in Candidate
    BY <1>0, <1>4 DEF RecordMerge, PendingOK
  <2>1. Go(c, "hide") /\ "hide" \in PCs
    BY <1>4 DEF RecordMerge, PCs, StagePCs
  <2>2. /\ run' \in [Cycle -> RunRec]
        /\ run'[c].pc = "hide" /\ run'[c].at = run[c].at /\ run'[c].step = run[c].step /\ run'[c].only = run[c].only
        /\ run'[c].used = run[c].used /\ run'[c].calls = run[c].calls /\ run'[c].list = run[c].list /\ run'[c].cand = run[c].cand
        /\ \A d \in Cycle \ {c} : run'[d] = run[d]
    BY <1>0, <2>1, GoFacts
  <2>3. job' = job /\ UNCHANGED <<report, record, spent>>
    BY <1>4 DEF RecordMerge
  <2>4. TypeOK'
    BY <1>0, <1>4, <2>2, <2>3, <2>0 DEF RecordMerge, TypeOK, tables
  <2>5. StandInv'
    <3>1. /\ PendingOK(run'[c]) /\ (c \in Runs => RunOK(run'[c]))
             /\ (c \in Flows => FlowOK(run'[c], job'[c]))
      BY <1>0, <1>4, <2>2, <2>3 DEF RecordMerge, PendingOK, RunOK, FlowOK, StagePCs, RunRec
    <3> QED BY <1>0, <2>2, <2>3, <3>1, OneStands DEF IInv, TypeInv
  <2>6. RecordInv'
    <3>1. c \in Runs => RecordOK(run'[c], report'[c], record'[c])
      BY <1>0, <1>inv, <1>4, <2>2, <2>3 DEF RecordMerge, RecordOK, StagePCs
    <3> QED BY <1>0, <2>2, <2>3, <3>1, OneRecord DEF IInv
  <2>7. BudgetInv'
    <3>1. c \in Runs => BudgetOK(run'[c], spent'[c])
      BY <1>0, <1>inv, <1>4, <2>2, <2>3, DreamBounds DEF RecordMerge, BudgetOK, StagePCs, RunRec
    <3> QED BY <1>0, <2>2, <2>3, <3>1, OneBudget DEF IInv
  <2>8. TraceInv'
    <3>1. events' = events \cup {run[c].cand} /\ into' = into /\ cand' = cand
      BY <1>4 DEF RecordMerge
    <3>2. \A d \in Cycle : TraceOK(run'[d], events', into')
      BY <2>2, <3>1 DEF TraceOK, IInv, TraceInv
    <3> QED BY <3>1, <3>2 DEF IInv, TraceInv, HiddenHasEvent, MergedWasMerged
  <2>9. AloneInv'
    <3>1. /\ PairsOK(run'[c]) /\ (Mid(run'[c]) => Mid(run[c]))
          /\ Merging(run[c]) /\ run'[c].cand = run[c].cand
      BY <1>inv, <1>4, <2>2 DEF RecordMerge, PairsOK, Mid, Merging, StagePCs
    <3>2. into' = into /\ cand' = cand /\ overlapped' = overlapped
      BY <1>4 DEF RecordMerge
    <3>3. \A p \in Candidate : cand'[p] # "none" => p[1] # p[2]
      BY <3>2 DEF IInv, AloneInv
    <3> QED BY <1>0, <2>2, <3>1, <3>2, <3>3, OneAlone DEF IInv
  <2> QED BY <2>4, <2>5, <2>6, <2>7, <2>8, <2>9 DEF IInv, TypeInv
<1>5. CASE HideAbsorbed(c)
  <2>0. run[c].cand \in Candidate /\ run[c].cand[1] \in Memory /\ run[c].cand[2] \in Memory
    BY <1>0, <1>5 DEF HideAbsorbed, PendingOK, Candidate
  <2>1. Go(c, "status") /\ "status" \in PCs
    BY <1>5 DEF HideAbsorbed, PCs, StagePCs
  <2>2. /\ into' \in [Memory -> Memory \cup {None}] /\ into'[run[c].cand[2]] = run[c].cand[1]
        /\ \A m \in Memory : m # run[c].cand[2] => into'[m] = into[m]
    BY <1>0, <1>5, <2>0 DEF HideAbsorbed, TypeOK
  <2>3. /\ run' \in [Cycle -> RunRec]
        /\ run'[c].pc = "status" /\ run'[c].at = run[c].at /\ run'[c].step = run[c].step /\ run'[c].only = run[c].only
        /\ run'[c].used = run[c].used /\ run'[c].calls = run[c].calls /\ run'[c].list = run[c].list /\ run'[c].cand = run[c].cand
        /\ \A d \in Cycle \ {c} : run'[d] = run[d]
    BY <1>0, <2>1, GoFacts
  <2>4. job' = job /\ UNCHANGED <<report, record, spent>>
    BY <1>5 DEF HideAbsorbed
  <2>5. TypeOK'
    BY <1>0, <1>5, <2>3, <2>4, <2>2 DEF HideAbsorbed, TypeOK, tables
  <2>6. StandInv'
    <3>1. /\ PendingOK(run'[c]) /\ (c \in Runs => RunOK(run'[c]))
             /\ (c \in Flows => FlowOK(run'[c], job'[c]))
      BY <1>0, <1>5, <2>3, <2>4 DEF HideAbsorbed, PendingOK, RunOK, FlowOK, StagePCs, RunRec
    <3> QED BY <1>0, <2>3, <2>4, <3>1, OneStands DEF IInv, TypeInv
  <2>7. RecordInv'
    <3>1. c \in Runs => RecordOK(run'[c], report'[c], record'[c])
      BY <1>0, <1>inv, <1>5, <2>3, <2>4 DEF HideAbsorbed, RecordOK, StagePCs
    <3> QED BY <1>0, <2>3, <2>4, <3>1, OneRecord DEF IInv
  <2>8. BudgetInv'
    <3>1. c \in Runs => BudgetOK(run'[c], spent'[c])
      BY <1>0, <1>inv, <1>5, <2>3, <2>4, DreamBounds DEF HideAbsorbed, BudgetOK, StagePCs, RunRec
    <3> QED BY <1>0, <2>3, <2>4, <3>1, OneBudget DEF IInv
  <2>9. TraceInv'
    <3>1. events' = events /\ cand' = cand
      BY <1>5 DEF HideAbsorbed
    <3>2. run[c].cand \in events /\ run[c].cand = <<run[c].cand[1], run[c].cand[2]>>
      BY <1>inv, <1>5, <2>0 DEF HideAbsorbed, TraceOK, Candidate
    <3>3. \A m \in Memory : into[m] # None => into'[m] # None
      BY <2>0, <2>2
    <3>4. \A d \in Cycle : TraceOK(run'[d], events', into')
      <4> SUFFICES ASSUME NEW d \in Cycle PROVE TraceOK(run'[d], events, into')
        BY <3>1
      <4>1. CASE d = c
        BY <2>0, <2>2, <2>3, <3>2, <4>1 DEF TraceOK
      <4>2. CASE d # c
        <5>1. TraceOK(run[d], events, into) /\ PendingOK(run[d]) /\ run'[d] = run[d]
          BY <2>3, <4>2 DEF IInv, TypeInv, TraceInv, StandInv
        <5>2. run[d].pc = "status" => run[d].cand[2] \in Memory
          BY <5>1 DEF PendingOK, Candidate
        <5> QED BY <3>3, <5>1, <5>2 DEF TraceOK
      <4> QED BY <4>1, <4>2
    <3>5. HiddenHasEvent'
      BY <2>0, <2>2, <3>1, <3>2 DEF IInv, TraceInv, HiddenHasEvent
    <3>6. MergedWasMerged'
      BY <3>1, <3>3 DEF IInv, TraceInv, MergedWasMerged, Candidate
    <3> QED BY <3>4, <3>5, <3>6 DEF TraceInv
  <2>10. AloneInv'
    <3>1. PairsOK(run'[c]) /\ Mid(run[c]) /\ ~Merging(run'[c])
      BY <1>0, <1>inv, <1>5, <2>3 DEF HideAbsorbed, PairsOK, PendingOK, Mid, Merging, StagePCs
    <3>2. \A d \in Cycle : PairsOK(run'[d])
      BY <1>0, <2>3, <3>1, OnePair DEF IInv
    <3>3. cand' = cand /\ overlapped' = overlapped
      BY <1>5 DEF HideAbsorbed
    <3>4. ASSUME overlapped' = FALSE PROVE Alone' /\ Reachable'
      <4>1. Alone /\ Reachable
        BY <3>3, <3>4 DEF IInv, AloneInv
      <4>2. \A d \in Cycle \ {c} : ~Mid(run[d]) /\ ~Merging(run[d])
        <5>1. \A d \in Cycle \ {c} : ~Mid(run[d])
          BY <1>0, <3>1, <4>1 DEF Alone
        <5>2. \A d \in Cycle : Merging(run[d]) => Mid(run[d])
          BY DEF Merging, Mid, StagePCs, IInv, TypeInv, StandInv, PendingOK
        <5> QED BY <5>1, <5>2
      <4>3. Alone'
        BY <2>3, <3>1, <4>2 DEF Alone
      <4>4. /\ into[run[c].cand[1]] = None /\ into[run[c].cand[2]] = None
            /\ run[c].cand[1] # run[c].cand[2]
        BY <1>0, <1>inv, <1>5, <4>1 DEF HideAbsorbed, Alone, Merging, PairsOK
      <4>5. Reachable'
        <5> SUFFICES ASSUME NEW M \in SUBSET Memory, M # {}, \A m \in M : into'[m] # None,
                            \A m \in M : into'[m] \in M
                     PROVE  FALSE
          BY DEF Reachable
        <5>1. run[c].cand[1] \notin M
          BY <2>0, <2>2, <4>4
        <5>2. run[c].cand[2] \notin M
          BY <2>2, <5>1
        <5>3. \A m \in M : into[m] # None /\ into[m] \in M
          BY <2>2, <5>2
        <5> QED BY <4>1, <5>3 DEF Reachable
      <4> QED BY <4>3, <4>5
    <3> QED BY <3>2, <3>3, <3>4 DEF AloneInv, IInv
  <2> QED BY <2>5, <2>6, <2>7, <2>8, <2>9, <2>10 DEF IInv, TypeInv
<1>6. CASE WriteStatus(c)
  <2>0. run[c].cand \in Candidate
    BY <1>0, <1>6 DEF WriteStatus, PendingOK
  <2>1. Back(c)
    BY <1>6 DEF WriteStatus
  <2>2. /\ cand' \in [Candidate -> {"none", "PENDING", "MERGED", "REJECTED"}]
        /\ cand'[run[c].cand] = (IF run[c].pc = "status" THEN "MERGED" ELSE "REJECTED")
        /\ \A p \in Candidate : p # run[c].cand => cand'[p] = cand[p]
    BY <1>0, <1>6, <2>0 DEF WriteStatus, TypeOK
  <2>3. run[c].step = 1 /\ run[c].pc \in StagePCs
    BY <1>0, <1>6 DEF WriteStatus, PendingOK, StagePCs
  <2>4. /\ run' \in [Cycle -> RunRec]
        /\ run'[c].pc = "work" /\ run'[c].at = run[c].at /\ run'[c].step = run[c].step /\ run'[c].only = run[c].only
        /\ run'[c].used = run[c].used /\ run'[c].calls = run[c].calls /\ run'[c].list = run[c].list /\ run'[c].cand = None
        /\ \A d \in Cycle \ {c} : run'[d] = run[d]
    BY <1>0, <2>1, BackFacts
  <2>5. job' = job /\ UNCHANGED <<report, record, spent>>
    BY <1>6 DEF WriteStatus
  <2>6. TypeOK'
    BY <1>0, <1>6, <2>4, <2>5, <2>2 DEF WriteStatus, TypeOK, tables
  <2>7. StandInv'
    <3>1. /\ PendingOK(run'[c]) /\ (c \in Runs => RunOK(run'[c]))
             /\ (c \in Flows => FlowOK(run'[c], job'[c]))
      BY <1>0, <1>6, <2>4, <2>5 DEF WriteStatus, PendingOK, RunOK, FlowOK, StagePCs, RunRec
    <3> QED BY <1>0, <2>4, <2>5, <3>1, OneStands DEF IInv, TypeInv
  <2>8. RecordInv'
    <3>1. c \in Runs => RecordOK(run'[c], report'[c], record'[c])
      BY <1>0, <1>inv, <1>6, <2>4, <2>5 DEF WriteStatus, RecordOK, StagePCs
    <3> QED BY <1>0, <2>4, <2>5, <3>1, OneRecord DEF IInv
  <2>9. BudgetInv'
    <3>1. c \in Runs => BudgetOK(run'[c], spent'[c])
      BY <1>0, <1>inv, <1>6, <2>4, <2>5, <2>3, DreamBounds DEF WriteStatus, BudgetOK, StagePCs, RunRec
    <3> QED BY <1>0, <2>4, <2>5, <3>1, OneBudget DEF IInv
  <2>10. TraceInv'
    <3>1. events' = events /\ into' = into
      BY <1>6 DEF WriteStatus
    <3>2. \A d \in Cycle : TraceOK(run'[d], events', into')
      BY <2>4, <3>1 DEF TraceOK, IInv, TraceInv
    <3>3. MergedWasMerged'
      BY <1>inv, <2>0, <2>2, <3>1 DEF IInv, TraceInv, MergedWasMerged, TraceOK
    <3> QED BY <3>1, <3>2, <3>3 DEF IInv, TraceInv, HiddenHasEvent
  <2>11. AloneInv'
    <3>1. PairsOK(run'[c]) /\ (Mid(run'[c]) => Mid(run[c])) /\ ~Merging(run'[c])
      BY <1>inv, <1>6, <2>4 DEF WriteStatus, PairsOK, Mid, Merging, StagePCs
    <3>2. into' = into /\ overlapped' = overlapped
      BY <1>6 DEF WriteStatus
    <3>3. run[c].cand[1] # run[c].cand[2]
      BY <1>inv, <1>6 DEF WriteStatus, PairsOK
    <3>4. \A p \in Candidate : cand'[p] # "none" => p[1] # p[2]
      BY <2>0, <2>2, <3>3 DEF IInv, AloneInv
    <3> QED BY <1>0, <2>4, <3>1, <3>2, <3>4, OneAlone DEF IInv
  <2> QED BY <2>6, <2>7, <2>8, <2>9, <2>10, <2>11 DEF IInv, TypeInv
<1>7. CASE CandidateFails(c)
  <2>1. Back(c)
    BY <1>7 DEF CandidateFails
  <2>2. run[c].step = 1 /\ run[c].pc \in StagePCs
    BY <1>0, <1>7 DEF CandidateFails, PendingOK, StagePCs
  <2>3. /\ run' \in [Cycle -> RunRec]
        /\ run'[c].pc = "work" /\ run'[c].at = run[c].at /\ run'[c].step = run[c].step /\ run'[c].only = run[c].only
        /\ run'[c].used = run[c].used /\ run'[c].calls = run[c].calls /\ run'[c].list = run[c].list /\ run'[c].cand = None
        /\ \A d \in Cycle \ {c} : run'[d] = run[d]
    BY <1>0, <2>1, BackFacts
  <2>4. job' = job /\ UNCHANGED tables /\ UNCHANGED overlapped
    BY <1>7 DEF CandidateFails, tables
  <2>5. \A d \in Runs \ {c} : report'[d] = report[d] /\ record'[d] = record[d]
    BY <1>0, <1>7 DEF CandidateFails, TypeOK
  <2>6. \A d \in Runs \ {c} : spent'[d] = spent[d]
    BY <1>0, <1>7 DEF CandidateFails
  <2>7. TypeOK'
    BY <1>0, <1>7, <2>3, <2>4, DreamBounds DEF CandidateFails, Fault, TypeOK, tables
  <2>8. /\ PendingOK(run'[c]) /\ (c \in Runs => RunOK(run'[c]))
        /\ (c \in Flows => FlowOK(run'[c], job'[c]))
    BY <1>0, <1>7, <2>3, <2>4 DEF CandidateFails, PendingOK, RunOK, FlowOK, StagePCs, RunRec
  <2>9. /\ TraceOK(run'[c], events, into) /\ PairsOK(run'[c]) /\ (Mid(run'[c]) => Mid(run[c]))
        /\ (Merging(run'[c]) => Merging(run[c]) /\ run'[c].cand = run[c].cand)
    BY <1>0, <1>inv, <1>7, <2>3 DEF CandidateFails, TraceOK, PairsOK, Mid, Merging, StagePCs
  <2>10. c \in Runs => RecordOK(run'[c], report'[c], record'[c])
    BY <1>0, <1>inv, <1>7, <2>3 DEF CandidateFails, RecordOK, StagePCs, TypeOK
  <2>11. c \in Runs => BudgetOK(run'[c], spent'[c])
    BY <1>0, <1>inv, <1>7, <2>3, <2>2, DreamBounds DEF CandidateFails, BudgetOK, StagePCs, RunRec
  <2>12. Ordinary(c)
    BY <2>3, <2>4, <2>5, <2>6, <2>8, <2>9, <2>10, <2>11 DEF Ordinary
  <2> QED BY <1>0, <2>7, <2>12, OrdinaryStep
<1>8. CASE \E p \in Candidate : Judge(c, p)
  <2>1. PICK p \in Candidate, pc \in {"check", "reject"}, n \in {0, 1} :
          /\ Decide(c, pc, p, n) /\ Spend(c, n, 0) /\ Judge(c, p)
          /\ run[c].calls + n <= LlmLimit(c)
    BY <1>8 DEF Judge, Decide
  <2>2. pc \in PCs /\ n \in Nat
    BY DEF PCs, StagePCs
  <2>3. /\ spent' \in [Runs -> [calls: Nat, lost: Nat]]
        /\ c \in Runs => /\ spent'[c].calls = spent[c].calls + n
                         /\ spent'[c].lost = spent[c].lost + 0
        /\ \A d \in Runs \ {c} : spent'[d] = spent[d]
    BY <1>0, <2>1, <2>2, SpendType
  <2>4. run[c].step = 1 /\ run[c].pc = "work" /\ p \in run[c].list
    <3>1. run[c].pc = "work" /\ StageOf(c) = "pending" /\ p \in run[c].list
      BY <2>1 DEF Judge
    <3>2. CASE c \in Runs
      BY <1>0, <3>1, <3>2, StagesOf DEF RunOK, StagePCs
    <3>3. CASE c \in Flows
      BY <1>0, <3>1, <3>3, StagesOf DEF FlowOK, StagePCs, RunRec
    <3> QED BY <1>0, <3>1, <3>2, <3>3 DEF Cycle
  <2>5. c \in Runs => run[c].used + run[c].calls + n <= MaxLlmCalls
    <3>1. StageOf(c) = "pending"
      BY <2>1 DEF Judge
    <3>2. LlmLimit(c) = MaxLlmCalls - run[c].used
      BY <3>1 DEF LlmLimit, Budgeted
    <3> QED BY <1>0, <2>1, <3>2, DreamBounds DEF RunRec
  <2>6. p[1] # p[2]
    BY <1>inv, <2>4 DEF PairsOK
  <2>7. RunStages[run[c].step] \in Budgeted
    BY <2>4 DEF Budgeted
  <2>8. /\ run' \in [Cycle -> RunRec]
        /\ run'[c].pc = pc /\ run'[c].at = run[c].at /\ run'[c].step = run[c].step /\ run'[c].only = run[c].only
        /\ run'[c].used = run[c].used /\ run'[c].calls = run[c].calls + n /\ run'[c].list = run[c].list \ {p} /\ run'[c].cand = p
        /\ \A d \in Cycle \ {c} : run'[d] = run[d]
    BY <1>0, <2>1, <2>2, JudgeFacts
  <2>9. job' = job /\ UNCHANGED tables /\ UNCHANGED overlapped
    BY <1>8, <2>1 DEF Judge, tables
  <2>10. \A d \in Runs \ {c} : report'[d] = report[d] /\ record'[d] = record[d]
    BY <1>0, <1>8, <2>1 DEF Judge, TypeOK
  <2>11. \A d \in Runs \ {c} : spent'[d] = spent[d]
    BY <1>0, <1>8, <2>1, <2>3 DEF Judge
  <2>12. TypeOK'
    BY <1>0, <1>8, <2>1, <2>8, <2>9, <2>1, <2>3 DEF Judge, TypeOK, tables
  <2>13. /\ PendingOK(run'[c]) /\ (c \in Runs => RunOK(run'[c]))
        /\ (c \in Flows => FlowOK(run'[c], job'[c]))
    BY <1>0, <1>8, <2>1, <2>8, <2>9, <2>1, <2>4 DEF Judge, PendingOK, RunOK, FlowOK, StagePCs, RunRec
  <2>14. /\ TraceOK(run'[c], events, into) /\ PairsOK(run'[c]) /\ (Mid(run'[c]) => Mid(run[c]))
        /\ (Merging(run'[c]) => Merging(run[c]) /\ run'[c].cand = run[c].cand)
    BY <1>0, <1>inv, <1>8, <2>1, <2>8, <2>4, <2>6 DEF Judge, TraceOK, PairsOK, Mid, Merging, StagePCs
  <2>15. c \in Runs => RecordOK(run'[c], report'[c], record'[c])
    BY <1>0, <1>inv, <1>8, <2>1, <2>8 DEF Judge, RecordOK, StagePCs, TypeOK
  <2>16. c \in Runs => BudgetOK(run'[c], spent'[c])
    BY <1>0, <1>inv, <1>8, <2>1, <2>8, <2>2, <2>3, <2>4, <2>5, <2>7, DreamBounds DEF Judge, BudgetOK, StagePCs, RunRec, TypeOK
  <2>17. Ordinary(c)
    BY <2>8, <2>9, <2>10, <2>11, <2>13, <2>14, <2>15, <2>16 DEF Ordinary
  <2> QED BY <1>0, <2>12, <2>17, OrdinaryStep
<1> QED BY <1>1, <1>2, <1>3, <1>4, <1>5, <1>6, <1>7, <1>8 DEF PendingStep

LEMMA FlowStepInv ==
    ASSUME IInv, NEW c \in Flows, Enqueue(c) \/ \E i \in Instances : Take(c, i) PROVE IInv'
<1>0. /\ TypeOK /\ run[c] \in RunRec /\ job[c] \in JobRec /\ c \in Cycle /\ c \notin Runs
      /\ PendingOK(run[c]) /\ FlowOK(run[c], job[c])
      /\ TraceOK(run[c], events, into) /\ PairsOK(run[c])
  BY DreamSets DEF IInv, TypeInv, TypeOK, StandInv, TraceInv, AloneInv, Cycle
<1>1. CASE Enqueue(c)
  <2>1. UNCHANGED <<lock, report, record, run, spent, overlapped, faults>> /\ UNCHANGED tables
    BY <1>1 DEF Enqueue, tables
  <2>2. /\ job' \in [Flows -> JobRec] /\ job'[c].state = "waiting" /\ job'[c].attempts = job[c].attempts
        /\ \A f \in Flows \ {c} : job'[f] = job[f]
    BY <1>0, <1>1 DEF Enqueue, TypeOK, JobRec
  <2>3. TypeOK'
    BY <1>0, <2>1, <2>2 DEF TypeOK, tables
  <2>4. FlowOK(run[c], job'[c])
    BY <1>0, <1>1, <2>2 DEF Enqueue, FlowOK, StagePCs
  <2>5. Ordinary(c)
    BY <1>0, <2>1, <2>2, <2>4 DEF Ordinary
  <2> QED BY <1>0, <2>3, <2>5, OrdinaryStep
<1>2. CASE \E i \in Instances : Take(c, i)
  <2>1. PICK i \in Instances : Take(c, i)
    BY <1>2
  <2>2. PICK k : k = IF run[c].pc = "idle" THEN 1 ELSE run[c].step
    OBVIOUS
  <2>3. Begin(c, i, k) /\ job[c].state = "waiting"
    BY <2>1, <2>2 DEF Take, Begin
  <2>4. k \in 1..9 /\ k \in 0..11
    BY <1>0, <2>2, <2>3 DEF FlowOK, RunRec
  <2>5. /\ run' \in [Cycle -> RunRec] /\ run'[c].pc = "start" /\ run'[c].at = i /\ run'[c].step = k
        /\ run'[c].list = run[c].list /\ run'[c].cand = run[c].cand
        /\ \A d \in Cycle \ {c} : run'[d] = run[d]
    BY <1>0, <2>3, <2>4, TakeFacts
  <2>6. /\ job' \in [Flows -> JobRec] /\ job'[c].state = "active" /\ job'[c].attempts = job[c].attempts
        /\ \A f \in Flows \ {c} : job'[f] = job[f]
    BY <1>0, <2>1 DEF Take, TypeOK, JobRec
  <2>7. UNCHANGED <<lock, report, record, spent, overlapped, faults>> /\ UNCHANGED tables
    BY <2>1 DEF Take, tables
  <2>8. TypeOK'
    BY <1>0, <2>5, <2>6, <2>7 DEF TypeOK, tables
  <2>9. PendingOK(run'[c]) /\ FlowOK(run'[c], job'[c])
    BY <1>0, <2>3, <2>4, <2>5, <2>6 DEF PendingOK, FlowOK, StagePCs
  <2>10. TraceOK(run'[c], events, into) /\ PairsOK(run'[c]) /\ ~Mid(run'[c]) /\ ~Merging(run'[c])
    BY <1>0, <2>5 DEF TraceOK, PairsOK, Mid, Merging, StagePCs
  <2>11. Ordinary(c)
    BY <1>0, <2>5, <2>6, <2>7, <2>9, <2>10 DEF Ordinary
  <2> QED BY <1>0, <2>8, <2>11, OrdinaryStep
<1> QED BY <1>1, <1>2

LEMMA StutterInv ==
    ASSUME IInv, UNCHANGED <<report, record, job, run, spent, overlapped>>, UNCHANGED tables, TypeOK'
    PROVE  IInv'
<1>1. StandInv' /\ RecordInv' /\ BudgetInv'
  BY DEF IInv, TypeInv, StandInv, RecordInv, BudgetInv
<1>2. TraceInv' /\ AloneInv'
  BY DEF IInv, TraceInv, HiddenHasEvent, MergedWasMerged, AloneInv, Alone, Reachable, tables
<1> QED BY <1>1, <1>2 DEF IInv, TypeInv

LEMMA CloseInv == ASSUME IInv, NEW s \in Session, Close(s) PROVE IInv'
<1>1. UNCHANGED <<report, record, job, run, spent, overlapped>> /\ UNCHANGED tables
  BY DEF Close, tables
<1>2. TypeOK'
  BY <1>1, DreamBounds DEF Close, Fault, IInv, TypeInv, TypeOK, tables
<1> QED BY <1>1, <1>2, StutterInv

\* The record of a cycle after its instance restarted.
LEMMA RestartFacts ==
    ASSUME TypeOK, NEW i \in Instances, Restart(i), NEW c \in Cycle, run[c].at = i
    PROVE  /\ run'[c] \in RunRec
           /\ run'[c].pc = IF c \in Runs THEN "over" ELSE "next"
           /\ run'[c].at = None /\ run'[c].step = run[c].step /\ run'[c].used = run[c].used
           /\ run'[c].calls = 0 /\ run'[c].list = {} /\ run'[c].cand = None
<1>1. run[c] \in RunRec
  BY DEF TypeOK
<1>2. PICK pc : pc = IF c \in Runs THEN "over" ELSE "next"
  OBVIOUS
<1>3. pc \in PCs
  BY <1>2 DEF PCs
<1>4. PICK r : r = [run[c] EXCEPT !.pc = pc, !.at = None, !.calls = 0, !.list = {}, !.cand = None]
  OBVIOUS
<1>5. run'[c] = r
  BY <1>2, <1>4 DEF Restart
<1>6. /\ r.pc = pc /\ r.at = None /\ r.step = run[c].step /\ r.used = run[c].used
      /\ r.calls = 0 /\ r.list = {} /\ r.cand = None
  BY <1>1, <1>4 DEF RunRec
<1>7. r \in RunRec
  BY <1>1, <1>3, <1>4 DEF RunRec
<1> QED BY <1>2, <1>5, <1>6, <1>7

LEMMA RestartInv == ASSUME IInv, NEW i \in Instances, Restart(i) PROVE IInv'
<1>0. TypeOK /\ UNCHANGED <<report, record, spent, overlapped>> /\ UNCHANGED tables
  BY DEF IInv, TypeInv, Restart, tables
<1>1. \A c \in Cycle : run[c].at # i => run'[c] = run[c]
  BY DEF Restart
<1>2. \A f \in Flows : run[f].at # i => job'[f] = job[f]
  BY DEF Restart
<1>3. ASSUME NEW c \in Cycle, run[c].at = i
      PROVE  /\ run'[c] \in RunRec /\ PendingOK(run'[c]) /\ (c \in Runs => RunOK(run'[c]))
             /\ TraceOK(run'[c], events, into) /\ PairsOK(run'[c])
             /\ ~Mid(run'[c]) /\ ~Merging(run'[c])
             /\ c \in Runs => RecordOK(run'[c], report[c], record[c])
             /\ c \in Runs => BudgetOK(run'[c], spent[c])
  <2>1. /\ run'[c] \in RunRec
        /\ run'[c].pc = IF c \in Runs THEN "over" ELSE "next"
        /\ run'[c].at = None /\ run'[c].step = run[c].step /\ run'[c].used = run[c].used
        /\ run'[c].calls = 0 /\ run'[c].list = {} /\ run'[c].cand = None
    BY <1>0, <1>3, RestartFacts
  <2>2. PendingOK(run'[c]) /\ (c \in Runs => RunOK(run'[c]))
    BY <2>1 DEF PendingOK, RunOK, StagePCs
  <2>3. /\ TraceOK(run'[c], events, into) /\ PairsOK(run'[c])
        /\ ~Mid(run'[c]) /\ ~Merging(run'[c])
    BY <2>1 DEF TraceOK, PairsOK, Mid, Merging, StagePCs
  <2>4. c \in Runs => RecordOK(run'[c], report[c], record[c])
    BY <2>1 DEF RecordOK, StagePCs, IInv, RecordInv
  <2>5. c \in Runs => BudgetOK(run'[c], spent[c])
    <3>1. c \in Runs => BudgetOK(run[c], spent[c])
      BY DEF IInv, BudgetInv
    <3>2. run[c].used \in Nat /\ run[c].calls \in Nat
      BY <1>0 DEF TypeOK, RunRec
    <3> QED BY <2>1, <3>1, <3>2, DreamBounds DEF BudgetOK, StagePCs
  <2> QED BY <2>1, <2>2, <2>3, <2>4, <2>5
<1>4. ASSUME NEW f \in Flows, run[f].at = i
      PROVE  job'[f] \in JobRec /\ FlowOK(run'[f], job'[f])
  <2>0. f \in Cycle /\ f \notin Runs
    BY DreamSets DEF Cycle
  <2>1. run'[f].pc = "next" /\ run'[f].at = None /\ run'[f].step = run[f].step
    BY <1>0, <1>4, <2>0, RestartFacts
  <2>2. FlowOK(run[f], job[f]) /\ job[f] \in JobRec
    BY <1>0, <2>0 DEF IInv, TypeInv, StandInv, TypeOK
  <2>3. i # None
    BY DreamSets
  <2>4. job[f].state = "active" /\ job[f].attempts < MaxAttempts /\ run[f].step # 0
    BY <1>4, <2>2, <2>3 DEF FlowOK, StagePCs
  <2>5. PICK s : s = IF job[f].stalls = 0 THEN "waiting" ELSE "failed"
    OBVIOUS
  <2>6. PICK j : j = [job[f] EXCEPT !.state = s, !.stalls = 1]
    OBVIOUS
  <2>7. job'[f] = j
    BY <1>4, <2>5, <2>6 DEF Restart
  <2>8. j.state = s /\ j.attempts = job[f].attempts
    BY <2>2, <2>6 DEF JobRec
  <2>9. j \in JobRec
    <3>1. j = [state |-> s, attempts |-> job[f].attempts, stalls |-> 1]
      BY <2>2, <2>6 DEF JobRec
    <3>2. s \in {"waiting", "failed"} /\ job[f].attempts \in 0..MaxAttempts
      BY <2>2, <2>5 DEF JobRec
    <3> QED BY <3>1, <3>2 DEF JobRec
  <2> QED BY <2>1, <2>2, <2>4, <2>5, <2>7, <2>8, <2>9 DEF FlowOK, StagePCs
<1>5. TypeOK'
  <2>1. run' \in [Cycle -> RunRec]
    <3>1. \A c \in Cycle : run'[c] \in RunRec
      BY <1>0, <1>1, <1>3 DEF TypeOK
    <3> QED BY <3>1 DEF Restart
  <2>2. job' \in [Flows -> JobRec]
    <3>1. \A f \in Flows : job'[f] \in JobRec
      BY <1>0, <1>2, <1>4 DEF TypeOK
    <3> QED BY <3>1 DEF Restart
  <2>3. lock' \in [Session -> Nat]
    BY <1>0 DEF Restart, TypeOK
  <2>4. faults' \in 0..MaxFaults
    <3>1. faults \in 0..MaxFaults /\ faults < MaxFaults /\ faults' = faults + 1
      BY <1>0 DEF Restart, Fault, TypeOK
    <3> QED BY <3>1, DreamBounds
  <2> QED BY <1>0, <2>1, <2>2, <2>3, <2>4 DEF TypeOK, tables
<1>6. StandInv'
  <2> SUFFICES ASSUME NEW c \in Cycle
               PROVE  /\ PendingOK(run'[c])
                      /\ c \in Runs => RunOK(run'[c])
                      /\ c \in Flows => FlowOK(run'[c], job'[c])
    BY DEF StandInv
  <2>1. CASE run[c].at = i
    BY <1>3, <1>4, <2>1
  <2>2. CASE run[c].at # i
    <3>1. run'[c] = run[c] /\ (c \in Flows => job'[c] = job[c])
      BY <1>1, <1>2, <2>2
    <3> QED BY <3>1 DEF IInv, TypeInv, StandInv
  <2> QED BY <2>1, <2>2
<1>7. TraceInv'
  <2>1. \A c \in Cycle : TraceOK(run'[c], events, into)
    BY <1>1, <1>3 DEF IInv, TraceInv
  <2> QED BY <1>0, <2>1 DEF IInv, TraceInv, HiddenHasEvent, MergedWasMerged, tables
<1>8. RecordInv' /\ BudgetInv'
  <2>1. \A c \in Runs : RecordOK(run'[c], report[c], record[c]) /\ BudgetOK(run'[c], spent[c])
    BY <1>1, <1>3 DEF IInv, RecordInv, BudgetInv, Cycle
  <2> QED BY <1>0, <2>1 DEF RecordInv, BudgetInv
<1>9. AloneInv'
  <2>1. \A c \in Cycle : PairsOK(run'[c])
    BY <1>1, <1>3 DEF IInv, AloneInv
  <2>2. \A c \in Cycle : Mid(run'[c]) => Mid(run[c])
    BY <1>1, <1>3
  <2>3. \A c \in Cycle : Merging(run'[c]) => Merging(run[c]) /\ run'[c].cand = run[c].cand
    BY <1>1, <1>3
  <2>4. into' = into /\ cand' = cand /\ overlapped' = overlapped
    BY <1>0 DEF tables
  <2>5. ASSUME overlapped' = FALSE PROVE Alone' /\ Reachable'
    <3>1. Alone /\ Reachable
      BY <2>4, <2>5 DEF IInv, AloneInv
    <3>2. Alone'
      BY <2>2, <2>3, <2>4, <3>1 DEF Alone
    <3> QED BY <2>4, <3>1, <3>2 DEF Reachable
  <2> QED BY <2>1, <2>4, <2>5 DEF AloneInv, IInv
<1> QED BY <1>5, <1>6, <1>7, <1>8, <1>9 DEF IInv, TypeInv

LEMMA NextIInv == IInv /\ [Next]_vars => IInv'
<1> SUFFICES ASSUME IInv, [Next]_vars PROVE IInv'
  OBVIOUS
<1>1. CASE UNCHANGED vars
  <2>1. TypeOK'
    BY <1>1 DEF vars, tables, IInv, TypeInv, TypeOK
  <2>2. UNCHANGED <<report, record, job, run, spent, overlapped>> /\ UNCHANGED tables
    BY <1>1 DEF vars, tables
  <2> QED BY <2>1, <2>2, StutterInv
<1>2. ASSUME NEW c \in Runs, RunStep(c) PROVE IInv'
  BY <1>2, RunStepInv
<1>3. ASSUME NEW f \in Flows, Enqueue(f) \/ \E i \in Instances : Take(f, i) PROVE IInv'
  BY <1>3, FlowStepInv
<1>4. ASSUME NEW c \in Cycle, StageStep(c) PROVE IInv'
  BY <1>4, StageStepInv
<1>5. ASSUME NEW c \in Cycle, PendingStep(c) PROVE IInv'
  BY <1>5, PendingStepInv
<1>6. ASSUME NEW s \in Session, Close(s) PROVE IInv'
  BY <1>6, CloseInv
<1>7. ASSUME NEW i \in Instances, Restart(i) PROVE IInv'
  BY <1>7, RestartInv
<1> QED BY <1>1, <1>2, <1>3, <1>4, <1>5, <1>6, <1>7 DEF Next

LEMMA IInvImplies ==
    IInv => /\ TypeOK /\ HiddenHasEvent /\ MergedWasMerged
            /\ CompletedHasEnded /\ BudgetOfRun /\ MergedIsReachable
<1> SUFFICES ASSUME IInv
             PROVE  /\ TypeOK /\ HiddenHasEvent /\ MergedWasMerged
                    /\ CompletedHasEnded /\ BudgetOfRun /\ MergedIsReachable
  OBVIOUS
<1>1. TypeOK /\ HiddenHasEvent /\ MergedWasMerged
  BY DEF IInv, TypeInv, TraceInv
<1>2. CompletedHasEnded
  BY DEF IInv, RecordInv, RecordOK, CompletedHasEnded
<1>3. BudgetOfRun
  BY DEF IInv, BudgetInv, BudgetOK, BudgetOfRun
<1>4. MergedIsReachable
  <2>1. CASE overlapped
    BY <2>1 DEF MergedIsReachable
  <2>2. CASE ~overlapped
    <3>1. overlapped = FALSE
      BY <2>2, <1>1 DEF TypeOK
    <3> QED BY <3>1 DEF IInv, AloneInv, Reachable, MergedIsReachable
  <2> QED BY <2>1, <2>2
<1> QED BY <1>1, <1>2, <1>3, <1>4

\* Every variable keeps its type.
THEOREM DreamTypeCorrect == Spec => []TypeOK
BY InitIInv, NextIInv, IInvImplies, PTL DEF Spec

\* A row the pending stage hid is in the event log, with what it was merged into:
\* performMerge writes the event first, and no failure or restart undoes either.
THEOREM DreamHiddenHasEvent == Spec => []HiddenHasEvent
BY InitIInv, NextIInv, IInvImplies, PTL DEF Spec

\* A candidate reads MERGED only when its merge was recorded and its row hidden.
THEOREM DreamMergedWasMerged == Spec => []MergedWasMerged
BY InitIInv, NextIInv, IInvImplies, PTL DEF Spec

\* A COMPLETED report has no stage that is still recorded as started.
THEOREM DreamCompletedHasEnded == Spec => []CompletedHasEnded
BY InitIInv, NextIInv, IInvImplies, PTL DEF Spec

\* What a run can spend beyond its budget is what the code does not charge it with.
THEOREM DreamBudgetOfRun == Spec => []BudgetOfRun
BY InitIInv, NextIInv, IInvImplies, PTL DEF Spec

\* While no two pending stages were at work at once, no ring of hidden memories forms.
THEOREM DreamMergedIsReachable == Spec => []MergedIsReachable
BY InitIInv, NextIInv, IInvImplies, PTL DEF Spec

=============================================================================
