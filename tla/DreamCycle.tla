----------------------------- MODULE DreamCycle ------------------------------
(***************************************************************************)
(* The nightly consolidation.  DreamCycleService runs its stages one after *)
(* another under an advisory lock of Postgres and writes a report; when    *)
(* Redis is there, DreamCycleQueueProducer queues the stages as a chain of *)
(* BullMQ jobs instead, which DreamCycleQueueProcessor runs without lock   *)
(* or report.  Both keep a record per stage and an LLM budget per run.     *)
(*                                                                         *)
(* The pending stage is modelled call by call, since it merges memories;   *)
(* of the others what remains is the record, the LLM calls and failure.    *)
(* Dry runs are left out, and so are the users a run without a user        *)
(* iterates over: each is a run of its own without a lock of its own.      *)
(***************************************************************************)
EXTENDS Integers, Sequences

CONSTANTS
    Runs,               \* sequential runs: POST dream-cycle, or the cron without Redis
    Flows,              \* queued runs: the cron, or POST dream-cycle/async
    Instances,          \* processes of the API
    Connections,        \* connections of an instance's pool
    Memory,             \* memories of the user
    None,               \* no memory, no candidate
    Selections,         \* what options.stages of a request may hold
    MaxLlmCalls,        \* DREAM_MAX_LLM_CALLS (50)
    MaxConsolidations,  \* DREAM_MAX_CONSOLIDATIONS (10)
    MaxAttempts,        \* attempts of a stage job (3)
    MaxFaults           \* bound: failed calls, closed connections and restarts

Cycle == Runs \cup Flows
Session == Instances \X Connections
Candidate == Memory \X Memory       \* the suggested survivor and the other memory

RunStages == <<"pending", "tiering", "consolidation", "timeline", "patterns", "clustering",
               "drift", "trust", "identity", "importance-rescore", "archival">>
FlowStages == <<"pending", "tiering", "consolidation", "patterns", "clustering",
                "drift", "identity", "archival", "report">>
Stage == {RunStages[i] : i \in DOMAIN RunStages} \cup {"report"}
Budgeted == {"pending", "timeline", "patterns", "identity"}

ASSUME DreamBounds ==
    /\ MaxLlmCalls \in Nat /\ MaxConsolidations \in Nat /\ MaxFaults \in Nat
    /\ MaxAttempts \in Nat \ {0}
ASSUME DreamSets ==
    /\ Runs \cap Flows = {} /\ None \notin Memory \cup Candidate \cup Instances
    /\ Selections \subseteq SUBSET Stage

VARIABLES
    lock,       \* Postgres: how often each session holds the advisory lock
    report,     \* Postgres: status of a run's dream_cycle_reports row
    record,     \* Postgres: the last dream_cycle_stage_runs row of each stage
    into,       \* Postgres: consolidatedInto of a memory that was merged, and deleted
    cand,       \* Postgres: status of the merge candidates
    events,     \* Postgres: the pairs memory_merge_events tells of
    job,        \* Redis: attempts and stalls of a flow's current stage job
    run,        \* heap: where a run or a stage job stands
    spent,      \* history: LLM calls of each run, and those the code lost count of
    overlapped, \* history: two pending stages were at work at once
    faults

vars == <<lock, report, record, into, cand, events, job, run, spent, overlapped, faults>>
tables == <<into, cand, events>>

StagePCs == {"start", "list", "work", "check", "event", "hide", "status", "reject",
             "complete", "error"}
PCs == StagePCs \cup {"idle", "report", "next", "finish", "catch", "release", "over"}
RunRec == [pc: PCs, at: Instances \cup {None}, step: 0..Len(RunStages), only: SUBSET Stage,
           used: Nat, calls: Nat, list: SUBSET Candidate, cand: Candidate \cup {None}]
JobRec == [state: {"none", "waiting", "active", "done", "failed"}, attempts: 0..MaxAttempts,
           stalls: 0..1]

Idle == [pc |-> "idle", at |-> None, step |-> 0, only |-> {}, used |-> 0, calls |-> 0,
         list |-> {}, cand |-> None]

Init ==
    /\ lock = [s \in Session |-> 0]
    /\ report = [c \in Runs |-> "none"]
    /\ record = [c \in Cycle |-> [s \in Stage |-> "none"]]
    /\ into = [m \in Memory |-> None]
    /\ cand \in [Candidate -> {"none", "PENDING"}]
    /\ \A p \in Candidate : p[1] = p[2] => cand[p] = "none"
    /\ events = {}
    /\ job = [f \in Flows |-> [state |-> "none", attempts |-> 0, stalls |-> 0]]
    /\ run = [c \in Cycle |-> Idle]
    /\ spent = [c \in Runs |-> [calls |-> 0, lost |-> 0]]
    /\ overlapped = FALSE
    /\ faults = 0

Fault == faults < MaxFaults /\ faults' = faults + 1

Stages(c) == IF c \in Runs THEN RunStages ELSE FlowStages
StageOf(c) == Stages(c)[run[c].step]
Go(c, pc) == run' = [run EXCEPT ![c].pc = pc]
\* n more LLM calls, and k of a run's calls that its budget will not be charged with.
Spend(c, n, k) ==
    spent' = IF c \in Runs
             THEN [spent EXCEPT ![c] = [calls |-> spent[c].calls + n, lost |-> spent[c].lost + k]]
             ELSE spent

InPending(c) == run[c].step = 1 /\ run[c].pc \in StagePCs

-----------------------------------------------------------------------------
(* DreamCycleService.run                                                   *)

\* pg_try_advisory_lock is granted to the session that holds the lock, too.
\* A run that is not granted the lock is skipped.
Acquire(c, s) ==
    /\ run[c].pc = "idle"
    /\ \A t \in Session \ {s} : lock[t] = 0
    /\ lock' = [lock EXCEPT ![s] = @ + 1]
    /\ \E only \in Selections :
          run' = [run EXCEPT ![c] = [Idle EXCEPT !.pc = "report", !.at = s[1], !.only = only]]
    /\ UNCHANGED <<report, record, tables, job, spent, overlapped, faults>>

\* The report's row, and with it one of consolidation_jobs; when the second of the two
\* fails, nobody closes the first.
OpenReport(c) ==
    /\ run[c].pc = "report"
    /\ report' = [report EXCEPT ![c] = "RUNNING"]
    /\ Go(c, "next")
    /\ UNCHANGED <<lock, record, tables, job, spent, overlapped, faults>>

OpenReportFails(c) ==
    /\ run[c].pc = "report"
    /\ report' = report \/ report' = [report EXCEPT ![c] = "RUNNING"]
    /\ Go(c, "release")
    /\ Fault
    /\ UNCHANGED <<lock, record, tables, job, spent, overlapped>>

\* Cold consolidation goes with tiering, the trust profiles are always computed; a
\* stage with a budget is skipped once it is used up.
Selected(c, s) ==
    /\ s = "trust" \/ s \in run[c].only \/ (s = "consolidation" /\ "tiering" \in run[c].only)
    /\ s \in Budgeted => run[c].used < MaxLlmCalls

NextStage(c) ==
    /\ run[c].pc = "next"
    /\ LET left == {i \in run[c].step + 1 .. Len(RunStages) : Selected(c, RunStages[i])}
       IN  IF left = {} THEN Go(c, "finish")
           ELSE \E i \in left :
                  /\ \A j \in left : i <= j
                  /\ run' = [run EXCEPT ![c] = [@ EXCEPT !.pc = "start", !.step = i]]
    /\ UNCHANGED <<lock, report, record, tables, job, spent, overlapped, faults>>

Finish(c) ==
    /\ run[c].pc = "finish"
    /\ report' = [report EXCEPT ![c] = "COMPLETED"]
    /\ Go(c, "release")
    /\ UNCHANGED <<lock, record, tables, job, spent, overlapped, faults>>

\* The update of the report fails, or the one of the consolidation_jobs row after it.
FinishFails(c) ==
    /\ run[c].pc = "finish"
    /\ report' = report \/ report' = [report EXCEPT ![c] = "COMPLETED"]
    /\ Go(c, "catch")
    /\ Fault
    /\ UNCHANGED <<lock, record, tables, job, spent, overlapped>>

\* The outer catch block; when its update fails the report stays RUNNING.
Catch(c) ==
    /\ run[c].pc = "catch"
    /\ \/ report' = [report EXCEPT ![c] = "FAILED"] /\ UNCHANGED faults
       \/ UNCHANGED report /\ Fault
    /\ Go(c, "release")
    /\ UNCHANGED <<lock, record, tables, job, spent, overlapped>>

\* Variant: every release counts, whoever holds the lock.
ReleaseAnyway(c, s) ==
    /\ run[c].pc = "release" /\ s[1] = run[c].at
    /\ lock' = [lock EXCEPT ![s] = @ - 1]
    /\ Go(c, "over")
    /\ UNCHANGED <<report, record, tables, job, spent, overlapped, faults>>

\* pg_advisory_unlock runs on a connection of the pool, not on the one that locked;
\* on another session it does nothing.
Release(c, s) ==
    /\ run[c].pc = "release" /\ s[1] = run[c].at
    /\ lock' = [lock EXCEPT ![s] = IF @ > 0 THEN @ - 1 ELSE 0]
    /\ Go(c, "over")
    /\ UNCHANGED <<report, record, tables, job, spent, overlapped, faults>>

\* The pool closes idle connections, and Postgres frees the locks of a closed session.
Close(s) ==
    /\ lock[s] > 0
    /\ lock' = [lock EXCEPT ![s] = 0]
    /\ Fault
    /\ UNCHANGED <<report, record, tables, job, run, spent, overlapped>>

-----------------------------------------------------------------------------
(* DreamCycleQueueProducer and DreamCycleQueueProcessor                    *)

Enqueue(f) ==
    /\ job[f].state = "none"
    /\ job' = [job EXCEPT ![f].state = "waiting"]
    /\ UNCHANGED <<lock, report, record, tables, run, spent, overlapped, faults>>

\* The worker of an instance runs one stage job at a time.
Take(f, i) ==
    /\ job[f].state = "waiting"
    /\ \A g \in Flows : run[g].at # i
    /\ job' = [job EXCEPT ![f].state = "active"]
    /\ run' = [run EXCEPT ![f] = [@ EXCEPT !.pc = "start", !.at = i,
                 !.step = IF run[f].pc = "idle" THEN 1 ELSE run[f].step]]
    /\ UNCHANGED <<lock, report, record, tables, spent, overlapped, faults>>

-----------------------------------------------------------------------------
(* A stage, in a run or as a job                                           *)

\* Variant: the cold consolidation may spend the whole budget.
LlmLimitWhole(c) ==
    CASE StageOf(c) \in Budgeted -> MaxLlmCalls - run[c].used
      [] StageOf(c) = "consolidation" -> MaxLlmCalls
      [] OTHER -> 0

\* What a stage may spend.  The cursor of a job never holds what earlier jobs used.
LlmLimit(c) ==
    CASE StageOf(c) \in Budgeted -> MaxLlmCalls - run[c].used
      [] StageOf(c) = "consolidation" -> MaxConsolidations
      [] OTHER -> 0

\* The identity stage of a sequential run keeps no record.
Recorded(c) == c \in Flows \/ StageOf(c) # "identity"
WriteRecord(c, status) ==
    record' = IF Recorded(c) THEN [record EXCEPT ![c][StageOf(c)] = status] ELSE record

\* Where a throw leads that the stage's own catch block does not handle: out of the
\* run, or to the next attempt of the job, of which there are MaxAttempts.
Throw(c) ==
    IF c \in Runs THEN Go(c, "catch") /\ UNCHANGED job
    ELSE /\ run' = [run EXCEPT ![c] = [@ EXCEPT !.pc = "next", !.at = None, !.calls = 0,
                                                !.list = {}, !.cand = None]]
         /\ job' = [job EXCEPT ![c] = [@ EXCEPT !.attempts = job[c].attempts + 1,
                      !.state = IF job[c].attempts + 1 < MaxAttempts THEN "waiting" ELSE "failed"]]

StartStage(c) ==
    /\ run[c].pc = "start"
    /\ WriteRecord(c, "STARTED")
    /\ Go(c, IF StageOf(c) = "pending" THEN "list" ELSE "work")
    /\ overlapped' = (overlapped \/ (run[c].step = 1 /\ \E d \in Cycle \ {c} : InPending(d)))
    /\ UNCHANGED <<lock, report, tables, job, spent, faults>>

StartFails(c) ==
    /\ run[c].pc = "start" /\ Recorded(c)
    /\ Throw(c)
    /\ Fault
    /\ UNCHANGED <<lock, report, record, tables, spent, overlapped>>

Work(c) ==
    /\ run[c].pc = "work" /\ StageOf(c) # "pending"
    /\ \E n \in 0..LlmLimit(c) :
          /\ run' = [run EXCEPT ![c] = [@ EXCEPT !.pc = "complete", !.calls = n]]
          /\ Spend(c, n, 0)
    /\ UNCHANGED <<lock, report, record, tables, job, overlapped, faults>>

\* A call that fails, or whose answer cannot be used, is caught and not counted.
LlmFails(c) ==
    /\ run[c].pc = "work" /\ StageOf(c) # "pending" /\ LlmLimit(c) > 0
    /\ Spend(c, 1, 1)
    /\ Fault
    /\ UNCHANGED <<lock, report, record, tables, job, run, overlapped>>

\* The stage throws, after any of its calls; the pending stage only before the first.
StageFails(c) ==
    /\ \/ run[c].pc = "list" /\ UNCHANGED spent
       \/ /\ run[c].pc = "work" /\ StageOf(c) # "pending"
          /\ \E n \in 0..LlmLimit(c) : Spend(c, n, n)
    /\ Go(c, "error")
    /\ Fault
    /\ UNCHANGED <<lock, report, record, tables, job, overlapped>>

\* Variant: an error while the record is completed is only logged.
CompleteFailsSilently(c) ==
    /\ run[c].pc = "complete" /\ Recorded(c)
    /\ Spend(c, 0, run[c].calls)
    /\ run' = [run EXCEPT ![c] = [@ EXCEPT !.pc = IF c \in Runs THEN "next" ELSE "error", !.calls = 0]]
    /\ Fault
    /\ UNCHANGED <<lock, report, record, tables, job, overlapped>>

\* completeStage precedes the addition to llmCallsUsed, so its failure loses the count.
CompleteFails(c) ==
    /\ run[c].pc = "complete" /\ Recorded(c)
    /\ Spend(c, 0, run[c].calls)
    /\ run' = [run EXCEPT ![c] = [@ EXCEPT !.pc = "error", !.calls = 0]]
    /\ Fault
    /\ UNCHANGED <<lock, report, record, tables, job, overlapped>>

Complete(c) ==
    /\ run[c].pc = "complete"
    /\ WriteRecord(c, "COMPLETED")
    /\ IF c \in Runs
       THEN /\ run' = [run EXCEPT ![c] = [@ EXCEPT !.pc = "next", !.calls = 0,
                                                   !.used = run[c].used + run[c].calls]]
            /\ UNCHANGED job
       ELSE LET last == run[c].step = Len(FlowStages)
            IN  /\ run' = [run EXCEPT ![c] = [@ EXCEPT !.pc = IF last THEN "over" ELSE "next",
                             !.at = None, !.calls = 0,
                             !.step = IF last THEN run[c].step ELSE run[c].step + 1]]
                /\ job' = [job EXCEPT ![c] = [state |-> IF last THEN "done" ELSE "waiting",
                                              attempts |-> 0, stalls |-> 0]]
    /\ UNCHANGED <<lock, report, tables, spent, overlapped, faults>>

\* errorStage, or abortStage for a failed sanity gate; a run goes on with the next stage,
\* a job is thrown back to the queue.
Error(c) ==
    /\ run[c].pc = "error"
    /\ WriteRecord(c, "ERROR")
    /\ IF c \in Runs
       THEN /\ run' = [run EXCEPT ![c] = [@ EXCEPT !.pc = "next", !.calls = 0, !.list = {},
                                                   !.cand = None]]
            /\ UNCHANGED job
       ELSE Throw(c)
    /\ UNCHANGED <<lock, report, tables, spent, overlapped, faults>>

\* The outage that failed the stage may fail this write as well.
ErrorFails(c) ==
    /\ run[c].pc = "error" /\ Recorded(c)
    /\ Throw(c)
    /\ UNCHANGED <<lock, report, record, tables, spent, overlapped, faults>>

-----------------------------------------------------------------------------
(* DreamCyclePendingStage                                                  *)

ListPending(c) ==
    /\ run[c].pc = "list"
    /\ run' = [run EXCEPT ![c] = [@ EXCEPT !.pc = "work",
                 !.list = {p \in Candidate : cand[p] = "PENDING"}]]
    /\ UNCHANGED <<lock, report, record, tables, job, spent, overlapped, faults>>

\* The similarity decides, or for the middle band the model, while there is budget.
Judge(c, p) ==
    /\ run[c].pc = "work" /\ StageOf(c) = "pending" /\ p \in run[c].list
    /\ \E pc \in {"check", "reject"}, n \in {0, 1} :
          /\ run[c].calls + n <= LlmLimit(c)
          /\ run' = [run EXCEPT ![c] = [@ EXCEPT !.pc = pc, !.cand = p, !.list = run[c].list \ {p},
                                                 !.calls = run[c].calls + n]]
          /\ Spend(c, n, 0)
    /\ UNCHANGED <<lock, report, record, tables, job, overlapped, faults>>

\* The list is done, or the budget is and a candidate needs the model.
EndOfPending(c) ==
    /\ run[c].pc = "work" /\ StageOf(c) = "pending"
    /\ run[c].list = {} \/ run[c].calls >= LlmLimit(c)
    /\ run' = [run EXCEPT ![c] = [@ EXCEPT !.pc = "complete", !.list = {}]]
    /\ UNCHANGED <<lock, report, record, tables, job, spent, overlapped, faults>>

Back(c) == run' = [run EXCEPT ![c] = [@ EXCEPT !.pc = "work", !.cand = None]]

\* Variant: performMerge reads the rows without asking for deletedAt.
CheckMergeBlindly(c) ==
    /\ run[c].pc = "check"
    /\ Go(c, "event")
    /\ UNCHANGED <<lock, report, record, tables, job, spent, overlapped, faults>>

\* Variant: a merge whose rows are gone is taken for done.
CheckMergeLeniently(c) ==
    /\ run[c].pc = "check"
    /\ LET p == run[c].cand
       IN  IF into[p[1]] = None /\ into[p[2]] = None THEN Go(c, "event") ELSE Go(c, "status")
    /\ UNCHANGED <<lock, report, record, tables, job, spent, overlapped, faults>>

\* performMerge reads the rows and throws unless all of them are live; the candidate
\* then stays PENDING.
CheckMerge(c) ==
    /\ run[c].pc = "check"
    /\ LET p == run[c].cand
       IN  IF into[p[1]] = None /\ into[p[2]] = None THEN Go(c, "event") ELSE Back(c)
    /\ UNCHANGED <<lock, report, record, tables, job, spent, overlapped, faults>>

RecordMerge(c) ==
    /\ run[c].pc = "event"
    /\ events' = events \cup {run[c].cand}
    /\ Go(c, "hide")
    /\ UNCHANGED <<lock, report, record, into, cand, job, spent, overlapped, faults>>

\* Variant: the row is hidden before the event is written.
HideAbsorbedFirst(c) ==
    /\ run[c].pc \in {"event", "hide"}
    /\ into' = [into EXCEPT ![run[c].cand[2]] = run[c].cand[1]]
    /\ IF run[c].pc = "event" THEN UNCHANGED run ELSE Go(c, "status")
    /\ UNCHANGED <<lock, report, record, cand, events, job, spent, overlapped, faults>>

HideAbsorbed(c) ==
    /\ run[c].pc = "hide"
    /\ into' = [into EXCEPT ![run[c].cand[2]] = run[c].cand[1]]
    /\ Go(c, "status")
    /\ UNCHANGED <<lock, report, record, cand, events, job, spent, overlapped, faults>>

\* updateCandidateStatus, for a merge or a rejection.
WriteStatus(c) ==
    /\ run[c].pc \in {"status", "reject"}
    /\ cand' = [cand EXCEPT ![run[c].cand] = IF run[c].pc = "status" THEN "MERGED" ELSE "REJECTED"]
    /\ Back(c)
    /\ UNCHANGED <<lock, report, record, into, events, job, spent, overlapped, faults>>

\* A failed call is caught for its candidate, and the stage goes on.
CandidateFails(c) ==
    /\ run[c].pc \in {"check", "event", "hide", "status", "reject"}
    /\ Back(c)
    /\ Fault
    /\ UNCHANGED <<lock, report, record, tables, job, spent, overlapped>>

-----------------------------------------------------------------------------
\* An instance restarts: its runs are over, its sessions closed, and BullMQ finds
\* its job stalled: it is delivered once more, and given up the second time.
Restart(i) ==
    /\ Fault
    /\ lock' = [s \in Session |-> IF s[1] = i THEN 0 ELSE lock[s]]
    /\ run' = [c \in Cycle |->
                 IF run[c].at # i THEN run[c]
                 ELSE [run[c] EXCEPT !.pc = IF c \in Runs THEN "over" ELSE "next", !.at = None,
                                     !.calls = 0, !.list = {}, !.cand = None]]
    /\ job' = [f \in Flows |->
                 IF run[f].at # i THEN job[f]
                 ELSE [job[f] EXCEPT !.state = IF job[f].stalls = 0 THEN "waiting" ELSE "failed",
                                     !.stalls = 1]]
    /\ UNCHANGED <<report, record, tables, spent, overlapped>>

RunStep(c) ==
    \/ OpenReport(c) \/ OpenReportFails(c) \/ NextStage(c) \/ Finish(c) \/ FinishFails(c) \/ Catch(c)
    \/ \E s \in Session : Acquire(c, s) \/ Release(c, s)

StageStep(c) ==
    \/ StartStage(c) \/ StartFails(c) \/ Work(c) \/ LlmFails(c) \/ StageFails(c)
    \/ Complete(c) \/ CompleteFails(c) \/ Error(c) \/ ErrorFails(c)

PendingStep(c) ==
    \/ ListPending(c) \/ EndOfPending(c) \/ CheckMerge(c) \/ RecordMerge(c) \/ HideAbsorbed(c)
    \/ WriteStatus(c) \/ CandidateFails(c)
    \/ \E p \in Candidate : Judge(c, p)

Next ==
    \/ \E c \in Runs : RunStep(c)
    \/ \E f \in Flows : Enqueue(f) \/ \E i \in Instances : Take(f, i)
    \/ \E c \in Cycle : StageStep(c) \/ PendingStep(c)
    \/ \E s \in Session : Close(s)
    \/ \E i \in Instances : Restart(i)

Spec == Init /\ [][Next]_vars

-----------------------------------------------------------------------------
(* Properties                                                              *)

\* Every variable stays in its type.
TypeOK ==
    /\ lock \in [Session -> Nat]
    /\ report \in [Runs -> {"none", "RUNNING", "COMPLETED", "FAILED"}]
    /\ record \in [Cycle -> [Stage -> {"none", "STARTED", "COMPLETED", "ERROR"}]]
    /\ into \in [Memory -> Memory \cup {None}]
    /\ cand \in [Candidate -> {"none", "PENDING", "MERGED", "REJECTED"}]
    /\ events \in SUBSET Candidate
    /\ job \in [Flows -> JobRec]
    /\ run \in [Cycle -> RunRec]
    /\ spent \in [Runs -> [calls: Nat, lost: Nat]]
    /\ overlapped \in BOOLEAN
    /\ faults \in 0..MaxFaults

\* A report reads COMPLETED only when no stage of its run is still recorded as
\* started, whichever stages failed and whichever records could not be written.
CompletedHasEnded ==
    \A c \in Runs : report[c] = "COMPLETED" => \A s \in Stage : record[c][s] # "STARTED"

\* What the pending stage hid can be traced: a merge event names the row and what it
\* was merged into, however many cycles overlap and wherever they crash.
HiddenHasEvent == \A m \in Memory : into[m] # None => <<into[m], m>> \in events

\* A candidate reads MERGED only if its event is there and its other memory is hidden.
MergedWasMerged ==
    \A p \in Candidate : cand[p] = "MERGED" => p \in events /\ into[p[2]] # None

\* A sequential run spends its budget once, plus the cold consolidation, which asks
\* for none of it, plus the calls that failed or whose stage could not be recorded.
BudgetOfRun ==
    \A c \in Runs : spent[c].calls <= MaxLlmCalls + MaxConsolidations + spent[c].lost

\* As long as no two pending stages were at work at once, memories are never hidden
\* behind each other: every chain of merged memories ends in a live one.
MergedIsReachable ==
    overlapped \/ \A M \in SUBSET Memory :
        (M # {} /\ \A m \in M : into[m] # None) => \E m \in M : into[m] \notin M
=============================================================================
