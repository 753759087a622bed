----------------------------- MODULE MemoryMerge -----------------------------
(***************************************************************************)
(* Merging of duplicate memories: MergeService chooses the survivor,       *)
(* LineageService records the merge event and hides the absorbed rows, and *)
(* can roll the event back; ReviewService keeps the candidates people      *)
(* decide on; DedupQueueProcessor drains the pending ones every night.     *)
(*                                                                         *)
(* None of this is one transaction for the nightly job, and a request that *)
(* has one still reads before it locks, so every step below is the code    *)
(* between two awaits.  Restarts lose "act" and nothing else.  Vectors are *)
(* left out: they are rewritten on a best effort after the rows; so are     *)
(* deletions by the owner, since only the scan below reads deletedAt.      *)
(***************************************************************************)
EXTENDS Naturals, FiniteSets

CONSTANTS
    MaxMemories,    \* memories of one user
    Custom,         \* texts a reviewer may write in place of the survivor's
    Grades,         \* what safety and similarity say of a candidate
    Reviewers,      \* concurrent requests
    Drainers,       \* slots of the dedup-pipeline worker (1)
    BatchSize,      \* candidates one nightly batch reads (50)
    MaxCandidates,  \* bound: candidates ever queued
    MaxEvents,      \* bound: merge events ever recorded
    MaxByHand,      \* bound: people start merging while fewer events exist
    MaxFaults       \* bound: failed database calls and restarts of the process

Memory == 1..MaxMemories
Candidate == 1..MaxCandidates       \* in the order of similarity, highest first
Event == 1..MaxEvents               \* in the order of created_at
None == 0
Text == Memory \cup Custom          \* the first text of memory m is m
NoText == 0
Actors == Reviewers \cup Drainers

ASSUME MergeBounds ==
    /\ MaxMemories \in Nat /\ MaxCandidates \in Nat /\ MaxEvents \in Nat
    /\ MaxByHand \in Nat /\ MaxFaults \in Nat
    /\ BatchSize \in Nat \ {0}
ASSUME MergeTexts == NoText \notin Custom
ASSUME MergeActors == Reviewers \cap Drainers = {}
ASSUME MergeGrades == Grades \subseteq {"protected", "low", "medium", "high", "top"}

VARIABLES
    mem,       \* Postgres: the memories
    event,     \* Postgres: memory_merge_events, "none" until recorded
    cand,      \* Postgres: merge_candidates, "none" until queued
    act,       \* heap: what each request and worker slot is doing
    hiddenBy,  \* history: the event whose merge hid a memory last
    early,     \* history: events rolled back while their merge was under way
    faults     \* faults met so far

vars == <<mem, event, cand, act, hiddenBy, early, faults>>

Row == [into: Memory \cup {None}, text: Text]
EventRow == [state: {"none", "done", "undone"}, survivor: Memory \cup {None},
             originals: [Memory -> Text \cup {NoText}], merged: Text \cup {NoText},
             changed: BOOLEAN]
CandidateRow == [status: {"none", "PENDING", "APPROVED", "REJECTED", "SKIPPED"},
                 ids: SUBSET Memory, survivor: Memory \cup {None},
                 grade: Grades \cup {"none"}, failed: BOOLEAN]
PCs == {"idle", "read", "originals", "record", "survivor", "absorb", "decide", "giveup", "next",
        "reject", "queue", "restore", "premerge", "revert", "undo"}
Act == [pc: PCs, phase: {"request", "batch", "backlog", "expire"}, list: SUBSET Candidate,
        cand: Candidate \cup {None}, ids: SUBSET Memory, survivor: Memory \cup {None},
        merged: Text \cup {NoText}, changed: BOOLEAN,
        originals: [Memory -> Text \cup {NoText}], event: Event \cup {None}, todo: SUBSET Memory]

NoTexts == [m \in Memory |-> NoText]
NoEvent == [state |-> "none", survivor |-> None, originals |-> NoTexts, merged |-> NoText,
            changed |-> FALSE]
NoCandidate == [status |-> "none", ids |-> {}, survivor |-> None, grade |-> "none",
                failed |-> FALSE]
Idle == [pc |-> "idle", phase |-> "request", list |-> {}, cand |-> None, ids |-> {},
         survivor |-> None, merged |-> NoText, changed |-> FALSE, originals |-> NoTexts,
         event |-> None, todo |-> {}]

Init ==
    /\ mem = [m \in Memory |-> [into |-> None, text |-> m]]
    /\ event = [e \in Event |-> NoEvent]
    /\ cand = [c \in Candidate |-> NoCandidate]
    /\ act = [a \in Actors |-> Idle]
    /\ hiddenBy = [m \in Memory |-> None]
    /\ early = {}
    /\ faults = 0

Absorbed(e) == {m \in Memory : event[e].originals[m] # NoText}
Recorded == {e \in Event : event[e].state # "none"}
Pending == {c \in Candidate : cand[c].status = "PENDING"}

Fault == faults < MaxFaults /\ faults' = faults + 1

\* Where an actor goes when it is through with a candidate or a merge.
Rest(a) == IF act[a].phase = "request" THEN Idle
           ELSE [Idle EXCEPT !.pc = "next", !.phase = act[a].phase, !.list = act[a].list]

AfterMerge(a) == IF act[a].cand = None THEN Rest(a)
                 ELSE [Rest(a) EXCEPT !.pc = "decide", !.cand = act[a].cand]

-----------------------------------------------------------------------------
(* MergeService.merge and LineageService.recordMerge                       *)

\* x starts to merge the memories ids into s, with custom text t if there is one.
Merging(x, c, ids, s, t) ==
    [x EXCEPT !.pc = "read", !.cand = c, !.ids = ids, !.survivor = s, !.merged = t,
              !.changed = (t # NoText)]

\* POST merge, or a cluster of the batch scan: any survivor a strategy may choose.
ManualMerge(a, ids, s) ==
    /\ act[a].pc = "idle" /\ Cardinality(Recorded) < MaxByHand
    /\ Cardinality(ids) >= 2
    /\ \E t \in Custom \cup {NoText} : act' = [act EXCEPT ![a] = Merging(Idle, None, ids, s, t)]
    /\ UNCHANGED <<mem, event, cand, hiddenBy, early, faults>>

\* Variant: the content is the request's custom text, present or not.
ReadMemoriesBlank(a) ==
    /\ act[a].pc = "read"
    /\ act' = [act EXCEPT ![a].pc = "originals"]
    /\ UNCHANGED <<mem, event, cand, hiddenBy, early, faults>>

\* merge reads the rows, deleted or not; without a custom text it keeps the survivor's.
ReadMemories(a) ==
    /\ act[a].pc = "read"
    /\ act' = [act EXCEPT ![a] = [@ EXCEPT !.pc = "originals",
                 !.merged = IF act[a].changed THEN act[a].merged ELSE mem[act[a].survivor].text]]
    /\ UNCHANGED <<mem, event, cand, hiddenBy, early, faults>>

ReadOriginals(a) ==
    /\ act[a].pc = "originals"
    /\ act' = [act EXCEPT ![a] = [@ EXCEPT !.pc = "record",
                 !.originals = [m \in Memory |-> IF m \in act[a].ids \ {act[a].survivor}
                                                 THEN mem[m].text ELSE NoText]]]
    /\ UNCHANGED <<mem, event, cand, hiddenBy, early, faults>>

\* The event is written before anything it would have to undo.
Record(a) ==
    /\ act[a].pc = "record"
    /\ \E e \in Event :
          /\ event[e].state = "none" /\ \A d \in Event : d < e => event[d].state # "none"
          /\ event' = [event EXCEPT ![e] =
                         [state |-> "done", survivor |-> act[a].survivor,
                          originals |-> act[a].originals, merged |-> act[a].merged,
                          changed |-> act[a].changed]]
          /\ act' = [act EXCEPT ![a] = [@ EXCEPT !.pc = "survivor", !.event = e,
                                            !.changed = FALSE, !.originals = NoTexts]]
    /\ UNCHANGED <<mem, cand, hiddenBy, early, faults>>

UpdateSurvivor(a) ==
    /\ act[a].pc = "survivor"
    /\ mem' = [mem EXCEPT ![act[a].survivor].text = act[a].merged]
    /\ act' = [act EXCEPT ![a] = [@ EXCEPT !.pc = "absorb", !.merged = NoText]]
    /\ UNCHANGED <<event, cand, hiddenBy, early, faults>>

\* Variant: the rows are hidden before the event is recorded.
AbsorbFirst(a) ==
    /\ act[a].pc \in {"record", "absorb"}
    /\ LET gone == act[a].ids \ {act[a].survivor}
       IN  /\ mem' = [m \in Memory |-> IF m \in gone
                         THEN [mem[m] EXCEPT !.into = act[a].survivor]
                         ELSE mem[m]]
           /\ hiddenBy' = [m \in Memory |-> IF m \in gone THEN act[a].event ELSE hiddenBy[m]]
    /\ act' = IF act[a].pc = "record" THEN act ELSE [act EXCEPT ![a] = AfterMerge(a)]
    /\ UNCHANGED <<event, cand, early, faults>>

\* updateMany hides the absorbed rows; a merge of a candidate goes on to its status.
Absorb(a) ==
    /\ act[a].pc = "absorb"
    /\ LET gone == act[a].ids \ {act[a].survivor}
       IN  /\ mem' = [m \in Memory |-> IF m \in gone
                         THEN [mem[m] EXCEPT !.into = act[a].survivor]
                         ELSE mem[m]]
           /\ hiddenBy' = [m \in Memory |-> IF m \in gone THEN act[a].event ELSE hiddenBy[m]]
    /\ act' = [act EXCEPT ![a] = AfterMerge(a)]
    /\ UNCHANGED <<event, cand, early, faults>>

-----------------------------------------------------------------------------
(* LineageService.rollbackMerge                                            *)

\* rollbackMerge takes an event that has not been rolled back, finished or not.
Rollback(a, e) ==
    /\ act[a].pc = "idle" /\ event[e].state = "done"
    /\ act' = [act EXCEPT ![a] = [Idle EXCEPT !.pc = "restore", !.event = e,
                                              !.survivor = event[e].survivor,
                                              !.todo = Absorbed(e)]]
    /\ early' = IF \E b \in Actors : act[b].event = e /\ act[b].pc \in {"survivor", "absorb"}
                THEN early \cup {e} ELSE early
    /\ UNCHANGED <<mem, event, cand, hiddenBy, faults>>

\* Variant: the rows come back with the content they have now.
RestoreRowOnly(a) ==
    /\ act[a].pc = "restore"
    /\ \E m \in act[a].todo :
          /\ mem' = [mem EXCEPT ![m].into = None]
          /\ LET left == act[a].todo \ {m}
             IN  act' = [act EXCEPT ![a] = [@ EXCEPT !.todo = left,
                           !.pc = IF left # {} THEN "restore"
                                  ELSE IF event[act[a].event].changed THEN "premerge" ELSE "undo"]]
    /\ UNCHANGED <<event, cand, hiddenBy, early, faults>>

\* Each absorbed row comes back with the content the event preserved.
Restore(a) ==
    /\ act[a].pc = "restore"
    /\ \E m \in act[a].todo :
          /\ mem' = [mem EXCEPT ![m] = [into |-> None,
                                        text |-> event[act[a].event].originals[m]]]
          /\ LET left == act[a].todo \ {m}
             IN  act' = [act EXCEPT ![a] = [@ EXCEPT !.todo = left,
                           !.pc = IF left # {} THEN "restore"
                                  ELSE IF event[act[a].event].changed THEN "premerge" ELSE "undo"]]
    /\ UNCHANGED <<event, cand, hiddenBy, early, faults>>

\* findPreMergeContent: the newest other event of the survivor, else its present text.
PreMerge(a) ==
    /\ act[a].pc = "premerge"
    /\ LET others == {e \in Recorded \ {act[a].event} : event[e].survivor = act[a].survivor}
       IN  \E t \in Text :
             /\ \/ others = {} /\ t = mem[act[a].survivor].text
                \/ \E e \in others : t = event[e].merged /\ \A d \in others : d <= e
             /\ act' = [act EXCEPT ![a] = [@ EXCEPT !.pc = "revert", !.merged = t]]
    /\ UNCHANGED <<mem, event, cand, hiddenBy, early, faults>>

Revert(a) ==
    /\ act[a].pc = "revert"
    /\ mem' = [mem EXCEPT ![act[a].survivor].text = act[a].merged]
    /\ act' = [act EXCEPT ![a].pc = "undo"]
    /\ UNCHANGED <<event, cand, hiddenBy, early, faults>>

Undo(a) ==
    /\ act[a].pc = "undo"
    /\ event' = [event EXCEPT ![act[a].event].state = "undone"]
    /\ act' = [act EXCEPT ![a] = Idle]
    /\ UNCHANGED <<mem, cand, hiddenBy, early, faults>>

-----------------------------------------------------------------------------
(* ReviewService                                                           *)

\* The batch scan queues a cluster unless a pending candidate holds it already.
QueueCluster(a, ids) ==
    /\ act[a].pc = "idle"
    /\ Cardinality(ids) >= 2 /\ \A m \in ids : mem[m].into = None
    /\ \A c \in Pending : ~(ids \subseteq cand[c].ids)
    /\ act' = [act EXCEPT ![a] = [Idle EXCEPT !.pc = "queue", !.ids = ids]]
    /\ UNCHANGED <<mem, event, cand, hiddenBy, early, faults>>

CreateCandidate(a) ==
    /\ act[a].pc = "queue"
    /\ \E c \in Candidate, s \in act[a].ids, g \in Grades :
          /\ cand[c].status = "none"
          /\ cand' = [cand EXCEPT ![c] = [status |-> "PENDING", ids |-> act[a].ids,
                                          survivor |-> s, grade |-> g, failed |-> FALSE]]
    /\ act' = [act EXCEPT ![a] = Idle]
    /\ UNCHANGED <<mem, event, hiddenBy, early, faults>>

\* Variant: the status is written before the merge.
ApproveEagerly(a, c) ==
    /\ act[a].pc = "idle" /\ cand[c].status = "PENDING"
    /\ Cardinality(Recorded) < MaxByHand
    /\ \E s \in cand[c].ids, t \in Custom \cup {NoText} :
          act' = [act EXCEPT ![a] = Merging(Idle, c, cand[c].ids, s, t)]
    /\ cand' = [cand EXCEPT ![c].status = "APPROVED"]
    /\ UNCHANGED <<mem, event, hiddenBy, early, faults>>

\* approve reads the status first; the request may choose survivor and text.
Approve(a, c) ==
    /\ act[a].pc = "idle" /\ cand[c].status = "PENDING"
    /\ Cardinality(Recorded) < MaxByHand
    /\ \E s \in cand[c].ids, t \in Custom \cup {NoText} :
          act' = [act EXCEPT ![a] = Merging(Idle, c, cand[c].ids, s, t)]
    /\ UNCHANGED <<mem, event, cand, hiddenBy, early, faults>>

Decide(a) ==
    /\ act[a].pc = "decide"
    /\ cand' = [cand EXCEPT ![act[a].cand].status = "APPROVED"]
    /\ act' = [act EXCEPT ![a] = Rest(a)]
    /\ UNCHANGED <<mem, event, hiddenBy, early, faults>>

Reject(a, c) ==
    /\ act[a].pc = "idle" /\ cand[c].status = "PENDING"
    /\ act' = [act EXCEPT ![a] = [Idle EXCEPT !.pc = "reject", !.cand = c]]
    /\ UNCHANGED <<mem, event, cand, hiddenBy, early, faults>>

WriteRejection(a) ==
    /\ act[a].pc = "reject"
    /\ cand' = [cand EXCEPT ![act[a].cand].status = "REJECTED"]
    /\ act' = [act EXCEPT ![a] = Idle]
    /\ UNCHANGED <<mem, event, hiddenBy, early, faults>>

\* skip asks for no status.
Skip(c) ==
    /\ cand[c].status # "none"
    /\ cand' = [cand EXCEPT ![c].status = "SKIPPED"]
    /\ UNCHANGED <<mem, event, act, hiddenBy, early, faults>>

\* expireStale reads the pending candidates and approves them one by one.
ExpireStale(a) ==
    /\ act[a].pc = "idle" /\ Pending # {}
    /\ act' = [act EXCEPT ![a] = [Idle EXCEPT !.pc = "next", !.phase = "expire", !.list = Pending]]
    /\ UNCHANGED <<mem, event, cand, hiddenBy, early, faults>>

-----------------------------------------------------------------------------
(* DedupQueueProcessor                                                     *)

\* The nightly job reads a batch of the most similar pending candidates.
DrainStart(d) ==
    /\ act[d].pc = "idle" /\ Pending # {}
    /\ act' = [act EXCEPT ![d] = [Idle EXCEPT !.pc = "next", !.phase = "batch",
                 !.list = {c \in Pending : Cardinality({k \in Pending : k < c}) < BatchSize}]]
    /\ UNCHANGED <<mem, event, cand, hiddenBy, early, faults>>

\* The next candidate of the list.  Only the TTL sweep merges protected memories.  A
\* batch merges what scored high without looking at the status again; the others go
\* through approve, and when it refuses the sweeps take the candidate for resolved.
NextCandidate(a) ==
    /\ act[a].pc = "next"
    /\ \E c \in act[a].list :
          LET x == [act[a] EXCEPT !.list = @ \ {c}]
              left == \/ cand[c].grade = "protected" /\ x.phase # "expire"
                      \/ cand[c].grade = "low" /\ x.phase = "batch"
              blind == x.phase = "batch" /\ cand[c].grade # "medium"
          IN  /\ \A k \in act[a].list : c <= k
              /\ \E y \in {x, [x EXCEPT !.pc = "giveup", !.cand = c],
                            Merging(x, c, cand[c].ids, cand[c].survivor, NoText)} :
                    /\ y.pc = IF left THEN "next"
                              ELSE IF blind \/ cand[c].status = "PENDING" THEN "read"
                              ELSE IF x.phase = "batch" THEN "next" ELSE "giveup"
                    /\ act' = [act EXCEPT ![a] = y]
    /\ UNCHANGED <<mem, event, cand, hiddenBy, early, faults>>

\* After its batch the job runs processBacklog over the best of what is left.
EndOfList(a) ==
    /\ act[a].pc = "next" /\ act[a].list = {}
    /\ act' = [act EXCEPT ![a] =
                 IF act[a].phase = "batch"
                 THEN [Idle EXCEPT !.pc = "next", !.phase = "backlog",
                                   !.list = {c \in Pending : cand[c].grade \in {"top", "protected"}}]
                 ELSE Idle]
    /\ UNCHANGED <<mem, event, cand, hiddenBy, early, faults>>

\* The catch block of expireStale and processBacklog.
GiveUp(a) ==
    /\ act[a].pc = "giveup"
    /\ cand' = [cand EXCEPT ![act[a].cand] = [@ EXCEPT !.status = "APPROVED", !.failed = TRUE]]
    /\ act' = [act EXCEPT ![a] = Rest(a)]
    /\ UNCHANGED <<mem, event, hiddenBy, early, faults>>

\* A database call fails: the request answers with the error, the batch goes on to the
\* next candidate, the sweeps give this one up.  What was written stays.
Fails(a) ==
    /\ act[a].pc # "idle"
    /\ \E c \in {act[a].cand} \cup act[a].list :
          /\ IF act[a].pc = "next" THEN c \in act[a].list /\ \A k \in act[a].list : c <= k
                                   ELSE c = act[a].cand
          /\ LET x == [Rest(a) EXCEPT !.list = @ \ {c}]
             IN  act' = [act EXCEPT ![a] =
                   IF act[a].phase \in {"backlog", "expire"} /\ act[a].pc # "giveup"
                   THEN [x EXCEPT !.pc = "giveup", !.cand = c] ELSE x]
    /\ Fault
    /\ UNCHANGED <<mem, event, cand, hiddenBy, early>>

-----------------------------------------------------------------------------
Restart ==
    /\ Fault
    /\ act' = [a \in Actors |-> Idle]
    /\ UNCHANGED <<mem, event, cand, hiddenBy, early>>

MergeStep(a) ==
    \/ ReadMemories(a) \/ ReadOriginals(a) \/ Record(a) \/ UpdateSurvivor(a) \/ Absorb(a)
    \/ Decide(a) \/ NextCandidate(a) \/ EndOfList(a) \/ GiveUp(a)

ReviewStep(a) ==
    \/ \E ids \in SUBSET Memory : QueueCluster(a, ids) \/ \E s \in ids : ManualMerge(a, ids, s)
    \/ \E c \in Candidate : Approve(a, c) \/ Reject(a, c)
    \/ \E e \in Event : Rollback(a, e)
    \/ CreateCandidate(a) \/ WriteRejection(a) \/ ExpireStale(a)
    \/ Restore(a) \/ PreMerge(a) \/ Revert(a) \/ Undo(a)

Next ==
    \/ \E a \in Actors : MergeStep(a) \/ Fails(a)
    \/ \E a \in Reviewers : ReviewStep(a)
    \/ \E d \in Drainers : DrainStart(d)
    \/ \E c \in Candidate : Skip(c)
    \/ Restart

Spec == Init /\ [][Next]_vars

-----------------------------------------------------------------------------
(* Properties                                                              *)

\* Every variable stays in its type.
TypeOK ==
    /\ mem \in [Memory -> Row]
    /\ event \in [Event -> EventRow]
    /\ cand \in [Candidate -> CandidateRow]
    /\ act \in [Actors -> Act]
    /\ hiddenBy \in [Memory -> Event \cup {None}]
    /\ early \in SUBSET Event
    /\ faults \in 0..MaxFaults

\* What a merge hid can be brought back: the event that hid a row last kept its text
\* and has not been rolled back, whatever crashed, failed or ran twice on the way.
\* The exception is a rollback that overtook the merge it undoes.
Recoverable ==
    \A m \in Memory : mem[m].into # None =>
        LET e == hiddenBy[m]
        IN  /\ e # None
            /\ event[e].survivor = mem[m].into /\ m \in Absorbed(e)
            /\ event[e].state = "done" \/ e \in early

\* A candidate reads APPROVED only when its memories have been merged by a recorded
\* event, or a sweep noted that the merge failed.
ApprovedWasMerged ==
    \A c \in Candidate : cand[c].status = "APPROVED" =>
        \/ cand[c].failed
        \/ \E e \in Recorded : Absorbed(e) \cup {event[e].survivor} = cand[c].ids

Ledger == INSTANCE MergeLedger WITH
    entry <- event,
    into <- [m \in Memory |-> mem[m].into],
    text <- [m \in Memory |-> mem[m].text]

\* However merges, rollbacks, batches, failures and restarts interleave, every change to
\* a memory is one a recorded event tells of: what is hidden is what an event absorbed,
\* what comes back says what an event kept, a survivor is rewritten with the text of an
\* event and taken back only if the event changed it, and no event is ever rewritten.
KeepsLedger == Ledger!Spec

\* Undoing a merge takes back the text a reviewer wrote for it: the survivor does not
\* keep it unless another merge wrote the same one.
UndoneTextIsGone ==
    \A e \in Event : (event[e].state = "undone" /\ event[e].changed) =>
        \/ mem[event[e].survivor].text # event[e].merged
        \/ \E d \in Recorded \ {e} : event[d].merged = event[e].merged
=============================================================================
