-------------------------- MODULE MemoryMergeProofs --------------------------
(***************************************************************************)
(* MemoryMerge keeps its types, keeps what it hides recoverable, and       *)
(* writes APPROVED only over a merge that is recorded, for every number of *)
(* memories, candidates, requests and worker slots; and it implements      *)
(* MergeLedger.                                                            *)
(*                                                                         *)
(* The strengthening says, for each actor, what the rows it has read or    *)
(* written still hold: ActInv, stated of a record so that a step of one    *)
(* actor and the record of another can be told apart.                      *)
(***************************************************************************)
EXTENDS MemoryMerge, FiniteSetTheorems, TLAPS

Merges == {"read", "originals", "record", "survivor", "absorb"}
Rolls == {"restore", "premerge", "revert", "undo"}

\* Event e stands, or was rolled back before its merge was over.
Stands(e) == event[e].state = "done" \/ e \in early

\* The candidate x works on exists and is the one it read.
HoldsCandidate(x) ==
    (x.pc \in Merges /\ x.cand # None) =>
        cand[x.cand].status # "none" /\ x.ids = cand[x.cand].ids

\* The text x is going to write is one.
HoldsText(x) ==
    /\ x.pc = "read" => (x.changed => x.merged \in Text)
    /\ x.pc \in {"originals", "record", "survivor", "revert"} => x.merged \in Text

\* Past its record, a merge has an event that keeps what it is about to hide.
HoldsEvent(x) ==
    x.pc \in {"survivor", "absorb"} =>
        /\ x.event \in Event /\ event[x.event].state # "none"
        /\ event[x.event].survivor = x.survivor
        /\ Absorbed(x.event) = x.ids \ {x.survivor}
        /\ Stands(x.event)

\* A merge is decided once its event is there.
WasMerged(c) ==
    \E e \in Recorded : Absorbed(e) \cup {event[e].survivor} = cand[c].ids

\* A rollback has brought back all but what it still has to do.
RollsBack(x) ==
    x.pc \in Rolls =>
        /\ x.event \in Event /\ event[x.event].state # "none"
        /\ x.survivor = event[x.event].survivor
        /\ x.todo \subseteq Absorbed(x.event)
        /\ x.pc # "restore" => x.todo = {}
        /\ \A m \in Memory \ x.todo :
              (mem[m].into # None /\ hiddenBy[m] = x.event) => x.event \in early

\* A sweep is always about some candidate.
HasCandidate(x) ==
    (x.pc \in {"reject", "giveup"} \/ (x.phase # "request" /\ x.pc # "next")) =>
        x.cand # None /\ cand[x.cand].status # "none"

ActInv(x) ==
    /\ HasCandidate(x)
    /\ x.pc \in Merges => x.survivor \in x.ids
    /\ HoldsCandidate(x)
    /\ HoldsText(x)
    /\ x.pc = "record" =>
          \A m \in Memory : x.originals[m] # NoText <=> m \in x.ids \ {x.survivor}
    /\ HoldsEvent(x)
    /\ x.pc = "decide" => /\ x.cand # None /\ cand[x.cand].status # "none"
                          /\ WasMerged(x.cand)
    /\ RollsBack(x)
    /\ \A c \in x.list : cand[c].status # "none"

\* A rollback and the merge it undoes are under way together only in "early" events.
Overtaken ==
    \A a, b \in Actors :
        (act[a].pc \in {"survivor", "absorb"} /\ act[b].pc \in Rolls
            /\ act[a].event = act[b].event) => act[a].event \in early

EventsWhole ==
    /\ \A e \in Recorded : event[e].survivor \in Memory /\ event[e].merged \in Text
    /\ early \subseteq Recorded

CandidatesWhole ==
    \A c \in Candidate : cand[c].status # "none" => cand[c].survivor \in cand[c].ids

MergeInv ==
    /\ TypeOK
    /\ \A a \in Actors : ActInv(act[a])
    /\ Overtaken
    /\ EventsWhole
    /\ CandidatesWhole
    /\ Recoverable
    /\ ApprovedWasMerged

-----------------------------------------------------------------------------
\* Two ways to use the invariant.
LEMMA MergeTypes ==
    ASSUME MergeInv, NEW a \in Actors
    PROVE  /\ act \in [Actors -> Act] /\ act[a] \in Act /\ act[a].pc \in PCs
           /\ act[a].list \subseteq Candidate /\ act[a].cand \in Candidate \cup {None}
           /\ act[a].ids \subseteq Memory /\ act[a].survivor \in Memory \cup {None}
           /\ act[a].merged \in Text \cup {NoText} /\ act[a].changed \in BOOLEAN
           /\ act[a].originals \in [Memory -> Text \cup {NoText}]
           /\ act[a].event \in Event \cup {None} /\ act[a].todo \subseteq Memory
           /\ act[a].phase \in {"request", "batch", "backlog", "expire"}
           /\ ActInv(act[a])
<1>1. act \in [Actors -> Act]  BY DEF MergeInv, TypeOK
<1>2. act[a] \in Act  BY <1>1
<1> QED  BY <1>1, <1>2 DEF MergeInv, Act

LEMMA Numbers ==
    /\ None \notin Memory /\ None \notin Candidate /\ None \notin Event
    /\ NoText \notin Text /\ Memory \subseteq Text
  BY MergeBounds, MergeTexts
  DEF None, NoText, Memory, Candidate, Event, Text

LEMMA IdleInv ==
    /\ Idle \in Act /\ ActInv(Idle) /\ Idle.pc = "idle" /\ Idle.list = {}
    /\ Idle.phase = "request"
<1>1. NoTexts \in [Memory -> Text \cup {NoText}]  BY DEF NoTexts
<1>2. Idle \in Act  BY <1>1 DEF Idle, Act, PCs
<1> QED  BY <1>2 DEF Idle, ActInv, Merges, Rolls, HasCandidate, HoldsCandidate, HoldsText, HoldsEvent, RollsBack

\* Where an actor rests: nothing is under way but its list.
LEMMA RestInv ==
    ASSUME MergeInv, NEW a \in Actors, NEW y, y = Rest(a)
    PROVE  /\ y \in Act /\ ActInv(y) /\ y.pc \in {"idle", "next"}
           /\ y.list \subseteq act[a].list
           /\ y.phase = act[a].phase
<1>1. CASE act[a].phase = "request"
  BY <1>1, IdleInv DEF Rest
<1>2. CASE act[a].phase # "request"
  <2>1. y = [Idle EXCEPT !.pc = "next", !.phase = act[a].phase, !.list = act[a].list]
    BY <1>2 DEF Rest
  <2>2. y \in Act /\ y.pc = "next" /\ y.list = act[a].list /\ y.phase = act[a].phase
    BY <2>1, IdleInv, MergeTypes DEF Act, PCs, Idle
  <2>3. \A c \in y.list : cand[c].status # "none"
    BY <2>2, MergeTypes DEF ActInv
  <2> QED
    BY <2>2, <2>3 DEF ActInv, Merges, Rolls, HasCandidate, HoldsCandidate, HoldsText, HoldsEvent, RollsBack
<1> QED  BY <1>1, <1>2

\* What another actor's step must leave alone for x to stay right.
LEMMA ActStable ==
    ASSUME NEW x \in Act, MergeInv, ActInv(x),
           \A c \in Candidate : cand[c].status # "none" =>
                cand'[c].status # "none" /\ cand'[c].ids = cand[c].ids,
           \A e \in Event : event[e].state # "none" =>
                /\ event'[e].state # "none" /\ event'[e].survivor = event[e].survivor
                /\ event'[e].originals = event[e].originals,
           x.pc \in {"survivor", "absorb"} => Stands(x.event)',
           x.pc \in Rolls => \A m \in Memory :
                (mem'[m].into # None /\ hiddenBy'[m] = x.event) =>
                    (mem[m].into # None /\ hiddenBy[m] = x.event) \/ x.event \in early',
           early \subseteq early'
    PROVE  ActInv(x)'
<1>1. /\ x.cand \in Candidate \cup {None} /\ x.list \subseteq Candidate
      /\ x.todo \subseteq Memory
  BY DEF Act
<1>2. \A e \in Event : event[e].state # "none" => Absorbed(e)' = Absorbed(e)
  BY DEF Absorbed
<1>3. HoldsCandidate(x)' /\ HasCandidate(x)'
  BY <1>1, Numbers DEF ActInv, HoldsCandidate, HasCandidate
<1>4. HoldsText(x)'  BY DEF ActInv, HoldsText
<1>5. HoldsEvent(x)'  BY <1>2 DEF ActInv, HoldsEvent
<1>6. RollsBack(x)'
  <2> SUFFICES ASSUME x.pc \in Rolls PROVE RollsBack(x)'  BY DEF RollsBack
  <2>1. /\ x.event \in Event /\ event[x.event].state # "none"
        /\ x.survivor = event[x.event].survivor
        /\ x.todo \subseteq Absorbed(x.event)
        /\ x.pc # "restore" => x.todo = {}
        /\ \A m \in Memory \ x.todo :
              (mem[m].into # None /\ hiddenBy[m] = x.event) => x.event \in early
    BY DEF ActInv, RollsBack
  <2> QED  BY <2>1, <1>2 DEF RollsBack
<1>7. x.pc = "decide" => /\ x.cand # None /\ cand'[x.cand].status # "none"
                         /\ WasMerged(x.cand)'
  <2> SUFFICES ASSUME x.pc = "decide"
               PROVE  x.cand # None /\ cand'[x.cand].status # "none" /\ WasMerged(x.cand)'
    OBVIOUS
  <2>1. x.cand \in Candidate /\ cand[x.cand].status # "none" /\ WasMerged(x.cand)
    BY <1>1 DEF ActInv
  <2>2. PICK e \in Event : event[e].state # "none"
                           /\ Absorbed(e) \cup {event[e].survivor} = cand[x.cand].ids
    BY <2>1 DEF WasMerged, Recorded
  <2>3. event'[e].state # "none"
        /\ Absorbed(e)' \cup {event'[e].survivor} = cand'[x.cand].ids
    BY <2>1, <2>2, <1>2
  <2> QED  BY <2>1, <2>3, Numbers DEF WasMerged, Recorded
<1> QED  BY <1>1, <1>3, <1>4, <1>5, <1>6, <1>7 DEF ActInv

\* A step that changes nothing but what one actor is doing.
LEMMA ActOnly ==
    ASSUME MergeInv, NEW a \in Actors, NEW y \in Act, ActInv(y),
           act' = [act EXCEPT ![a] = y],
           UNCHANGED <<mem, event, cand, hiddenBy, early>>, faults' \in 0..MaxFaults,
           y.pc \notin {"survivor", "absorb"},
           y.pc \in Rolls => act[a].pc \in Rolls /\ act[a].event = y.event
    PROVE  MergeInv'
<1>1. act \in [Actors -> Act]  BY MergeTypes
<1>2. act' \in [Actors -> Act]
      /\ \A b \in Actors : act'[b] = IF b = a THEN y ELSE act[b]
  BY <1>1
<1>3. TypeOK'  BY <1>2 DEF MergeInv, TypeOK
<1>4. ASSUME NEW b \in Actors, NEW x, x = act'[b]  PROVE ActInv(x)'
  <2>1. ActInv(x)  BY <1>2, <1>4 DEF MergeInv
  <2> QED
    BY <2>1 DEF ActInv, HasCandidate, HoldsCandidate, HoldsText, HoldsEvent, RollsBack, WasMerged, Recorded,
                Absorbed, Stands
<1>5. \A b \in Actors : ActInv(act[b])'  BY <1>4
<1>6. Overtaken'
  <2> SUFFICES ASSUME NEW b \in Actors, NEW d \in Actors,
                      act'[b].pc \in {"survivor", "absorb"}, act'[d].pc \in Rolls,
                      act'[b].event = act'[d].event
               PROVE  act'[b].event \in early
    BY DEF Overtaken
  <2>1. b # a /\ act'[b] = act[b]  BY <1>2
  <2>2. act[d].pc \in Rolls /\ act[d].event = act'[d].event  BY <1>2
  <2> QED  BY <2>1, <2>2 DEF MergeInv, Overtaken
<1> QED
  BY <1>3, <1>5, <1>6 DEF MergeInv, EventsWhole, CandidatesWhole, Recoverable, ApprovedWasMerged,
                          Recorded, Absorbed

LEMMA FaultsStay ==
    ASSUME MergeInv, UNCHANGED faults \/ Fault
    PROVE  faults' \in 0..MaxFaults
  BY MergeBounds DEF MergeInv, TypeOK, Fault

-----------------------------------------------------------------------------
(* Steps of one actor that write no row.                                   *)

\* What an actor holds that has started to merge.
LEMMA MergingFields ==
    ASSUME NEW w \in Act, NEW c \in Candidate \cup {None}, NEW ids \in SUBSET Memory,
           NEW s \in Memory, NEW t \in Text \cup {NoText}, NEW y, y = Merging(w, c, ids, s, t)
    PROVE  y \in Act /\ y.pc = "read" /\ y.cand = c /\ y.ids = ids /\ y.survivor = s
           /\ y.merged = t /\ y.changed = (t # NoText) /\ y.list = w.list
           /\ y.phase = w.phase
<1>1. y = [pc |-> "read", phase |-> w.phase, list |-> w.list, cand |-> c, ids |-> ids,
           survivor |-> s, merged |-> t, changed |-> (t # NoText), originals |-> w.originals,
           event |-> w.event, todo |-> w.todo]
  BY DEF Merging, Act
<1>2. "read" \in PCs  BY DEF PCs
<1> QED BY <1>1, <1>2 DEF Act

\* A merge starts from nothing, or from the list its actor goes through.
LEMMA MergingInv ==
    ASSUME MergeInv, NEW w \in Act, ActInv(w), w.pc \in {"idle", "next"},
           NEW c \in Candidate \cup {None}, NEW ids \in SUBSET Memory, NEW s \in ids,
           NEW t \in Custom \cup {NoText},
           c # None => cand[c].status # "none" /\ ids = cand[c].ids,
           c = None => w.phase = "request",
           NEW y, y = Merging(w, c, ids, s, t)
    PROVE  y \in Act /\ ActInv(y) /\ y.pc = "read"
<1>1. y \in Act /\ y.pc = "read" /\ y.cand = c /\ y.ids = ids /\ y.survivor = s
      /\ y.merged = t /\ y.changed = (t # NoText) /\ y.list = w.list
      /\ y.phase = w.phase
  BY MergingFields DEF Text
<1>2. HoldsText(y)  BY <1>1 DEF HoldsText, Text
<1> QED
  BY <1>1, <1>2 DEF ActInv, HasCandidate, HoldsCandidate, HoldsEvent, RollsBack, Merges, Rolls

LEMMA StepManualMerge ==
    ASSUME MergeInv, NEW a \in Actors, NEW ids \in SUBSET Memory, NEW s \in ids,
           ManualMerge(a, ids, s)
    PROVE  MergeInv'
<1>1. PICK t \in Custom \cup {NoText} :
          act' = [act EXCEPT ![a] = Merging(Idle, None, ids, s, t)]
  BY DEF ManualMerge
<1>2. PICK y : y = Merging(Idle, None, ids, s, t)  OBVIOUS
<1>3. y \in Act /\ ActInv(y) /\ y.pc = "read"  BY <1>2, IdleInv, MergingInv
<1> QED
  BY <1>1, <1>2, <1>3, FaultsStay, ActOnly DEF ManualMerge, Rolls

LEMMA StepApprove ==
    ASSUME MergeInv, NEW a \in Actors, NEW c \in Candidate, Approve(a, c)
    PROVE  MergeInv'
<1>1. PICK s \in cand[c].ids, t \in Custom \cup {NoText} :
          act' = [act EXCEPT ![a] = Merging(Idle, c, cand[c].ids, s, t)]
  BY DEF Approve
<1>2. PICK y : y = Merging(Idle, c, cand[c].ids, s, t)  OBVIOUS
<1>3. cand[c].ids \subseteq Memory  BY DEF MergeInv, TypeOK, CandidateRow
<1>4. cand[c].status # "none"  BY DEF Approve
<1>5. y \in Act /\ ActInv(y) /\ y.pc = "read"
  BY <1>2, <1>3, <1>4, IdleInv, MergingInv
<1> QED
  BY <1>1, <1>2, <1>5, FaultsStay, ActOnly DEF Approve, Rolls

LEMMA StepReadMemories ==
    ASSUME MergeInv, NEW a \in Actors, ReadMemories(a)
    PROVE  MergeInv'
<1> DEFINE t == IF act[a].changed THEN act[a].merged ELSE mem[act[a].survivor].text
<1>1. PICK y : y = [act[a] EXCEPT !.pc = "originals", !.merged = t]  OBVIOUS
<1>2. act' = [act EXCEPT ![a] = y]  BY <1>1, MergeTypes DEF ReadMemories
<1>3. act[a].survivor \in Memory /\ (act[a].changed => act[a].merged \in Text)
  BY MergeTypes DEF ReadMemories, ActInv, Merges, HoldsText
<1>4. mem[act[a].survivor].text \in Text  BY <1>3 DEF MergeInv, TypeOK, Row
<1>5. t \in Text  BY <1>3, <1>4
<1> HIDE DEF t
<1>6. y \in Act /\ y.pc = "originals" /\ y.cand = act[a].cand /\ y.phase = act[a].phase /\ y.ids = act[a].ids
      /\ y.survivor = act[a].survivor /\ y.merged = t /\ y.list = act[a].list
  BY <1>1, <1>5, MergeTypes DEF Act, PCs
<1>7. ActInv(y)
  BY <1>5, <1>6, MergeTypes
  DEF ReadMemories, ActInv, HasCandidate, HoldsCandidate, HoldsText, HoldsEvent, RollsBack, Merges, Rolls
<1> QED  BY <1>2, <1>6, <1>7, FaultsStay, ActOnly DEF ReadMemories, Rolls

LEMMA StepReadOriginals ==
    ASSUME MergeInv, NEW a \in Actors, ReadOriginals(a)
    PROVE  MergeInv'
<1> DEFINE f == [m \in Memory |-> IF m \in act[a].ids \ {act[a].survivor}
                                  THEN mem[m].text ELSE NoText]
<1>1. PICK y : y = [act[a] EXCEPT !.pc = "record", !.originals = f]  OBVIOUS
<1>2. act' = [act EXCEPT ![a] = y]  BY <1>1 DEF ReadOriginals
<1>3. \A m \in Memory : mem[m].text \in Text  BY DEF MergeInv, TypeOK, Row
<1>4. f \in [Memory -> Text \cup {NoText}]  BY <1>3
<1>5. \A m \in Memory : f[m] # NoText <=> m \in act[a].ids \ {act[a].survivor}
  BY <1>3, Numbers
<1> HIDE DEF f
<1>6. y \in Act /\ y.pc = "record" /\ y.cand = act[a].cand /\ y.phase = act[a].phase /\ y.ids = act[a].ids
      /\ y.survivor = act[a].survivor /\ y.merged = act[a].merged /\ y.list = act[a].list
      /\ y.originals = f
  BY <1>1, <1>4, MergeTypes DEF Act, PCs
<1>7. ActInv(y)
  BY <1>5, <1>6, MergeTypes
  DEF ReadOriginals, ActInv, HasCandidate, HoldsCandidate, HoldsText, HoldsEvent, RollsBack, Merges, Rolls
<1> QED  BY <1>2, <1>6, <1>7, FaultsStay, ActOnly DEF ReadOriginals, Rolls

LEMMA StepQueueCluster ==
    ASSUME MergeInv, NEW a \in Actors, NEW ids \in SUBSET Memory, QueueCluster(a, ids)
    PROVE  MergeInv'
<1>1. PICK y : y = [Idle EXCEPT !.pc = "queue", !.ids = ids]  OBVIOUS
<1>2. act' = [act EXCEPT ![a] = y]  BY <1>1 DEF QueueCluster
<1>3. y \in Act /\ y.pc = "queue" /\ y.list = {} /\ y.phase = "request"
  BY <1>1, IdleInv DEF Act, PCs
<1>4. ActInv(y)
  BY <1>3 DEF ActInv, HasCandidate, HoldsCandidate, HoldsText, HoldsEvent, RollsBack, Merges, Rolls
<1> QED  BY <1>2, <1>3, <1>4, FaultsStay, ActOnly DEF QueueCluster, Rolls

LEMMA StepReject ==
    ASSUME MergeInv, NEW a \in Actors, NEW c \in Candidate, Reject(a, c)
    PROVE  MergeInv'
<1>1. PICK y : y = [Idle EXCEPT !.pc = "reject", !.cand = c]  OBVIOUS
<1>2. act' = [act EXCEPT ![a] = y]  BY <1>1 DEF Reject
<1>3. y \in Act /\ y.pc = "reject" /\ y.list = {} /\ y.cand = c /\ cand[c].status # "none"
  BY <1>1, IdleInv DEF Reject, Act, PCs
<1>4. ActInv(y)
  BY <1>3, Numbers DEF ActInv, HasCandidate, HoldsCandidate, HoldsText, HoldsEvent, RollsBack, Merges, Rolls
<1> QED  BY <1>2, <1>3, <1>4, FaultsStay, ActOnly DEF Reject, Rolls

\* Whatever starts to go through a list of pending candidates.
LEMMA ListInv ==
    ASSUME MergeInv, NEW L \in SUBSET Pending, NEW p \in {"batch", "backlog", "expire"},
           NEW y, y = [Idle EXCEPT !.pc = "next", !.phase = p, !.list = L]
    PROVE  y \in Act /\ ActInv(y) /\ y.pc = "next"
<1>1. y \in Act /\ y.pc = "next" /\ y.list = L /\ y.phase = p  BY IdleInv DEF Act, PCs, Pending
<1> QED
  BY <1>1 DEF ActInv, HasCandidate, HoldsCandidate, HoldsText, HoldsEvent, RollsBack, Merges, Rolls, Pending

LEMMA StepLists ==
    ASSUME MergeInv, NEW a \in Actors, ExpireStale(a) \/ DrainStart(a) \/ EndOfList(a)
    PROVE  MergeInv'
<1>1. PICK y : act' = [act EXCEPT ![a] = y] /\ y \in Act /\ ActInv(y) /\ y.pc \in {"next", "idle"}
  <2>1. CASE ExpireStale(a)
    <3>1. PICK y : y = [Idle EXCEPT !.pc = "next", !.phase = "expire", !.list = Pending]
      OBVIOUS
    <3> QED  BY <2>1, <3>1, ListInv DEF ExpireStale
  <2>2. CASE DrainStart(a)
    <3> DEFINE L == {c \in Pending : Cardinality({k \in Pending : k < c}) < BatchSize}
    <3>1. L \in SUBSET Pending  OBVIOUS
    <3>2. PICK y : y = [Idle EXCEPT !.pc = "next", !.phase = "batch", !.list = L]
      OBVIOUS
    <3>3. act' = [act EXCEPT ![a] = y]  BY <2>2, <3>2 DEF DrainStart
    <3> HIDE DEF L
    <3> QED  BY <3>1, <3>2, <3>3, ListInv
  <2>3. CASE EndOfList(a) /\ act[a].phase = "batch"
    <3> DEFINE L == {c \in Pending : cand[c].grade \in {"top", "protected"}}
    <3>1. L \in SUBSET Pending  OBVIOUS
    <3>2. PICK y : y = [Idle EXCEPT !.pc = "next", !.phase = "backlog", !.list = L]
      OBVIOUS
    <3>3. act' = [act EXCEPT ![a] = y]  BY <2>3, <3>2 DEF EndOfList
    <3> HIDE DEF L
    <3> QED  BY <3>1, <3>2, <3>3, ListInv
  <2>4. CASE EndOfList(a) /\ act[a].phase # "batch"
    <3>1. act' = [act EXCEPT ![a] = Idle]  BY <2>4 DEF EndOfList
    <3> QED  BY <3>1, IdleInv
  <2> QED  BY <2>1, <2>2, <2>3, <2>4
<1> QED  BY <1>1, FaultsStay, ActOnly DEF ExpireStale, DrainStart, EndOfList, Rolls

\* Taking a candidate off the list.
LEMMA TakenInv ==
    ASSUME MergeInv, NEW a \in Actors, NEW c \in act[a].list, act[a].pc = "next",
           NEW x, x = [act[a] EXCEPT !.list = @ \ {c}]
    PROVE  /\ x \in Act /\ ActInv(x) /\ x.pc = "next" /\ x.list = act[a].list \ {c}
           /\ x.phase = act[a].phase
           /\ c \in Candidate /\ cand[c].status # "none"
<1>1. x \in Act /\ x.pc = "next" /\ x.list = act[a].list \ {c} /\ x.phase = act[a].phase
  BY MergeTypes DEF Act
<1>2. \A k \in act[a].list : k \in Candidate /\ cand[k].status # "none"
  BY MergeTypes DEF ActInv
<1> QED
  BY <1>1, <1>2 DEF ActInv, HasCandidate, HoldsCandidate, HoldsText, HoldsEvent, RollsBack, Merges, Rolls

\* Giving a candidate up.
LEMMA GivenUpInv ==
    ASSUME MergeInv, NEW x \in Act, ActInv(x), x.pc \in {"idle", "next"}, NEW c \in Candidate,
           cand[c].status # "none",
           NEW y, y = [x EXCEPT !.pc = "giveup", !.cand = c]
    PROVE  y \in Act /\ ActInv(y) /\ y.pc = "giveup"
<1>1. y \in Act /\ y.pc = "giveup" /\ y.cand = c /\ y.list = x.list
  BY DEF Act, PCs
<1> QED
  BY <1>1, Numbers
  DEF ActInv, HasCandidate, HoldsCandidate, HoldsText, HoldsEvent, RollsBack, Merges, Rolls

LEMMA StepNextCandidate ==
    ASSUME MergeInv, NEW a \in Actors, NextCandidate(a)
    PROVE  MergeInv'
<1>1. PICK c \in act[a].list : \E y :
          /\ LET x == [act[a] EXCEPT !.list = @ \ {c}]
             IN  y \in {x, [x EXCEPT !.pc = "giveup", !.cand = c],
                        Merging(x, c, cand[c].ids, cand[c].survivor, NoText)}
          /\ act' = [act EXCEPT ![a] = y]
  BY DEF NextCandidate
<1>2. PICK x : x = [act[a] EXCEPT !.list = @ \ {c}]  OBVIOUS
<1>6. PICK y : /\ y \in {x, [x EXCEPT !.pc = "giveup", !.cand = c],
                        Merging(x, c, cand[c].ids, cand[c].survivor, NoText)}
               /\ act' = [act EXCEPT ![a] = y]
  BY <1>1, <1>2
<1>3. /\ x \in Act /\ ActInv(x) /\ x.pc = "next"
      /\ c \in Candidate /\ cand[c].status # "none"
  BY <1>2, TakenInv DEF NextCandidate
<1>4. cand[c].survivor \in cand[c].ids /\ cand[c].ids \in SUBSET Memory
  BY <1>3 DEF MergeInv, CandidatesWhole, TypeOK, CandidateRow
<1>5. y \in Act /\ ActInv(y) /\ y.pc \in {"next", "giveup", "read"}
  <2>1. CASE y = x  BY <2>1, <1>3
  <2>2. CASE y = [x EXCEPT !.pc = "giveup", !.cand = c]  BY <2>2, <1>3, GivenUpInv
  <2>3. CASE y = Merging(x, c, cand[c].ids, cand[c].survivor, NoText)
    <3>1. NoText \in Custom \cup {NoText}  OBVIOUS
    <3> QED  BY <2>3, <3>1, <1>3, <1>4, Numbers, MergingInv
  <2> QED  BY <2>1, <2>2, <2>3, <1>6
<1> QED  BY <1>5, <1>6, FaultsStay, ActOnly DEF NextCandidate, Rolls

LEMMA StepPreMerge ==
    ASSUME MergeInv, NEW a \in Actors, PreMerge(a)
    PROVE  MergeInv'
<1>1. PICK t \in Text : act' = [act EXCEPT ![a] = [@ EXCEPT !.pc = "revert", !.merged = t]]
  BY DEF PreMerge
<1>2. PICK y : y = [act[a] EXCEPT !.pc = "revert", !.merged = t]  OBVIOUS
<1>3. act' = [act EXCEPT ![a] = y]  BY <1>1, <1>2, MergeTypes
<1>4. y \in Act /\ y.pc = "revert" /\ y.phase = act[a].phase /\ y.cand = act[a].cand /\ y.merged = t /\ y.event = act[a].event
      /\ y.survivor = act[a].survivor /\ y.todo = act[a].todo /\ y.list = act[a].list
  BY <1>2, MergeTypes DEF Act, PCs
<1>5. ActInv(y)
  BY <1>4, MergeTypes
  DEF PreMerge, ActInv, HasCandidate, HoldsCandidate, HoldsText, HoldsEvent, RollsBack, Merges, Rolls
<1> QED  BY <1>3, <1>4, <1>5, FaultsStay, ActOnly DEF PreMerge, Rolls

LEMMA StepFails ==
    ASSUME MergeInv, NEW a \in Actors, Fails(a)
    PROVE  MergeInv'
<1>1. PICK c \in {act[a].cand} \cup act[a].list :
          /\ IF act[a].pc = "next" THEN c \in act[a].list ELSE c = act[a].cand
          /\ LET x == [Rest(a) EXCEPT !.list = @ \ {c}]
             IN  act' = [act EXCEPT ![a] =
                   IF act[a].phase \in {"backlog", "expire"} /\ act[a].pc # "giveup"
                   THEN [x EXCEPT !.pc = "giveup", !.cand = c] ELSE x]
  BY DEF Fails
<1>2. PICK x : x = [Rest(a) EXCEPT !.list = @ \ {c}]  OBVIOUS
<1>3. PICK r : r = Rest(a)  OBVIOUS
<1>4. r \in Act /\ ActInv(r) /\ r.pc \in {"idle", "next"} /\ x = [r EXCEPT !.list = @ \ {c}]
  BY <1>2, <1>3, RestInv
<1>5. x \in Act /\ x.pc = r.pc /\ x.list = r.list \ {c} /\ x.phase = r.phase /\ x.cand = r.cand
  BY <1>4 DEF Act
<1>6. ActInv(x) /\ x.pc \in {"idle", "next"}
  BY <1>4, <1>5 DEF ActInv, HasCandidate, HoldsCandidate, HoldsText, HoldsEvent, RollsBack, Merges, Rolls
<1>7. CASE act[a].phase \in {"backlog", "expire"} /\ act[a].pc # "giveup"
  <2>1. PICK y : y = [x EXCEPT !.pc = "giveup", !.cand = c]  OBVIOUS
  <2>2. act' = [act EXCEPT ![a] = y]  BY <1>1, <1>2, <1>7, <2>1
  <2>3. CASE c # None /\ cand[c].status # "none"
    <3>1. c \in Candidate  BY <2>3, MergeTypes
    <3>2. y \in Act /\ ActInv(y) /\ y.pc = "giveup"
      BY <2>1, <2>3, <3>1, <1>5, <1>6, GivenUpInv
    <3> QED  BY <2>2, <3>2, FaultsStay, ActOnly DEF Fails, Rolls
  <2>4. CASE act[a].pc = "next"
    <3>1. c \in Candidate /\ cand[c].status # "none"
      BY <2>4, <1>1, MergeTypes DEF ActInv
    <3> QED  BY <2>3, <3>1, Numbers
  <2>5. CASE act[a].pc # "next"
    <3>1. act[a].cand # None /\ cand[act[a].cand].status # "none"
      BY <2>5, <1>7, MergeTypes DEF ActInv, HasCandidate
    <3> QED  BY <2>3, <2>5, <3>1, <1>1
  <2> QED  BY <2>4, <2>5
<1>8. CASE ~(act[a].phase \in {"backlog", "expire"} /\ act[a].pc # "giveup")
  <2>1. act' = [act EXCEPT ![a] = x]  BY <1>1, <1>2, <1>8
  <2> QED  BY <2>1, <1>5, <1>6, FaultsStay, ActOnly DEF Fails, Rolls
<1> QED  BY <1>7, <1>8

-----------------------------------------------------------------------------
(* Steps that write rows.                                                  *)

LEMMA OthersStay ==
    ASSUME MergeInv, act' \in [Actors -> Act], early \subseteq early',
           \A b \in Actors : act'[b] = act[b] \/ ActInv(act[b])',
           \A c \in Candidate : cand[c].status # "none" =>
                cand'[c].status # "none" /\ cand'[c].ids = cand[c].ids,
           \A e \in Event : event[e].state # "none" =>
                /\ event'[e].state # "none" /\ event'[e].survivor = event[e].survivor
                /\ event'[e].originals = event[e].originals,
           \A b \in Actors : act'[b].pc \in {"survivor", "absorb"} => Stands(act[b].event)',
           \A b \in Actors : act'[b].pc \in Rolls => \A m \in Memory :
                (mem'[m].into # None /\ hiddenBy'[m] = act'[b].event) =>
                    (mem[m].into # None /\ hiddenBy[m] = act'[b].event) \/ act'[b].event \in early'
    PROVE  \A b \in Actors : ActInv(act[b])'
<1> SUFFICES ASSUME NEW b \in Actors, act'[b] = act[b]  PROVE ActInv(act[b])'
  OBVIOUS
<1>1. PICK x : x = act[b]  OBVIOUS
<1>2. x \in Act /\ ActInv(x)  BY <1>1, MergeTypes
<1>3. x = act'[b]  BY <1>1
<1>4. x.pc \in {"survivor", "absorb"} => Stands(x.event)'
  BY <1>3 DEF Stands
<1>5. ActInv(x)'  BY <1>2, <1>3, <1>4, ActStable
<1> QED  BY <1>3, <1>5

\* A step that starts neither a merge's writes nor a rollback.
LEMMA OvertakenStays ==
    ASSUME MergeInv, early \subseteq early',
           \A b \in Actors : act'[b].pc \in {"survivor", "absorb"} =>
                act[b].pc \in {"survivor", "absorb"} /\ act[b].event = act'[b].event,
           \A b \in Actors : act'[b].pc \in Rolls =>
                act[b].pc \in Rolls /\ act[b].event = act'[b].event
    PROVE  Overtaken'
<1> SUFFICES ASSUME NEW b \in Actors, NEW d \in Actors,
                    act'[b].pc \in {"survivor", "absorb"}, act'[d].pc \in Rolls,
                    act'[b].event = act'[d].event
             PROVE  act'[b].event \in early'
  BY DEF Overtaken
<1> QED  BY DEF MergeInv, Overtaken

LEMMA StepUpdateSurvivor ==
    ASSUME MergeInv, NEW a \in Actors, UpdateSurvivor(a)
    PROVE  MergeInv'
<1>1. PICK y : y = [act[a] EXCEPT !.pc = "absorb", !.merged = NoText]  OBVIOUS
<1>2. act' = [act EXCEPT ![a] = y]  BY <1>1, MergeTypes DEF UpdateSurvivor
<1>3. act[a].pc = "survivor" /\ act[a].survivor \in Memory /\ act[a].merged \in Text
  BY MergeTypes DEF UpdateSurvivor, ActInv, Merges, HoldsText
<1>4. y \in Act /\ y.pc = "absorb" /\ y.cand = act[a].cand /\ y.ids = act[a].ids
      /\ y.survivor = act[a].survivor /\ y.event = act[a].event /\ y.list = act[a].list
      /\ y.phase = act[a].phase
  BY <1>1, MergeTypes DEF Act, PCs
<1>5. act' \in [Actors -> Act] /\ \A b \in Actors : act'[b] = IF b = a THEN y ELSE act[b]
  BY <1>2, <1>4, MergeTypes
<1>6. /\ mem' \in [Memory -> Row]
      /\ \A m \in Memory : mem'[m].into = mem[m].into
  BY <1>3 DEF UpdateSurvivor, MergeInv, TypeOK, Row
<1>7. UNCHANGED <<event, cand, hiddenBy, early, faults>>  BY DEF UpdateSurvivor
<1>8. TypeOK'  BY <1>5, <1>6, <1>7 DEF MergeInv, TypeOK
<1>9. ActInv(act[a])'
  <2>1. ActInv(y)'
    BY <1>3, <1>4, <1>7, MergeTypes
    DEF ActInv, HasCandidate, HoldsCandidate, HoldsText, HoldsEvent, RollsBack, Merges, Rolls,
        Absorbed, Stands
  <2> QED  BY <2>1, <1>5
<1>10. \A b \in Actors : act'[b].pc \in {"survivor", "absorb"} => Stands(act[b].event)'
  BY <1>3, <1>4, <1>5, <1>7, MergeTypes DEF ActInv, HoldsEvent, Stands
<1>11. \A b \in Actors : ActInv(act[b])'
  BY <1>5, <1>6, <1>7, <1>9, <1>10, OthersStay
<1>12. Overtaken'  BY <1>3, <1>4, <1>5, <1>7, OvertakenStays DEF Rolls
<1> QED
  BY <1>6, <1>7, <1>8, <1>11, <1>12
  DEF MergeInv, EventsWhole, CandidatesWhole, Recoverable, ApprovedWasMerged, Recorded, Absorbed

LEMMA StepRevert ==
    ASSUME MergeInv, NEW a \in Actors, Revert(a)
    PROVE  MergeInv'
<1>1. PICK y : y = [act[a] EXCEPT !.pc = "undo"]  OBVIOUS
<1>2. act' = [act EXCEPT ![a] = y]  BY <1>1, MergeTypes DEF Revert
<1>3. act[a].pc = "revert" /\ act[a].survivor \in Memory /\ act[a].merged \in Text
  BY MergeTypes DEF Revert, ActInv, Rolls, RollsBack, HoldsText, MergeInv, EventsWhole, Recorded
<1>4. y \in Act /\ y.pc = "undo" /\ y.cand = act[a].cand /\ y.todo = act[a].todo
      /\ y.survivor = act[a].survivor /\ y.event = act[a].event /\ y.list = act[a].list
      /\ y.phase = act[a].phase
  BY <1>1, MergeTypes DEF Act, PCs
<1>5. act' \in [Actors -> Act] /\ \A b \in Actors : act'[b] = IF b = a THEN y ELSE act[b]
  BY <1>2, <1>4, MergeTypes
<1>6. /\ mem' \in [Memory -> Row]
      /\ \A m \in Memory : mem'[m].into = mem[m].into
  BY <1>3 DEF Revert, MergeInv, TypeOK, Row
<1>7. UNCHANGED <<event, cand, hiddenBy, early, faults>>  BY DEF Revert
<1>8. TypeOK'  BY <1>5, <1>6, <1>7 DEF MergeInv, TypeOK
<1>9. ActInv(act[a])'
  <2>1. ActInv(y)'
    BY <1>3, <1>4, <1>6, <1>7, MergeTypes
    DEF ActInv, HasCandidate, HoldsCandidate, HoldsText, HoldsEvent, RollsBack, Merges, Rolls,
        Absorbed, Stands
  <2> QED  BY <2>1, <1>5
<1>10. \A b \in Actors : act'[b].pc \in {"survivor", "absorb"} => Stands(act[b].event)'
  BY <1>3, <1>4, <1>5, <1>7, MergeTypes DEF ActInv, HoldsEvent, Stands
<1>11. \A b \in Actors : ActInv(act[b])'
  BY <1>5, <1>6, <1>7, <1>9, <1>10, OthersStay
<1>12. Overtaken'  BY <1>3, <1>4, <1>5, <1>7, OvertakenStays DEF Rolls
<1> QED
  BY <1>6, <1>7, <1>8, <1>11, <1>12
  DEF MergeInv, EventsWhole, CandidatesWhole, Recoverable, ApprovedWasMerged, Recorded, Absorbed

LEMMA StepAbsorb ==
    ASSUME MergeInv, NEW a \in Actors, Absorb(a)
    PROVE  MergeInv'
<1> DEFINE gone == act[a].ids \ {act[a].survivor}
           ev == act[a].event
<1>1. /\ act[a].pc = "absorb" /\ act[a].survivor \in Memory /\ ev \in Event
      /\ event[ev].state # "none" /\ event[ev].survivor = act[a].survivor
      /\ Absorbed(ev) = gone /\ Stands(ev) /\ act[a].survivor \in act[a].ids
  BY MergeTypes DEF Absorb, ActInv, Merges, HoldsEvent
<1>2. PICK y : y = AfterMerge(a)  OBVIOUS
<1>3. act' = [act EXCEPT ![a] = y]  BY <1>2 DEF Absorb
<1>4. /\ mem' = [m \in Memory |-> IF m \in gone
                      THEN [mem[m] EXCEPT !.into = act[a].survivor] ELSE mem[m]]
      /\ hiddenBy' = [m \in Memory |-> IF m \in gone THEN ev ELSE hiddenBy[m]]
  BY DEF Absorb
<1>5. /\ mem' \in [Memory -> Row] /\ hiddenBy' \in [Memory -> Event \cup {None}]
      /\ \A m \in Memory :
            IF m \in gone THEN mem'[m].into = act[a].survivor /\ hiddenBy'[m] = ev
                          ELSE mem'[m].into = mem[m].into /\ hiddenBy'[m] = hiddenBy[m]
  BY <1>1, <1>4 DEF MergeInv, TypeOK, Row
<1> HIDE DEF gone, ev
<1>6. UNCHANGED <<event, cand, early, faults>>  BY DEF Absorb
<1>7. y \in Act /\ ActInv(y)' /\ y.pc \in {"idle", "next", "decide"}
  <2>1. PICK r : r = Rest(a)  OBVIOUS
  <2>2. r \in Act /\ ActInv(r) /\ r.pc \in {"idle", "next"} /\ r.list \subseteq act[a].list
        /\ (r.pc = "idle" => r.phase = "request")
    BY <2>1, RestInv DEF Rest, Idle
  <2>3. CASE act[a].cand = None
    <3>1. y = r  BY <2>1, <2>3, <1>2 DEF AfterMerge
    <3> QED
      BY <3>1, <2>2, <1>6
      DEF ActInv, HasCandidate, HoldsCandidate, HoldsText, HoldsEvent, RollsBack, Merges, Rolls
  <2>4. CASE act[a].cand # None
    <3>1. y = [r EXCEPT !.pc = "decide", !.cand = act[a].cand]
      BY <2>1, <2>4, <1>2 DEF AfterMerge
    <3>2. y \in Act /\ y.pc = "decide" /\ y.cand = act[a].cand /\ y.list = r.list
      BY <3>1, <2>2, MergeTypes DEF Act, PCs
    <3>3. act[a].cand \in Candidate /\ cand[act[a].cand].status # "none"
          /\ act[a].ids = cand[act[a].cand].ids
      BY <2>4, <1>1, MergeTypes DEF ActInv, HoldsCandidate, Merges
    <3>4. Absorbed(ev) \cup {event[ev].survivor} = cand[act[a].cand].ids
      BY <1>1, <3>3 DEF gone
    <3>5. WasMerged(y.cand)'
      BY <3>2, <3>4, <1>1, <1>6 DEF WasMerged, Recorded, Absorbed
    <3> QED
      BY <3>2, <3>3, <3>5, <2>2, <2>4, <1>6
      DEF ActInv, HasCandidate, HoldsCandidate, HoldsText, HoldsEvent, RollsBack, Merges, Rolls
  <2> QED  BY <2>3, <2>4
<1>8. act' \in [Actors -> Act] /\ \A b \in Actors : act'[b] = IF b = a THEN y ELSE act[b]
  BY <1>3, <1>7, MergeTypes
<1>9. TypeOK'  BY <1>5, <1>6, <1>8 DEF MergeInv, TypeOK
<1>10. ActInv(act[a])'  BY <1>7, <1>8
<1>11. \A b \in Actors : act'[b].pc \in {"survivor", "absorb"} => Stands(act[b].event)'
  BY <1>6, <1>7, <1>8, MergeTypes DEF ActInv, HoldsEvent, Stands
<1>12. \A b \in Actors : act'[b].pc \in Rolls => \A m \in Memory :
                (mem'[m].into # None /\ hiddenBy'[m] = act'[b].event) =>
                    (mem[m].into # None /\ hiddenBy[m] = act'[b].event) \/ act'[b].event \in early'
  <2> SUFFICES ASSUME NEW b \in Actors, act'[b].pc \in Rolls, NEW m \in Memory, m \in gone,
                      hiddenBy'[m] = act'[b].event
               PROVE  act'[b].event \in early
    BY <1>5, <1>6
  <2>1. act[b].pc \in Rolls /\ act[b].event = ev
    BY <1>5, <1>7, <1>8 DEF Rolls
  <2> QED  BY <2>1, <1>1, <1>5 DEF MergeInv, Overtaken, ev
<1>13. \A b \in Actors : ActInv(act[b])'
  BY <1>6, <1>8, <1>10, <1>11, <1>12, OthersStay
<1>14. Overtaken'  BY <1>6, <1>7, <1>8, OvertakenStays DEF Rolls
<1>15. Recoverable'
  <2> SUFFICES ASSUME NEW m \in Memory, mem'[m].into # None
               PROVE  /\ hiddenBy'[m] # None
                      /\ event[hiddenBy'[m]].survivor = mem'[m].into
                      /\ m \in Absorbed(hiddenBy'[m])
                      /\ Stands(hiddenBy'[m])
    BY <1>6 DEF Recoverable, Stands, Absorbed
  <2>1. CASE m \in gone
    BY <2>1, <1>1, <1>5, Numbers
  <2>2. CASE m \notin gone
    BY <2>2, <1>5 DEF MergeInv, Recoverable, Stands
  <2> QED  BY <2>1, <2>2
<1> QED
  BY <1>6, <1>9, <1>13, <1>14, <1>15
  DEF MergeInv, EventsWhole, CandidatesWhole, ApprovedWasMerged, Recorded, Absorbed

LEMMA StepRestore ==
    ASSUME MergeInv, NEW a \in Actors, Restore(a)
    PROVE  MergeInv'
<1> DEFINE ev == act[a].event
<1>1. /\ act[a].pc = "restore" /\ ev \in Event /\ event[ev].state # "none"
      /\ act[a].survivor = event[ev].survivor /\ act[a].todo \subseteq Absorbed(ev)
      /\ \A m \in Memory \ act[a].todo :
            (mem[m].into # None /\ hiddenBy[m] = ev) => ev \in early
  BY MergeTypes DEF Restore, ActInv, Rolls, RollsBack
<1>2. PICK m \in act[a].todo :
          /\ mem' = [mem EXCEPT ![m] = [into |-> None, text |-> event[ev].originals[m]]]
          /\ LET left == act[a].todo \ {m}
             IN  act' = [act EXCEPT ![a] = [@ EXCEPT !.todo = left,
                           !.pc = IF left # {} THEN "restore"
                                  ELSE IF event[act[a].event].changed THEN "premerge" ELSE "undo"]]
  BY DEF Restore
<1>3. m \in Memory /\ event[ev].originals[m] \in Text
  BY <1>1, <1>2, MergeTypes DEF Absorbed, MergeInv, TypeOK, EventRow
<1>4. PICK p \in {"restore", "premerge", "undo"} :
          /\ act' = [act EXCEPT ![a] = [act[a] EXCEPT !.todo = act[a].todo \ {m}, !.pc = p]]
          /\ p # "restore" => act[a].todo \ {m} = {}
  <2>1. CASE act[a].todo \ {m} # {}  BY <2>1, <1>2, MergeTypes
  <2>2. CASE act[a].todo \ {m} = {} /\ event[act[a].event].changed  BY <2>2, <1>2, MergeTypes
  <2>3. CASE act[a].todo \ {m} = {} /\ ~event[act[a].event].changed  BY <2>3, <1>2, MergeTypes
  <2> QED  BY <2>1, <2>2, <2>3
<1>15. PICK y : y = [act[a] EXCEPT !.todo = act[a].todo \ {m}, !.pc = p]  OBVIOUS
<1>5. y \in Act /\ y.pc = p /\ y.cand = act[a].cand /\ y.todo = act[a].todo \ {m}
      /\ y.survivor = act[a].survivor /\ y.event = ev /\ y.list = act[a].list
      /\ y.phase = act[a].phase
  BY <1>15, MergeTypes DEF Act, PCs
<1> HIDE DEF ev
<1>6. act' \in [Actors -> Act] /\ \A b \in Actors : act'[b] = IF b = a THEN y ELSE act[b]
  BY <1>4, <1>5, <1>15, MergeTypes
<1>7. /\ mem' \in [Memory -> Row]
      /\ mem'[m].into = None
      /\ \A k \in Memory \ {m} : mem'[k] = mem[k]
  BY <1>2, <1>3, Numbers DEF MergeInv, TypeOK, Row
<1>8. UNCHANGED <<event, cand, hiddenBy, early, faults>>  BY DEF Restore
<1>9. TypeOK'  BY <1>6, <1>7, <1>8 DEF MergeInv, TypeOK
<1>10. ActInv(act[a])'
  <2>1. \A k \in Memory \ y.todo :
            (mem'[k].into # None /\ hiddenBy'[k] = ev) => ev \in early
    BY <1>1, <1>5, <1>7, <1>8
  <2>2. RollsBack(y)'
    BY <2>1, <1>1, <1>4, <1>5, <1>8 DEF RollsBack, Absorbed
  <2>3. ActInv(y)'
    BY <2>2, <1>1, <1>5, <1>8, MergeTypes
    DEF ActInv, HasCandidate, HoldsCandidate, HoldsText, HoldsEvent, Merges, Rolls
  <2> QED  BY <2>3, <1>6
<1>11. \A b \in Actors : act'[b].pc \in {"survivor", "absorb"} => Stands(act[b].event)'
  BY <1>5, <1>6, <1>8, MergeTypes DEF ActInv, HoldsEvent, Stands
<1>12. \A k \in Memory : mem'[k].into # None => mem'[k].into = mem[k].into
  BY <1>7
<1>13. \A b \in Actors : ActInv(act[b])'
  BY <1>6, <1>8, <1>10, <1>11, <1>12, OthersStay
<1>14. Overtaken'  BY <1>1, <1>5, <1>6, <1>8, OvertakenStays DEF Rolls, ev
<1> QED
  BY <1>8, <1>9, <1>12, <1>13, <1>14
  DEF MergeInv, EventsWhole, CandidatesWhole, Recoverable, ApprovedWasMerged, Recorded, Absorbed

LEMMA StepRecord ==
    ASSUME MergeInv, NEW a \in Actors, Record(a)
    PROVE  MergeInv'
<1>1. act[a].pc = "record" /\ act[a].survivor \in Memory /\ act[a].survivor \in act[a].ids
      /\ act[a].merged \in Text
      /\ \A m \in Memory : act[a].originals[m] # NoText <=> m \in act[a].ids \ {act[a].survivor}
  BY MergeTypes DEF Record, ActInv, Merges, HoldsText
<1>2. PICK e \in Event :
          /\ event[e].state = "none"
          /\ event' = [event EXCEPT ![e] =
                         [state |-> "done", survivor |-> act[a].survivor,
                          originals |-> act[a].originals, merged |-> act[a].merged,
                          changed |-> act[a].changed]]
          /\ act' = [act EXCEPT ![a] = [@ EXCEPT !.pc = "survivor", !.event = e,
                                            !.changed = FALSE, !.originals = NoTexts]]
  BY DEF Record
<1>3. PICK r : r = [state |-> "done", survivor |-> act[a].survivor,
                    originals |-> act[a].originals, merged |-> act[a].merged,
                    changed |-> act[a].changed]
  OBVIOUS
<1>4. r \in EventRow /\ r.state = "done" /\ r.survivor = act[a].survivor
      /\ r.originals = act[a].originals /\ r.merged = act[a].merged
  BY <1>1, <1>3, MergeTypes DEF EventRow
<1>5. /\ event' \in [Event -> EventRow]
      /\ \A d \in Event : event'[d] = IF d = e THEN r ELSE event[d]
  BY <1>2, <1>3, <1>4 DEF MergeInv, TypeOK
<1>6. PICK y : y = [act[a] EXCEPT !.pc = "survivor", !.event = e, !.changed = FALSE,
                                  !.originals = NoTexts]
  OBVIOUS
<1>7. act' = [act EXCEPT ![a] = y]  BY <1>2, <1>6, MergeTypes
<1>8. NoTexts \in [Memory -> Text \cup {NoText}]  BY DEF NoTexts
<1>9. y \in Act /\ y.pc = "survivor" /\ y.cand = act[a].cand /\ y.ids = act[a].ids
      /\ y.survivor = act[a].survivor /\ y.event = e /\ y.list = act[a].list
      /\ y.phase = act[a].phase /\ y.merged = act[a].merged
  BY <1>6, <1>8, MergeTypes DEF Act, PCs
<1>10. act' \in [Actors -> Act] /\ \A b \in Actors : act'[b] = IF b = a THEN y ELSE act[b]
  BY <1>7, <1>9, MergeTypes
<1>11. UNCHANGED <<mem, cand, hiddenBy, early, faults>>  BY DEF Record
<1>12. TypeOK'  BY <1>5, <1>10, <1>11 DEF MergeInv, TypeOK
<1>13. Absorbed(e)' = act[a].ids \ {act[a].survivor}
  BY <1>1, <1>4, <1>5, MergeTypes DEF Absorbed
<1>14. ActInv(act[a])'
  <2>1. HoldsEvent(y)'
    BY <1>4, <1>5, <1>9, <1>13 DEF HoldsEvent, Stands
  <2>2. ActInv(y)'
    BY <2>1, <1>1, <1>9, <1>11, MergeTypes
    DEF ActInv, HasCandidate, HoldsCandidate, HoldsText, RollsBack, Merges, Rolls
  <2> QED  BY <2>2, <1>10
<1>15. \A d \in Event : event[d].state # "none" => event'[d] = event[d]
  BY <1>2, <1>5
<1>16. \A b \in Actors : act'[b].pc \in {"survivor", "absorb"} => Stands(act[b].event)'
  <2> SUFFICES ASSUME NEW b \in Actors, act'[b].pc \in {"survivor", "absorb"}
               PROVE  Stands(act[b].event)'
    OBVIOUS
  <2>1. CASE b = a  BY <2>1, <1>4, <1>5, <1>9, <1>10 DEF Stands
  <2>2. CASE b # a
    BY <2>2, <1>10, <1>11, <1>15, MergeTypes DEF ActInv, HoldsEvent, Stands
  <2> QED  BY <2>1, <2>2
<1>17. \A b \in Actors : ActInv(act[b])'
  BY <1>10, <1>11, <1>14, <1>15, <1>16, OthersStay, Numbers DEF MergeInv, TypeOK, EventRow
<1>18. Overtaken'
  <2> SUFFICES ASSUME NEW b \in Actors, NEW d \in Actors,
                      act'[b].pc \in {"survivor", "absorb"}, act'[d].pc \in Rolls,
                      act'[b].event = act'[d].event
               PROVE  act'[b].event \in early
    BY <1>11 DEF Overtaken
  <2>1. d # a /\ act'[d] = act[d]  BY <1>9, <1>10 DEF Rolls
  <2>2. event[act[d].event].state # "none"  BY <2>1, MergeTypes DEF ActInv, RollsBack
  <2>3. b # a /\ act'[b] = act[b]  BY <2>1, <2>2, <1>2, <1>9, <1>10
  <2> QED  BY <2>1, <2>3 DEF MergeInv, Overtaken
<1>19. EventsWhole'
  BY <1>1, <1>4, <1>5, <1>11, <1>15 DEF MergeInv, EventsWhole, Recorded
<1>20. Recoverable'
  <2> SUFFICES ASSUME NEW m \in Memory, mem[m].into # None, NEW d, d = hiddenBy[m]
               PROVE  /\ d # None /\ event'[d].survivor = mem[m].into /\ m \in Absorbed(d)'
                      /\ event'[d].state = "done" \/ d \in early
    BY <1>11 DEF Recoverable
  <2>1. /\ d # None /\ event[d].survivor = mem[m].into /\ m \in Absorbed(d)
        /\ event[d].state = "done" \/ d \in early
    BY DEF MergeInv, Recoverable
  <2>2. d \in Event /\ event[d].state # "none"
    BY <2>1 DEF MergeInv, TypeOK, EventsWhole, Recorded
  <2>3. event'[d] = event[d] /\ Absorbed(d)' = Absorbed(d)
    BY <2>2, <1>15 DEF Absorbed
  <2> QED  BY <2>1, <2>3
<1>21. ApprovedWasMerged'
  <2> SUFFICES ASSUME NEW c \in Candidate, cand[c].status = "APPROVED", ~cand[c].failed
               PROVE  \E d \in Recorded' : Absorbed(d)' \cup {event'[d].survivor} = cand[c].ids
    BY <1>11 DEF ApprovedWasMerged
  <2>1. PICK d \in Recorded : Absorbed(d) \cup {event[d].survivor} = cand[c].ids
    BY DEF MergeInv, ApprovedWasMerged
  <2> QED  BY <2>1, <1>15 DEF Recorded, Absorbed
<1> QED
  BY <1>11, <1>12, <1>17, <1>18, <1>19, <1>20, <1>21 DEF MergeInv, CandidatesWhole

LEMMA StepUndo ==
    ASSUME MergeInv, NEW a \in Actors, Undo(a)
    PROVE  MergeInv'
<1> DEFINE ev == act[a].event
<1>1. /\ act[a].pc = "undo" /\ ev \in Event /\ event[ev].state # "none"
      /\ \A m \in Memory : (mem[m].into # None /\ hiddenBy[m] = ev) => ev \in early
  BY MergeTypes DEF Undo, ActInv, Rolls, RollsBack
<1>2. event' = [event EXCEPT ![ev].state = "undone"] /\ act' = [act EXCEPT ![a] = Idle]
  BY DEF Undo
<1>3. /\ event' \in [Event -> EventRow] /\ event'[ev].state = "undone"
      /\ \A d \in Event \ {ev} : event'[d] = event[d]
      /\ \A d \in Event : /\ event'[d].survivor = event[d].survivor
                           /\ event'[d].originals = event[d].originals
                           /\ event'[d].merged = event[d].merged
  BY <1>1, <1>2 DEF MergeInv, TypeOK, EventRow
<1> HIDE DEF ev
<1>4. act' \in [Actors -> Act] /\ \A b \in Actors : act'[b] = IF b = a THEN Idle ELSE act[b]
  BY <1>2, IdleInv, MergeTypes
<1>5. UNCHANGED <<mem, cand, hiddenBy, early, faults>>  BY DEF Undo
<1>6. TypeOK'  BY <1>3, <1>4, <1>5 DEF MergeInv, TypeOK
<1>7. ActInv(act[a])'
  <2>1. PICK y : y = Idle  OBVIOUS
  <2>2. y.pc = "idle" /\ y.list = {} /\ y.phase = "request"  BY <2>1, IdleInv
  <2>3. ActInv(y)'
    BY <2>2 DEF ActInv, HasCandidate, HoldsCandidate, HoldsText, HoldsEvent, RollsBack, Merges, Rolls
  <2> QED  BY <2>1, <2>3, <1>4
<1>8. \A d \in Event : event[d].state # "none" => event'[d].state # "none"
  BY <1>3
<1>9. \A d \in Event : Absorbed(d)' = Absorbed(d)  BY <1>3 DEF Absorbed
<1>10. \A b \in Actors : act'[b].pc \in {"survivor", "absorb"} => Stands(act[b].event)'
  <2> SUFFICES ASSUME NEW b \in Actors, act'[b].pc \in {"survivor", "absorb"}
               PROVE  Stands(act[b].event)'
    OBVIOUS
  <2>1. act'[b] = act[b]  BY <1>4, IdleInv
  <2>2. act[b].event \in Event /\ Stands(act[b].event)
    BY <2>1, MergeTypes DEF ActInv, HoldsEvent
  <2>3. CASE act[b].event # ev  BY <2>1, <2>2, <2>3, <1>3, <1>5 DEF Stands
  <2>4. CASE act[b].event = ev
    <3>1. act[b].event \in early
      BY <2>1, <2>4, <1>1 DEF MergeInv, Overtaken, Rolls, ev
    <3> QED  BY <3>1, <2>1, <1>5 DEF Stands
  <2> QED  BY <2>3, <2>4
<1>11. \A b \in Actors : ActInv(act[b])'
  BY <1>3, <1>4, <1>5, <1>7, <1>8, <1>10, OthersStay
<1>12. Overtaken'  BY <1>4, <1>5, IdleInv, OvertakenStays DEF Rolls
<1>13. EventsWhole'
  BY <1>1, <1>3, <1>5, <1>8 DEF MergeInv, EventsWhole, Recorded
<1>14. Recoverable'
  <2> SUFFICES ASSUME NEW m \in Memory, mem[m].into # None, NEW d, d = hiddenBy[m]
               PROVE  /\ d # None /\ event'[d].survivor = mem[m].into /\ m \in Absorbed(d)'
                      /\ event'[d].state = "done" \/ d \in early
    BY <1>5 DEF Recoverable
  <2>1. /\ d # None /\ event[d].survivor = mem[m].into /\ m \in Absorbed(d)
        /\ event[d].state = "done" \/ d \in early
    BY DEF MergeInv, Recoverable
  <2>2. d \in Event  BY <2>1 DEF MergeInv, TypeOK
  <2>3. CASE d = ev
    <3>1. d \in early  BY <2>1, <2>3, <1>1
    <3> QED  BY <2>1, <2>2, <3>1, <1>3, <1>9
  <2>4. CASE d # ev
    <3>1. event'[d] = event[d]  BY <2>2, <2>4, <1>3
    <3> QED  BY <2>1, <2>2, <3>1, <1>9
  <2> QED  BY <2>3, <2>4
<1>15. ApprovedWasMerged'
  <2> SUFFICES ASSUME NEW c \in Candidate, cand[c].status = "APPROVED", ~cand[c].failed
               PROVE  \E d \in Recorded' : Absorbed(d)' \cup {event'[d].survivor} = cand[c].ids
    BY <1>5 DEF ApprovedWasMerged
  <2>1. PICK d \in Recorded : Absorbed(d) \cup {event[d].survivor} = cand[c].ids
    BY DEF MergeInv, ApprovedWasMerged
  <2> QED  BY <2>1, <1>3, <1>8, <1>9 DEF Recorded
<1> QED
  BY <1>5, <1>6, <1>11, <1>12, <1>13, <1>14, <1>15 DEF MergeInv, CandidatesWhole

-----------------------------------------------------------------------------
(* Steps that write candidates.                                            *)

\* A candidate's memories and survivor never change, and it is approved only when merged.
LEMMA CandidateStep ==
    ASSUME MergeInv, act' \in [Actors -> Act],
           \A b \in Actors : act'[b] = act[b] \/ ActInv(act[b])',
           \A b \in Actors : act'[b].pc \in {"survivor", "absorb"} \cup Rolls => act'[b] = act[b],
           UNCHANGED <<mem, event, hiddenBy, early, faults>>,
           NEW c \in Candidate, NEW r \in CandidateRow, cand' = [cand EXCEPT ![c] = r],
           r.status # "none", r.survivor \in r.ids,
           cand[c].status # "none" => r.ids = cand[c].ids,
           r.status = "APPROVED" =>
              \/ r.failed
              \/ \E e \in Recorded : Absorbed(e) \cup {event[e].survivor} = r.ids
    PROVE  MergeInv'
<1>1. /\ cand' \in [Candidate -> CandidateRow]
      /\ \A d \in Candidate : cand'[d] = IF d = c THEN r ELSE cand[d]
  BY DEF MergeInv, TypeOK
<1>2. TypeOK'  BY <1>1 DEF MergeInv, TypeOK
<1>3. \A b \in Actors : act'[b].pc \in {"survivor", "absorb"} => Stands(act[b].event)'
  <2> SUFFICES ASSUME NEW b \in Actors, act'[b].pc \in {"survivor", "absorb"}
               PROVE  Stands(act[b].event)'
    OBVIOUS
  <2>1. act'[b] = act[b]  OBVIOUS
  <2> QED  BY <2>1, MergeTypes DEF ActInv, HoldsEvent, Stands
<1>4. \A b \in Actors : ActInv(act[b])'
  BY <1>1, <1>3, OthersStay
<1>5. Overtaken'  BY OvertakenStays
<1>6. CandidatesWhole'  BY <1>1 DEF MergeInv, CandidatesWhole
<1>7. ApprovedWasMerged'  BY <1>1 DEF MergeInv, ApprovedWasMerged, Recorded, Absorbed
<1> QED
  BY <1>2, <1>4, <1>5, <1>6, <1>7 DEF MergeInv, EventsWhole, Recoverable, Recorded, Absorbed

\* A status is written over a candidate that exists.
LEMMA StatusStep ==
    ASSUME MergeInv, act' \in [Actors -> Act],
           \A b \in Actors : act'[b] = act[b] \/ ActInv(act[b])',
           \A b \in Actors : act'[b].pc \in {"survivor", "absorb"} \cup Rolls => act'[b] = act[b],
           UNCHANGED <<mem, event, hiddenBy, early, faults>>,
           NEW c \in Candidate, cand[c].status # "none",
           NEW v \in {"APPROVED", "REJECTED", "SKIPPED"}, NEW f \in BOOLEAN,
           cand' = [cand EXCEPT ![c] = [@ EXCEPT !.status = v, !.failed = f]],
           v = "APPROVED" => f \/ WasMerged(c)
    PROVE  MergeInv'
<1>1. PICK r : r = [cand[c] EXCEPT !.status = v, !.failed = f]  OBVIOUS
<1>2. cand[c] \in CandidateRow /\ cand \in [Candidate -> CandidateRow]
  BY DEF MergeInv, TypeOK
<1>3. cand' = [cand EXCEPT ![c] = r]  BY <1>1, <1>2
<1>4. r \in CandidateRow /\ r.status = v /\ r.failed = f /\ r.ids = cand[c].ids
      /\ r.survivor = cand[c].survivor
  BY <1>1, <1>2 DEF CandidateRow
<1>5. r.survivor \in r.ids  BY <1>4 DEF MergeInv, CandidatesWhole
<1>6. r.status = "APPROVED" =>
              \/ r.failed
              \/ \E e \in Recorded : Absorbed(e) \cup {event[e].survivor} = r.ids
  BY <1>4 DEF WasMerged
<1> QED  BY <1>3, <1>4, <1>5, <1>6, CandidateStep

\* An actor that comes to rest while candidates, and nothing else, change.
LEMMA RestingStep ==
    ASSUME MergeInv, NEW a \in Actors, NEW y \in Act, ActInv(y), y.pc \in {"idle", "next"},
           act' = [act EXCEPT ![a] = y],
           \A c \in Candidate : cand[c].status # "none" => cand'[c].status # "none"
    PROVE  /\ act' \in [Actors -> Act]
           /\ \A b \in Actors : act'[b] = act[b] \/ ActInv(act[b])'
           /\ \A b \in Actors : act'[b].pc \in {"survivor", "absorb"} \cup Rolls => act'[b] = act[b]
<1>1. act' \in [Actors -> Act] /\ \A b \in Actors : act'[b] = IF b = a THEN y ELSE act[b]
  BY MergeTypes
<1>2. y.list \subseteq Candidate /\ y.cand \in Candidate \cup {None}  BY DEF Act
<1>3. ActInv(y)'
  BY <1>2, Numbers DEF ActInv, HasCandidate, HoldsCandidate, HoldsText, HoldsEvent, RollsBack, Merges, Rolls
<1>4. ActInv(act[a])'  BY <1>1, <1>3
<1> QED  BY <1>1, <1>4 DEF Rolls

LEMMA StepCreateCandidate ==
    ASSUME MergeInv, NEW a \in Actors, CreateCandidate(a)
    PROVE  MergeInv'
<1>1. PICK c \in Candidate, s \in act[a].ids, g \in Grades :
          /\ cand[c].status = "none"
          /\ cand' = [cand EXCEPT ![c] = [status |-> "PENDING", ids |-> act[a].ids,
                                          survivor |-> s, grade |-> g, failed |-> FALSE]]
  BY DEF CreateCandidate
<1>2. PICK r : r = [status |-> "PENDING", ids |-> act[a].ids, survivor |-> s, grade |-> g,
                    failed |-> FALSE]
  OBVIOUS
<1>3. r \in CandidateRow /\ r.status = "PENDING" /\ r.survivor \in r.ids
  BY <1>1, <1>2, MergeTypes DEF CandidateRow
<1>4. \A d \in Candidate : cand[d].status # "none" => cand'[d].status # "none"
  BY <1>1 DEF MergeInv, TypeOK
<1>5. act' = [act EXCEPT ![a] = Idle]  BY DEF CreateCandidate
<1>6. /\ act' \in [Actors -> Act]
      /\ \A b \in Actors : act'[b] = act[b] \/ ActInv(act[b])'
      /\ \A b \in Actors : act'[b].pc \in {"survivor", "absorb"} \cup Rolls => act'[b] = act[b]
  <2>1. PICK y : y = Idle  OBVIOUS
  <2> QED  BY <2>1, <1>4, <1>5, IdleInv, RestingStep
<1> QED  BY <1>1, <1>2, <1>3, <1>6, CandidateStep DEF CreateCandidate

LEMMA StepDecide ==
    ASSUME MergeInv, NEW a \in Actors, Decide(a)
    PROVE  MergeInv'
<1>1. PICK c : c = act[a].cand  OBVIOUS
<1>2. c \in Candidate /\ cand[c].status # "none" /\ WasMerged(c)
  BY <1>1, MergeTypes DEF Decide, ActInv
<1>3. PICK f : f = cand[c].failed  OBVIOUS
<1>4. f \in BOOLEAN  BY <1>2, <1>3 DEF MergeInv, TypeOK, CandidateRow
<1>5. cand' = [cand EXCEPT ![c] = [@ EXCEPT !.status = "APPROVED", !.failed = f]]
  BY <1>1, <1>2, <1>3 DEF Decide, MergeInv, TypeOK, CandidateRow
<1>6. \A d \in Candidate : cand[d].status # "none" => cand'[d].status # "none"
  BY <1>1, <1>2 DEF Decide, MergeInv, TypeOK, CandidateRow
<1>7. PICK y : y = Rest(a)  OBVIOUS
<1>8. act' = [act EXCEPT ![a] = y] /\ y \in Act /\ ActInv(y) /\ y.pc \in {"idle", "next"}
  BY <1>7, RestInv DEF Decide
<1>9. /\ act' \in [Actors -> Act]
      /\ \A b \in Actors : act'[b] = act[b] \/ ActInv(act[b])'
      /\ \A b \in Actors : act'[b].pc \in {"survivor", "absorb"} \cup Rolls => act'[b] = act[b]
  BY <1>6, <1>8, RestingStep
<1>10. UNCHANGED <<mem, event, hiddenBy, early, faults>>  BY DEF Decide
<1> QED  BY <1>2, <1>4, <1>5, <1>9, <1>10, StatusStep

LEMMA StepGiveUp ==
    ASSUME MergeInv, NEW a \in Actors, GiveUp(a)
    PROVE  MergeInv'
<1>1. PICK c : c = act[a].cand  OBVIOUS
<1>2. c \in Candidate /\ cand[c].status # "none"
  BY <1>1, MergeTypes DEF GiveUp, ActInv, HasCandidate
<1>3. cand' = [cand EXCEPT ![c] = [@ EXCEPT !.status = "APPROVED", !.failed = TRUE]]
  BY <1>1 DEF GiveUp
<1>4. \A d \in Candidate : cand[d].status # "none" => cand'[d].status # "none"
  BY <1>2, <1>3 DEF MergeInv, TypeOK, CandidateRow
<1>5. PICK y : y = Rest(a)  OBVIOUS
<1>6. act' = [act EXCEPT ![a] = y] /\ y \in Act /\ ActInv(y) /\ y.pc \in {"idle", "next"}
  BY <1>5, RestInv DEF GiveUp
<1>7. /\ act' \in [Actors -> Act]
      /\ \A b \in Actors : act'[b] = act[b] \/ ActInv(act[b])'
      /\ \A b \in Actors : act'[b].pc \in {"survivor", "absorb"} \cup Rolls => act'[b] = act[b]
  BY <1>4, <1>6, RestingStep
<1>8. UNCHANGED <<mem, event, hiddenBy, early, faults>>  BY DEF GiveUp
<1> QED  BY <1>2, <1>3, <1>7, <1>8, StatusStep

LEMMA StepWriteRejection ==
    ASSUME MergeInv, NEW a \in Actors, WriteRejection(a)
    PROVE  MergeInv'
<1>1. PICK c : c = act[a].cand  OBVIOUS
<1>2. c \in Candidate /\ cand[c].status # "none"
  BY <1>1, MergeTypes DEF WriteRejection, ActInv, HasCandidate
<1>3. PICK f : f = cand[c].failed  OBVIOUS
<1>4. f \in BOOLEAN  BY <1>2, <1>3 DEF MergeInv, TypeOK, CandidateRow
<1>5. cand' = [cand EXCEPT ![c] = [@ EXCEPT !.status = "REJECTED", !.failed = f]]
  BY <1>1, <1>2, <1>3 DEF WriteRejection, MergeInv, TypeOK, CandidateRow
<1>6. \A d \in Candidate : cand[d].status # "none" => cand'[d].status # "none"
  BY <1>1, <1>2 DEF WriteRejection, MergeInv, TypeOK, CandidateRow
<1>7. /\ act' \in [Actors -> Act]
      /\ \A b \in Actors : act'[b] = act[b] \/ ActInv(act[b])'
      /\ \A b \in Actors : act'[b].pc \in {"survivor", "absorb"} \cup Rolls => act'[b] = act[b]
  <2>1. PICK y : y = Idle  OBVIOUS
  <2> QED  BY <2>1, <1>6, IdleInv, RestingStep DEF WriteRejection
<1>8. UNCHANGED <<mem, event, hiddenBy, early, faults>>  BY DEF WriteRejection
<1> QED  BY <1>2, <1>4, <1>5, <1>7, <1>8, StatusStep

LEMMA StepSkip ==
    ASSUME MergeInv, NEW c \in Candidate, Skip(c)
    PROVE  MergeInv'
<1>1. PICK f : f = cand[c].failed  OBVIOUS
<1>2. f \in BOOLEAN  BY <1>1 DEF MergeInv, TypeOK, CandidateRow
<1>3. cand' = [cand EXCEPT ![c] = [@ EXCEPT !.status = "SKIPPED", !.failed = f]]
  BY <1>1 DEF Skip, MergeInv, TypeOK, CandidateRow
<1>4. UNCHANGED <<mem, event, act, hiddenBy, early, faults>> /\ cand[c].status # "none"
  BY DEF Skip
<1>5. act' \in [Actors -> Act]  BY <1>4 DEF MergeInv, TypeOK
<1> QED  BY <1>2, <1>3, <1>4, <1>5, StatusStep

-----------------------------------------------------------------------------
(* Rollbacks begin, restarts, and the theorem.                             *)

LEMMA StepRollback ==
    ASSUME MergeInv, NEW a \in Actors, NEW e \in Event, Rollback(a, e)
    PROVE  MergeInv'
<1>1. event[e].state = "done" /\ event[e].survivor \in Memory
  BY DEF Rollback, MergeInv, EventsWhole, Recorded
<1>2. PICK y : y = [Idle EXCEPT !.pc = "restore", !.event = e, !.survivor = event[e].survivor,
                                !.todo = Absorbed(e)]
  OBVIOUS
<1>3. act' = [act EXCEPT ![a] = y]  BY <1>2 DEF Rollback
<1>4. y \in Act /\ y.pc = "restore" /\ y.event = e /\ y.survivor = event[e].survivor
      /\ y.todo = Absorbed(e) /\ y.list = {} /\ y.phase = "request"
  BY <1>1, <1>2, IdleInv DEF Act, PCs, Absorbed
<1>5. act' \in [Actors -> Act] /\ \A b \in Actors : act'[b] = IF b = a THEN y ELSE act[b]
  BY <1>3, <1>4, MergeTypes
<1>6. UNCHANGED <<mem, event, cand, hiddenBy, faults>>  BY DEF Rollback
<1>7. early \subseteq early' /\ early' \subseteq early \cup {e}  BY DEF Rollback
<1>8. TypeOK'  BY <1>5, <1>6, <1>7 DEF MergeInv, TypeOK
<1>9. ActInv(act[a])'
  <2>1. \A m \in Memory \ Absorbed(e) : ~(mem[m].into # None /\ hiddenBy[m] = e)
    BY DEF MergeInv, Recoverable
  <2>2. RollsBack(y)'
    BY <2>1, <1>1, <1>4, <1>6 DEF RollsBack, Absorbed
  <2>3. ActInv(y)'
    BY <2>2, <1>4 DEF ActInv, HasCandidate, HoldsCandidate, HoldsText, HoldsEvent, Merges, Rolls
  <2> QED  BY <2>3, <1>5
<1>10. \A b \in Actors : act'[b].pc \in {"survivor", "absorb"} => Stands(act[b].event)'
  <2> SUFFICES ASSUME NEW b \in Actors, act'[b].pc \in {"survivor", "absorb"}
               PROVE  Stands(act[b].event)'
    OBVIOUS
  <2>1. act'[b] = act[b]  BY <1>4, <1>5
  <2> QED  BY <2>1, <1>6, <1>7, MergeTypes DEF ActInv, HoldsEvent, Stands
<1>11. \A b \in Actors : ActInv(act[b])'
  BY <1>5, <1>6, <1>7, <1>9, <1>10, OthersStay
<1>12. Overtaken'
  <2> SUFFICES ASSUME NEW b \in Actors, NEW d \in Actors,
                      act'[b].pc \in {"survivor", "absorb"}, act'[d].pc \in Rolls,
                      act'[b].event = act'[d].event
               PROVE  act'[b].event \in early'
    BY DEF Overtaken
  <2>1. b # a /\ act'[b] = act[b]  BY <1>4, <1>5
  <2>2. CASE d = a
    <3>1. act[b].event = e /\ act[b].pc \in {"survivor", "absorb"}
      BY <2>1, <2>2, <1>4, <1>5
    <3>2. early' = early \cup {e}  BY <3>1 DEF Rollback
    <3> QED  BY <3>1, <3>2, <2>1
  <2>3. CASE d # a
    BY <2>1, <2>3, <1>5, <1>7 DEF MergeInv, Overtaken
  <2> QED  BY <2>2, <2>3
<1>13. EventsWhole'  BY <1>1, <1>6, <1>7 DEF MergeInv, EventsWhole, Recorded
<1>14. Recoverable'  BY <1>6, <1>7 DEF MergeInv, Recoverable, Absorbed
<1> QED
  BY <1>6, <1>8, <1>11, <1>12, <1>13, <1>14
  DEF MergeInv, CandidatesWhole, ApprovedWasMerged, Recorded, Absorbed

LEMMA StepRestart ==
    ASSUME MergeInv, Restart
    PROVE  MergeInv'
<1>1. act' \in [Actors -> Act] /\ \A b \in Actors : act'[b] = Idle
  BY IdleInv DEF Restart
<1>2. UNCHANGED <<mem, event, cand, hiddenBy, early>> /\ faults' \in 0..MaxFaults
  BY FaultsStay DEF Restart
<1>3. TypeOK'  BY <1>1, <1>2 DEF MergeInv, TypeOK
<1>4. ASSUME NEW b \in Actors, NEW y, y = act'[b]  PROVE ActInv(y)'
  <2>1. y.pc = "idle" /\ y.list = {} /\ y.phase = "request"  BY <1>1, <1>4, IdleInv
  <2> QED
    BY <2>1 DEF ActInv, HasCandidate, HoldsCandidate, HoldsText, HoldsEvent, RollsBack, Merges, Rolls
<1>5. \A b \in Actors : ActInv(act[b])'  BY <1>4
<1>6. Overtaken'  BY <1>1, IdleInv DEF Overtaken
<1> QED
  BY <1>2, <1>3, <1>5, <1>6
  DEF MergeInv, EventsWhole, CandidatesWhole, Recoverable, ApprovedWasMerged, Recorded, Absorbed

LEMMA MergeInit == Init => MergeInv
<1> SUFFICES ASSUME Init PROVE MergeInv  OBVIOUS
<1>1. /\ \A m \in Memory : mem[m].into = None
      /\ \A e \in Event : event[e].state = "none"
      /\ \A c \in Candidate : cand[c].status = "none"
      /\ \A a \in Actors : act[a] = Idle
      /\ early = {}
  BY DEF Init, NoEvent, NoCandidate
<1>2. TypeOK
  <2>1. mem \in [Memory -> Row]  BY Numbers DEF Init, Row
  <2>2. event \in [Event -> EventRow]
    BY DEF Init, NoEvent, EventRow, NoTexts
  <2>3. cand \in [Candidate -> CandidateRow]  BY DEF Init, NoCandidate, CandidateRow
  <2>4. act \in [Actors -> Act]  BY IdleInv DEF Init
  <2>5. hiddenBy \in [Memory -> Event \cup {None}] /\ early \in SUBSET Event /\ faults \in 0..MaxFaults
    BY MergeBounds DEF Init
  <2> QED  BY <2>1, <2>2, <2>3, <2>4, <2>5 DEF TypeOK
<1>3. \A a \in Actors : ActInv(act[a])  BY <1>1, IdleInv
<1>4. Overtaken  BY <1>1, IdleInv DEF Overtaken
<1> QED
  BY <1>1, <1>2, <1>3, <1>4
  DEF MergeInv, EventsWhole, CandidatesWhole, Recoverable, ApprovedWasMerged, Recorded

LEMMA MergeStutters == MergeInv /\ UNCHANGED vars => MergeInv'
<1> SUFFICES ASSUME MergeInv, UNCHANGED vars PROVE MergeInv'  OBVIOUS
<1>1. UNCHANGED <<mem, event, cand, act, hiddenBy, early, faults>>  BY DEF vars
<1> QED
  BY <1>1
  DEF MergeInv, TypeOK, ActInv, HasCandidate, HoldsCandidate, HoldsText, HoldsEvent, RollsBack,
      WasMerged, Stands, Overtaken, EventsWhole, CandidatesWhole, Recoverable,
      ApprovedWasMerged, Recorded, Absorbed

LEMMA MergeNext == MergeInv /\ [Next]_vars => MergeInv'
<1> SUFFICES ASSUME MergeInv, Next PROVE MergeInv'  BY MergeStutters
<1>1. ASSUME NEW a \in Actors, MergeStep(a) \/ Fails(a)  PROVE MergeInv'
  BY <1>1, StepReadMemories, StepReadOriginals, StepRecord, StepUpdateSurvivor, StepAbsorb,
     StepDecide, StepNextCandidate, StepLists, StepGiveUp, StepFails
  DEF MergeStep
<1>2. ASSUME NEW a \in Reviewers, ReviewStep(a)  PROVE MergeInv'
  <2>1. a \in Actors  BY DEF Actors
  <2>2. ASSUME NEW ids \in SUBSET Memory,
               QueueCluster(a, ids) \/ \E s \in ids : ManualMerge(a, ids, s)
        PROVE  MergeInv'
    BY <2>1, <2>2, StepQueueCluster, StepManualMerge
  <2>3. ASSUME NEW c \in Candidate, Approve(a, c) \/ Reject(a, c)  PROVE MergeInv'
    BY <2>1, <2>3, StepApprove, StepReject
  <2>4. ASSUME NEW e \in Event, Rollback(a, e)  PROVE MergeInv'
    BY <2>1, <2>4, StepRollback
  <2> QED
    BY <1>2, <2>1, <2>2, <2>3, <2>4, StepCreateCandidate, StepWriteRejection, StepLists,
       StepRestore, StepPreMerge, StepRevert, StepUndo
    DEF ReviewStep
<1>3. ASSUME NEW d \in Drainers, DrainStart(d)  PROVE MergeInv'
  <2>1. d \in Actors  BY DEF Actors
  <2> QED  BY <1>3, <2>1, StepLists
<1>4. ASSUME NEW c \in Candidate, Skip(c)  PROVE MergeInv'
  BY <1>4, StepSkip
<1>5. CASE Restart  BY <1>5, StepRestart
<1> QED  BY <1>1, <1>2, <1>3, <1>4, <1>5 DEF Next

LEMMA MergeInvariant == Spec => []MergeInv
  BY MergeInit, MergeNext, PTL DEF Spec

\* Rows, events, candidates and what each actor holds keep their types: no step writes a
\* text that is not there, whatever a merge read before.
THEOREM MergeTypeCorrect == Spec => []TypeOK
<1>1. MergeInv => TypeOK  BY DEF MergeInv
<1> QED  BY <1>1, MergeInvariant, PTL

\* Whatever LineageService hides can be brought back: crashes, failed calls, concurrent
\* merges and rollbacks of the same rows never leave a hidden row without the event that
\* kept its text.
THEOREM MergeRecoverable == Spec => []Recoverable
<1>1. MergeInv => Recoverable  BY DEF MergeInv
<1> QED  BY <1>1, MergeInvariant, PTL

\* ReviewService and the nightly job write APPROVED over a recorded merge of exactly the
\* candidate's memories, or note that it failed.
THEOREM MergeApproved == Spec => []ApprovedWasMerged
<1>1. MergeInv => ApprovedWasMerged  BY DEF MergeInv
<1> QED  BY <1>1, MergeInvariant, PTL

-----------------------------------------------------------------------------
(* MemoryMerge implements MergeLedger.  To show that an actor writes what  *)
(* its event tells, the invariant needs what it carries from one step to   *)
(* the next: at least two memories, the text of its event, and that a      *)
(* rollback goes on to the survivor only when the event changed it.        *)

Several(S) == \E m, n \in S : m # n

LedgerHolds(x) ==
    /\ x.pc \in Merges \cup {"queue"} => Several(x.ids)
    /\ x.pc = "survivor" => event[x.event].merged = x.merged
    /\ x.pc \in {"premerge", "revert"} => event[x.event].changed

LedgerInv ==
    /\ \A a \in Actors : LedgerHolds(act[a])
    /\ \A c \in Candidate : cand[c].status # "none" => Several(cand[c].ids)

\* Where LedgerHolds asks for nothing.
Quiet == {"idle", "next", "decide", "giveup", "reject", "restore", "undo"}

LEMMA TwoAreSeveral ==
    ASSUME NEW S \in SUBSET Memory, Cardinality(S) >= 2
    PROVE  Several(S)
<1> SUFFICES ASSUME ~Several(S)  PROVE FALSE
  OBVIOUS
<1>1. CASE S = {}
  BY <1>1, FS_EmptySet
<1>2. ASSUME NEW m \in S  PROVE FALSE
  <2>1. S = {m}  BY <1>2 DEF Several
  <2>2. Cardinality({m}) = 1  BY FS_Singleton
  <2> QED  BY <2>1, <2>2
<1> QED  BY <1>1, <1>2

\* A recorded event keeps its text and whether that text is new.
LEMMA EventsKept ==
    ASSUME MergeInv, [Next]_vars, NEW e \in Event, event[e].state # "none"
    PROVE  /\ event'[e].state # "none"
           /\ event'[e].merged = event[e].merged /\ event'[e].changed = event[e].changed
<1>0. event \in [Event -> EventRow]  BY DEF MergeInv, TypeOK
<1>1. ASSUME NEW a \in Actors, Record(a)  PROVE event'[e] = event[e]
  <2>1. PICK d \in Event : event[d].state = "none" /\ \E r : event' = [event EXCEPT ![d] = r]
    BY <1>1 DEF Record
  <2> QED  BY <2>1, <1>0
<1>2. ASSUME NEW a \in Actors, Undo(a)
      PROVE  /\ event'[e].state # "none"
             /\ event'[e].merged = event[e].merged /\ event'[e].changed = event[e].changed
  <2>1. event' = [event EXCEPT ![act[a].event].state = "undone"]  BY <1>2 DEF Undo
  <2> QED  BY <2>1, <1>0 DEF EventRow
<1>3. CASE UNCHANGED event
  BY <1>3
<1>4. ASSUME NEW a \in Actors, MergeStep(a) \/ Fails(a), ~Record(a)  PROVE UNCHANGED event
  BY <1>4 DEF MergeStep, ReadMemories, ReadOriginals, UpdateSurvivor, Absorb, Decide, NextCandidate,
              EndOfList, GiveUp, Fails
<1>5. ASSUME NEW a \in Reviewers, ReviewStep(a), ~Undo(a)  PROVE UNCHANGED event
  BY <1>5 DEF ReviewStep, QueueCluster, ManualMerge, Approve, Reject, Rollback, CreateCandidate,
              WriteRejection, ExpireStale, Restore, PreMerge, Revert
<1> QED
  BY <1>1, <1>2, <1>3, <1>4, <1>5
  DEF Next, vars, Actors, DrainStart, Skip, Restart

\* What an actor that does not move holds still holds.
LEMMA LedgerOthers ==
    ASSUME MergeInv, LedgerInv, [Next]_vars, NEW b \in Actors, act'[b] = act[b]
    PROVE  LedgerHolds(act[b])'
<1>1. CASE act[b].pc \in {"survivor", "premerge", "revert"}
  <2>1. act[b].event \in Event /\ event[act[b].event].state # "none"
    BY <1>1, MergeTypes DEF ActInv, HoldsEvent, RollsBack, Rolls
  <2>2. event'[act[b].event].merged = event[act[b].event].merged
        /\ event'[act[b].event].changed = event[act[b].event].changed
    BY <2>1, EventsKept
  <2>3. LedgerHolds(act[b])  BY DEF LedgerInv
  <2> QED  BY <1>1, <2>2, <2>3 DEF LedgerHolds, Merges
<1>2. CASE act[b].pc \notin {"survivor", "premerge", "revert"}
  <2>1. LedgerHolds(act[b])  BY DEF LedgerInv
  <2> QED  BY <1>2, <2>1 DEF LedgerHolds, Merges
<1> QED  BY <1>1, <1>2

\* A step of one actor: it is enough to look at where it goes.
LEMMA LedgerOwn ==
    ASSUME MergeInv, LedgerInv, [Next]_vars, NEW a \in Actors, NEW y, act' = [act EXCEPT ![a] = y],
           LedgerHolds(act[a])'
    PROVE  \A b \in Actors : LedgerHolds(act[b])'
<1> SUFFICES ASSUME NEW b \in Actors  PROVE LedgerHolds(act[b])'
  OBVIOUS
<1>1. act \in [Actors -> Act]  BY MergeTypes
<1>2. CASE b # a
  <2>1. act'[b] = act[b]  BY <1>1, <1>2
  <2> QED  BY <2>1, LedgerOthers
<1> QED  BY <1>2

LEMMA LedgerQuiet ==
    ASSUME MergeInv, LedgerInv, [Next]_vars, NEW a \in Actors, NEW y, act' = [act EXCEPT ![a] = y],
           y.pc \in Quiet
    PROVE  \A b \in Actors : LedgerHolds(act[b])'
<1>1. act'[a] = y  BY MergeTypes
<1>2. LedgerHolds(act[a])'  BY <1>1 DEF LedgerHolds, Quiet, Merges
<1> QED  BY <1>2, LedgerOwn

\* An actor takes some memories, at least two, up.
LEMMA LedgerTaken ==
    ASSUME MergeInv, LedgerInv, [Next]_vars, NEW a \in Actors, NEW y, act' = [act EXCEPT ![a] = y],
           y.pc \in {"read", "originals", "record", "absorb", "queue"}, Several(y.ids)
    PROVE  \A b \in Actors : LedgerHolds(act[b])'
<1>1. act'[a] = y  BY MergeTypes
<1>2. LedgerHolds(act[a])'
  BY <1>1 DEF LedgerHolds, Merges, Several
<1> QED  BY <1>2, LedgerOwn

LEMMA LedgerMerging ==
    ASSUME MergeInv, NEW a \in Actors, MergeStep(a) \/ Fails(a), Next, LedgerInv
    PROVE  \A b \in Actors : LedgerHolds(act[b])'
<1>0. LedgerHolds(act[a])  BY DEF LedgerInv
<1>1. CASE ReadMemories(a)
  <2>1. PICK t : act' = [act EXCEPT ![a] = [@ EXCEPT !.pc = "originals", !.merged = t]]
    BY <1>1 DEF ReadMemories
  <2>2. PICK y : y = [act[a] EXCEPT !.pc = "originals", !.merged = t]  OBVIOUS
  <2>3. act' = [act EXCEPT ![a] = y] /\ y.pc = "originals" /\ y.ids = act[a].ids
    BY <2>1, <2>2, MergeTypes DEF Act
  <2>4. Several(y.ids)  BY <2>3, <1>0, <1>1 DEF LedgerHolds, Merges, ReadMemories
  <2> QED  BY <2>3, <2>4, LedgerTaken
<1>2. CASE ReadOriginals(a)
  <2>1. PICK t : act' = [act EXCEPT ![a] = [@ EXCEPT !.pc = "record", !.originals = t]]
    BY <1>2 DEF ReadOriginals
  <2>2. PICK y : y = [act[a] EXCEPT !.pc = "record", !.originals = t]  OBVIOUS
  <2>3. act' = [act EXCEPT ![a] = y] /\ y.pc = "record" /\ y.ids = act[a].ids
    BY <2>1, <2>2, MergeTypes DEF Act
  <2>4. Several(y.ids)  BY <2>3, <1>0, <1>2 DEF LedgerHolds, Merges, ReadOriginals
  <2> QED  BY <2>3, <2>4, LedgerTaken
<1>3. CASE Record(a)
  <2>1. PICK e \in Event :
          /\ event' = [event EXCEPT ![e] =
                         [state |-> "done", survivor |-> act[a].survivor,
                          originals |-> act[a].originals, merged |-> act[a].merged,
                          changed |-> act[a].changed]]
          /\ act' = [act EXCEPT ![a] = [@ EXCEPT !.pc = "survivor", !.event = e,
                                            !.changed = FALSE, !.originals = NoTexts]]
    BY <1>3 DEF Record
  <2>2. PICK y : y = [act[a] EXCEPT !.pc = "survivor", !.event = e, !.changed = FALSE,
                                    !.originals = NoTexts]
    OBVIOUS
  <2>3. act' = [act EXCEPT ![a] = y] /\ y.pc = "survivor" /\ y.ids = act[a].ids /\ y.event = e
        /\ y.merged = act[a].merged
    BY <2>1, <2>2, MergeTypes DEF Act
  <2>4. event'[e].merged = act[a].merged  BY <2>1 DEF MergeInv, TypeOK
  <2>5. act'[a] = y  BY <2>3, MergeTypes
  <2>6. Several(y.ids)  BY <2>3, <1>0, <1>3 DEF LedgerHolds, Merges, Record
  <2>7. LedgerHolds(act[a])'  BY <2>3, <2>4, <2>5, <2>6 DEF LedgerHolds, Merges, Several
  <2> QED  BY <2>3, <2>7, LedgerOwn
<1>4. CASE UpdateSurvivor(a)
  <2>1. PICK y : y = [act[a] EXCEPT !.pc = "absorb", !.merged = NoText]  OBVIOUS
  <2>2. act' = [act EXCEPT ![a] = y] /\ y.pc = "absorb" /\ y.ids = act[a].ids
    BY <1>4, <2>1, MergeTypes DEF UpdateSurvivor, Act
  <2>3. Several(y.ids)  BY <2>2, <1>0, <1>4 DEF LedgerHolds, Merges, UpdateSurvivor
  <2> QED  BY <2>2, <2>3, LedgerTaken
<1>5. CASE Absorb(a) \/ Decide(a) \/ GiveUp(a)
  <2>1. PICK r : r = Rest(a)  OBVIOUS
  <2>2. r \in Act /\ r.pc \in {"idle", "next"}  BY <2>1, RestInv
  <2>3. PICK y : y = [r EXCEPT !.pc = "decide", !.cand = act[a].cand]  OBVIOUS
  <2>4. y.pc = "decide"  BY <2>2, <2>3 DEF Act
  <2>5. act' = [act EXCEPT ![a] = r] \/ act' = [act EXCEPT ![a] = y]
    BY <1>5, <2>1, <2>3 DEF Absorb, Decide, GiveUp, AfterMerge
  <2> QED  BY <2>2, <2>4, <2>5, LedgerQuiet DEF Quiet
<1>6. CASE EndOfList(a)
  <2>1. PICK L : act' = [act EXCEPT ![a] = [Idle EXCEPT !.pc = "next", !.phase = "backlog", !.list = L]]
                 \/ act' = [act EXCEPT ![a] = Idle]
    BY <1>6 DEF EndOfList
  <2>2. [Idle EXCEPT !.pc = "next", !.phase = "backlog", !.list = L].pc = "next" /\ Idle.pc = "idle"
    BY DEF Idle
  <2> QED  BY <2>1, <2>2, LedgerQuiet DEF Quiet
<1>7. CASE NextCandidate(a)
  <2>1. PICK c \in act[a].list : \E y :
          /\ LET x == [act[a] EXCEPT !.list = @ \ {c}]
             IN  y \in {x, [x EXCEPT !.pc = "giveup", !.cand = c],
                        Merging(x, c, cand[c].ids, cand[c].survivor, NoText)}
          /\ act' = [act EXCEPT ![a] = y]
    BY <1>7 DEF NextCandidate
  <2>2. PICK x : x = [act[a] EXCEPT !.list = @ \ {c}]  OBVIOUS
  <2>3. PICK y : /\ y \in {x, [x EXCEPT !.pc = "giveup", !.cand = c],
                           Merging(x, c, cand[c].ids, cand[c].survivor, NoText)}
                 /\ act' = [act EXCEPT ![a] = y]
    BY <2>1, <2>2
  <2>4. x \in Act /\ x.pc = "next" /\ c \in Candidate /\ cand[c].status # "none"
    BY <1>7, <2>2, TakenInv DEF NextCandidate
  <2>5. CASE y = Merging(x, c, cand[c].ids, cand[c].survivor, NoText)
    <3>1. y.pc = "read" /\ y.ids = cand[c].ids  BY <2>4, <2>5 DEF Merging, Act
    <3>2. Several(y.ids)  BY <2>4, <3>1 DEF LedgerInv
    <3> QED  BY <2>3, <3>1, <3>2, LedgerTaken
  <2>6. CASE y \in {x, [x EXCEPT !.pc = "giveup", !.cand = c]}
    <3>1. y.pc \in {"next", "giveup"}  BY <2>4, <2>6 DEF Act
    <3> QED  BY <2>3, <3>1, LedgerQuiet DEF Quiet
  <2> QED  BY <2>3, <2>5, <2>6
<1>8. CASE Fails(a)
  <2>1. PICK r : r = Rest(a)  OBVIOUS
  <2>2. r \in Act /\ r.pc \in {"idle", "next"}  BY <2>1, RestInv
  <2>3. PICK c : LET x == [r EXCEPT !.list = @ \ {c}]
                 IN  \/ act' = [act EXCEPT ![a] = x]
                     \/ act' = [act EXCEPT ![a] = [x EXCEPT !.pc = "giveup", !.cand = c]]
    BY <1>8, <2>1 DEF Fails
  <2>4. PICK x : x = [r EXCEPT !.list = @ \ {c}]  OBVIOUS
  <2>5. PICK z : z = [x EXCEPT !.pc = "giveup", !.cand = c]  OBVIOUS
  <2>6. x.pc \in {"idle", "next"} /\ z.pc = "giveup"  BY <2>2, <2>4, <2>5 DEF Act
  <2>7. act' = [act EXCEPT ![a] = x] \/ act' = [act EXCEPT ![a] = z]  BY <2>3, <2>4, <2>5
  <2> QED  BY <2>6, <2>7, LedgerQuiet DEF Quiet
<1> QED
  BY <1>1, <1>2, <1>3, <1>4, <1>5, <1>6, <1>7, <1>8 DEF MergeStep

LEMMA LedgerReviewing ==
    ASSUME MergeInv, NEW a \in Reviewers, ReviewStep(a), Next, LedgerInv
    PROVE  \A b \in Actors : LedgerHolds(act[b])'
<1> USE DEF Quiet
<1>0. a \in Actors /\ LedgerHolds(act[a])  BY DEF LedgerInv, Actors
<1>1. ASSUME NEW ids \in SUBSET Memory, QueueCluster(a, ids)
      PROVE  \A b \in Actors : LedgerHolds(act[b])'
  <2>1. PICK y : y = [Idle EXCEPT !.pc = "queue", !.ids = ids]  OBVIOUS
  <2>2. act' = [act EXCEPT ![a] = y] /\ y.pc = "queue" /\ y.ids = ids
    BY <1>1, <2>1 DEF QueueCluster, Idle
  <2>3. Several(ids)  BY <1>1, TwoAreSeveral DEF QueueCluster
  <2> QED  BY <1>0, <2>2, <2>3, LedgerTaken
<1>2. ASSUME NEW ids \in SUBSET Memory, NEW s \in ids, ManualMerge(a, ids, s)
      PROVE  \A b \in Actors : LedgerHolds(act[b])'
  <2>1. PICK t : act' = [act EXCEPT ![a] = Merging(Idle, None, ids, s, t)]
    BY <1>2 DEF ManualMerge
  <2>2. PICK y : y = Merging(Idle, None, ids, s, t)  OBVIOUS
  <2>3. act' = [act EXCEPT ![a] = y] /\ y.pc = "read" /\ y.ids = ids
    BY <2>1, <2>2 DEF Merging, Idle
  <2>4. Several(ids)  BY <1>2, TwoAreSeveral DEF ManualMerge
  <2> QED  BY <1>0, <2>3, <2>4, LedgerTaken
<1>3. ASSUME NEW c \in Candidate, Approve(a, c)
      PROVE  \A b \in Actors : LedgerHolds(act[b])'
  <2>1. PICK s, t : act' = [act EXCEPT ![a] = Merging(Idle, c, cand[c].ids, s, t)]
    BY <1>3 DEF Approve
  <2>2. PICK y : y = Merging(Idle, c, cand[c].ids, s, t)  OBVIOUS
  <2>3. act' = [act EXCEPT ![a] = y] /\ y.pc = "read" /\ y.ids = cand[c].ids
    BY <2>1, <2>2 DEF Merging, Idle
  <2>4. Several(y.ids)  BY <1>3, <2>3 DEF Approve, LedgerInv
  <2> QED  BY <1>0, <2>3, <2>4, LedgerTaken
<1>4. ASSUME \/ CreateCandidate(a) \/ WriteRejection(a) \/ Undo(a) \/ ExpireStale(a)
             \/ \E c \in Candidate : Reject(a, c)
             \/ \E e \in Event : Rollback(a, e)
      PROVE  \A b \in Actors : LedgerHolds(act[b])'
  <2>1. PICK y : act' = [act EXCEPT ![a] = y] /\ y.pc \in Quiet
    <3>1. CASE CreateCandidate(a) \/ WriteRejection(a) \/ Undo(a)
      <4>1. act' = [act EXCEPT ![a] = Idle]  BY <3>1 DEF CreateCandidate, WriteRejection, Undo
      <4> QED  BY <4>1, IdleInv
    <3>2. CASE ExpireStale(a)
      <4>1. PICK y : y = [Idle EXCEPT !.pc = "next", !.phase = "expire", !.list = Pending]  OBVIOUS
      <4>2. y.pc = "next"  BY <4>1 DEF Idle
      <4> QED  BY <3>2, <4>1, <4>2 DEF ExpireStale
    <3>3. ASSUME NEW c \in Candidate, Reject(a, c)
          PROVE  \E y : act' = [act EXCEPT ![a] = y] /\ y.pc \in Quiet
      <4>1. PICK y : y = [Idle EXCEPT !.pc = "reject", !.cand = c]  OBVIOUS
      <4>2. y.pc = "reject"  BY <4>1 DEF Idle
      <4> QED  BY <3>3, <4>1, <4>2 DEF Reject
    <3>4. ASSUME NEW e \in Event, Rollback(a, e)
          PROVE  \E y : act' = [act EXCEPT ![a] = y] /\ y.pc \in Quiet
      <4>1. PICK y : y = [Idle EXCEPT !.pc = "restore", !.event = e,
                                      !.survivor = event[e].survivor, !.todo = Absorbed(e)]
        OBVIOUS
      <4>2. y.pc = "restore"  BY <4>1 DEF Idle
      <4> QED  BY <3>4, <4>1, <4>2 DEF Rollback
    <3> QED  BY <1>4, <3>1, <3>2, <3>3, <3>4
  <2> QED  BY <1>0, <2>1, LedgerQuiet
<1>5. CASE Restore(a)
  <2>1. PICK left, p :
          /\ p = IF left # {} THEN "restore"
                 ELSE IF event[act[a].event].changed THEN "premerge" ELSE "undo"
          /\ act' = [act EXCEPT ![a] = [@ EXCEPT !.todo = left, !.pc = p]]
    BY <1>5 DEF Restore
  <2>2. PICK y : y = [act[a] EXCEPT !.todo = left, !.pc = p]  OBVIOUS
  <2>3. act' = [act EXCEPT ![a] = y] /\ y.pc = p /\ y.event = act[a].event
    BY <1>0, <2>1, <2>2, MergeTypes DEF Act
  <2>4. CASE p = "premerge"
    <3>1. event' = event /\ act'[a] = y  BY <1>0, <1>5, <2>3, MergeTypes DEF Restore
    <3>2. LedgerHolds(act[a])'  BY <2>1, <2>3, <2>4, <3>1 DEF LedgerHolds, Merges
    <3> QED  BY <1>0, <2>3, <3>2, LedgerOwn
  <2> QED  BY <1>0, <2>1, <2>3, <2>4, LedgerQuiet
<1>6. CASE PreMerge(a)
  <2>1. PICK t : act' = [act EXCEPT ![a] = [@ EXCEPT !.pc = "revert", !.merged = t]]
    BY <1>6 DEF PreMerge
  <2>2. PICK y : y = [act[a] EXCEPT !.pc = "revert", !.merged = t]  OBVIOUS
  <2>3. act' = [act EXCEPT ![a] = y] /\ y.pc = "revert" /\ y.event = act[a].event
    BY <1>0, <2>1, <2>2, MergeTypes DEF Act
  <2>4. event' = event /\ act'[a] = y  BY <1>0, <1>6, <2>3, MergeTypes DEF PreMerge
  <2>5. LedgerHolds(act[a])'  BY <1>0, <1>6, <2>3, <2>4 DEF PreMerge, LedgerHolds, Merges
  <2> QED  BY <1>0, <2>3, <2>5, LedgerOwn
<1>7. CASE Revert(a)
  <2>1. PICK y : y = [act[a] EXCEPT !.pc = "undo"]  OBVIOUS
  <2>2. act' = [act EXCEPT ![a] = y] /\ y.pc = "undo"
    BY <1>0, <1>7, <2>1, MergeTypes DEF Revert, Act
  <2> QED  BY <1>0, <2>2, LedgerQuiet
<1> QED
  BY <1>1, <1>2, <1>3, <1>4, <1>5, <1>6, <1>7 DEF ReviewStep

\* The memories of a candidate are those it was queued with.
LEMMA CandidatesKept ==
    ASSUME MergeInv, LedgerInv, [Next]_vars, NEW c \in Candidate, cand'[c].status # "none"
    PROVE  Several(cand[c].ids)'
<1>0. cand \in [Candidate -> CandidateRow]  BY DEF MergeInv, TypeOK
<1>1. ASSUME cand[c].status # "none", cand'[c].ids = cand[c].ids  PROVE Several(cand[c].ids)'
  BY <1>1 DEF LedgerInv, Several
<1>2. ASSUME NEW a \in Actors, CreateCandidate(a)  PROVE Several(cand[c].ids)'
  <2>0. PICK d \in Candidate, s \in act[a].ids, g \in Grades :
          cand' = [cand EXCEPT ![d] = [status |-> "PENDING", ids |-> act[a].ids,
                                       survivor |-> s, grade |-> g, failed |-> FALSE]]
    BY <1>2 DEF CreateCandidate
  <2>1. PICK r : r.ids = act[a].ids /\ cand' = [cand EXCEPT ![d] = r]
    BY <2>0
  <2>2. Several(act[a].ids)  BY <1>2 DEF LedgerInv, LedgerHolds, CreateCandidate
  <2>3. CASE c = d  BY <2>1, <2>2, <2>3, <1>0 DEF Several
  <2>4. CASE c # d  BY <2>1, <2>4, <1>0, <1>1
  <2> QED  BY <2>3, <2>4
<1>3. ASSUME NEW d \in Candidate, cand[d].status # "none", NEW r, r.ids = cand[d].ids,
             cand' = [cand EXCEPT ![d] = r]
      PROVE  Several(cand[c].ids)'
  <2>1. cand'[c] = IF c = d THEN r ELSE cand[c]  BY <1>0, <1>3
  <2>2. cand'[c].ids = cand[c].ids /\ cand[c].status # "none"  BY <1>3, <2>1
  <2> QED  BY <1>1, <2>2
<1>4. ASSUME NEW a \in Actors, Decide(a) \/ GiveUp(a) \/ WriteRejection(a)
      PROVE  Several(cand[c].ids)'
  <2>1. PICK d : d = act[a].cand  OBVIOUS
  <2>2. d \in Candidate /\ cand[d].status # "none"
    BY <1>4, <2>1, MergeTypes DEF ActInv, HasCandidate, Decide, GiveUp, WriteRejection
  <2>3. cand[d] \in CandidateRow  BY <1>0, <2>2
  <2>4. PICK r : cand' = [cand EXCEPT ![d] = r] /\ r.ids = cand[d].ids
    <3>1. CASE Decide(a)
      <4>1. PICK r : r = [cand[d] EXCEPT !.status = "APPROVED"]  OBVIOUS
      <4>2. r.ids = cand[d].ids  BY <2>3, <4>1 DEF CandidateRow
      <4>3. cand' = [cand EXCEPT ![d] = r]  BY <3>1, <1>0, <2>1, <2>2, <4>1 DEF Decide
      <4> QED  BY <4>2, <4>3
    <3>2. CASE GiveUp(a)
      <4>1. PICK r : r = [cand[d] EXCEPT !.status = "APPROVED", !.failed = TRUE]  OBVIOUS
      <4>2. r.ids = cand[d].ids  BY <2>3, <4>1 DEF CandidateRow
      <4>3. cand' = [cand EXCEPT ![d] = r]  BY <3>2, <1>0, <2>1, <2>2, <4>1 DEF GiveUp
      <4> QED  BY <4>2, <4>3
    <3>3. CASE WriteRejection(a)
      <4>1. PICK r : r = [cand[d] EXCEPT !.status = "REJECTED"]  OBVIOUS
      <4>2. r.ids = cand[d].ids  BY <2>3, <4>1 DEF CandidateRow
      <4>3. cand' = [cand EXCEPT ![d] = r]  BY <3>3, <1>0, <2>1, <2>2, <4>1 DEF WriteRejection
      <4> QED  BY <4>2, <4>3
    <3> QED  BY <1>4, <3>1, <3>2, <3>3
  <2> QED  BY <1>3, <2>2, <2>4
<1>5. ASSUME NEW d \in Candidate, Skip(d)  PROVE Several(cand[c].ids)'
  <2>1. PICK r : r = [cand[d] EXCEPT !.status = "SKIPPED"]  OBVIOUS
  <2>2. r.ids = cand[d].ids  BY <1>0, <2>1 DEF CandidateRow
  <2>3. cand' = [cand EXCEPT ![d] = r] /\ cand[d].status # "none"  BY <1>5, <2>1 DEF Skip
  <2> QED  BY <1>3, <2>2, <2>3
<1>6. CASE UNCHANGED cand
  BY <1>1, <1>6
<1>7. ASSUME NEW a \in Actors, MergeStep(a) \/ Fails(a), ~Decide(a), ~GiveUp(a)
      PROVE  UNCHANGED cand
  BY <1>7 DEF MergeStep, ReadMemories, ReadOriginals, Record, UpdateSurvivor, Absorb, NextCandidate,
              EndOfList, Fails
<1>8. ASSUME NEW a \in Reviewers, ReviewStep(a), ~CreateCandidate(a), ~WriteRejection(a)
      PROVE  UNCHANGED cand
  BY <1>8 DEF ReviewStep, QueueCluster, ManualMerge, Approve, Reject, Rollback, ExpireStale, Restore,
              PreMerge, Revert, Undo
<1> QED
  BY <1>2, <1>4, <1>5, <1>6, <1>7, <1>8 DEF Next, vars, Actors, DrainStart, Restart

LEMMA LedgerInductive == MergeInv /\ LedgerInv /\ [Next]_vars => LedgerInv'
<1> SUFFICES ASSUME MergeInv, LedgerInv, [Next]_vars  PROVE LedgerInv'
  OBVIOUS
<1>1. \A c \in Candidate : cand'[c].status # "none" => Several(cand[c].ids)'
  BY CandidatesKept
<1>2. \A b \in Actors : LedgerHolds(act[b])'
  <2>1. ASSUME NEW d \in Drainers, DrainStart(d), Next
        PROVE  \A b \in Actors : LedgerHolds(act[b])'
    <3>1. PICK L : act' = [act EXCEPT ![d] = [Idle EXCEPT !.pc = "next", !.phase = "batch", !.list = L]]
      BY <2>1 DEF DrainStart
    <3>2. [Idle EXCEPT !.pc = "next", !.phase = "batch", !.list = L].pc = "next"  BY DEF Idle
    <3>3. d \in Actors  BY DEF Actors
    <3> QED  BY <3>1, <3>2, <3>3, LedgerQuiet DEF Quiet
  <2>2. CASE UNCHANGED act
    BY <2>2, LedgerOthers
  <2>3. CASE Restart
    <3>1. \A b \in Actors : act'[b] = Idle  BY <2>3 DEF Restart
    <3> QED  BY <3>1, IdleInv DEF LedgerHolds, Merges
  <2>4. ASSUME NEW c \in Candidate, Skip(c)  PROVE UNCHANGED act
    BY <2>4 DEF Skip
  <2> QED
    BY <2>1, <2>2, <2>3, <2>4, LedgerMerging, LedgerReviewing DEF Next, vars
<1> QED  BY <1>1, <1>2 DEF LedgerInv

-----------------------------------------------------------------------------
\* The ledger's view of the memories.
Into == [m \in Memory |-> mem[m].into]
Texts == [m \in Memory |-> mem[m].text]

\* Every event an actor holds is entered.
LEMMA HeldIsEntered ==
    ASSUME MergeInv, NEW a \in Actors, act[a].pc \in {"survivor", "absorb"} \cup Rolls
    PROVE  act[a].event \in Event /\ Ledger!Entered(act[a].event)
           /\ event[act[a].event].survivor = act[a].survivor /\ act[a].survivor \in Memory
<1>1. /\ act[a].event \in Event /\ event[act[a].event].state # "none"
      /\ event[act[a].event].survivor = act[a].survivor
  BY MergeTypes DEF ActInv, HoldsEvent, RollsBack, Rolls
<1>2. event[act[a].event].survivor \in Memory
  BY <1>1 DEF MergeInv, EventsWhole, Recorded
<1> QED  BY <1>1, <1>2 DEF Ledger!Entered

LEMMA RecordEnters ==
    ASSUME MergeInv, LedgerInv, NEW a \in Actors, Record(a)
    PROVE  Ledger!Next
<1>1. /\ act[a].pc = "record" /\ act[a].survivor \in Memory /\ act[a].survivor \in act[a].ids
      /\ act[a].merged \in Text /\ act[a].ids \subseteq Memory
      /\ \A m \in Memory : act[a].originals[m] # NoText <=> m \in act[a].ids \ {act[a].survivor}
  BY MergeTypes DEF Record, ActInv, Merges, HoldsText
<1>2. PICK x : x = [state |-> "done", survivor |-> act[a].survivor,
                    originals |-> act[a].originals, merged |-> act[a].merged,
                    changed |-> act[a].changed]
  OBVIOUS
<1>3. PICK e \in Event : event[e].state = "none" /\ event' = [event EXCEPT ![e] = x]
  BY <1>2 DEF Record
<1>4. x \in Ledger!Entry  BY <1>1, <1>2, MergeTypes DEF Ledger!Entry
<1>5. x.originals[x.survivor] = NoText  BY <1>1, <1>2
<1>6. \E m \in Memory : x.originals[m] # NoText
  <2>1. Several(act[a].ids)  BY <1>1 DEF LedgerInv, LedgerHolds, Merges
  <2>2. PICK m \in act[a].ids : m # act[a].survivor  BY <2>1 DEF Several
  <2> QED  BY <1>1, <1>2, <2>2
<1>7. UNCHANGED <<Into, Texts>>  BY DEF Record, Into, Texts
<1>8. Ledger!Enter(e)
  BY <1>3, <1>4, <1>5, <1>6, <1>7 DEF Ledger!Enter, Ledger!Entered, Into, Texts
<1> QED  BY <1>8 DEF Ledger!Next

LEMMA UpdateRewrites ==
    ASSUME MergeInv, LedgerInv, NEW a \in Actors, UpdateSurvivor(a)
    PROVE  Ledger!Next
<1>0. PICK e : e = act[a].event  OBVIOUS
<1>1. /\ e \in Event /\ Ledger!Entered(e)
      /\ event[e].survivor = act[a].survivor /\ act[a].survivor \in Memory
  BY <1>0, HeldIsEntered DEF UpdateSurvivor
<1>2. event[e].merged = act[a].merged
  BY <1>0 DEF LedgerInv, LedgerHolds, UpdateSurvivor
<1>3. mem' = [mem EXCEPT ![act[a].survivor].text = act[a].merged] /\ event' = event
  BY DEF UpdateSurvivor
<1>4. mem \in [Memory -> Row]  BY DEF MergeInv, TypeOK
<1>5. Into' = Into  BY <1>3, <1>4 DEF Into, Row
<1>6. Texts' = [Texts EXCEPT ![event[e].survivor] = event[e].merged]
  BY <1>1, <1>2, <1>3, <1>4 DEF Texts, Row
<1>7. Ledger!Rewrite(e)  BY <1>1, <1>3, <1>5, <1>6 DEF Ledger!Rewrite, Into, Texts
<1> QED  BY <1>1, <1>7 DEF Ledger!Next

LEMMA AbsorbHides ==
    ASSUME MergeInv, NEW a \in Actors, Absorb(a)
    PROVE  Ledger!Next
<1>0. PICK e : e = act[a].event  OBVIOUS
<1> DEFINE gone == act[a].ids \ {act[a].survivor}
<1>1. /\ e \in Event /\ Ledger!Entered(e)
      /\ event[e].survivor = act[a].survivor /\ act[a].survivor \in Memory
  BY <1>0, HeldIsEntered DEF Absorb
<1>2. Ledger!Absorbed(e) = gone
  BY <1>0, MergeTypes DEF Absorb, ActInv, HoldsEvent, Absorbed, Ledger!Absorbed
<1>3. /\ mem' = [m \in Memory |-> IF m \in gone
                      THEN [mem[m] EXCEPT !.into = act[a].survivor] ELSE mem[m]]
      /\ event' = event
  BY DEF Absorb
<1> HIDE DEF gone
<1>4. mem \in [Memory -> Row]  BY DEF MergeInv, TypeOK
<1>5. Texts' = Texts  BY <1>3, <1>4 DEF Texts, Row
<1>6. Into' = [m \in Memory |-> IF m \in Ledger!Absorbed(e) THEN event[e].survivor ELSE Into[m]]
  BY <1>1, <1>2, <1>3, <1>4 DEF Into, Row
<1>7. Ledger!Hide(e)  BY <1>1, <1>3, <1>5, <1>6 DEF Ledger!Hide, Into, Texts
<1> QED  BY <1>1, <1>7 DEF Ledger!Next

LEMMA RestoreReturns ==
    ASSUME MergeInv, NEW a \in Actors, Restore(a)
    PROVE  Ledger!Next
<1> DEFINE e == act[a].event
<1>1. e \in Event /\ Ledger!Entered(e)
  BY HeldIsEntered DEF Restore, Rolls
<1>2. PICK m \in act[a].todo :
        mem' = [mem EXCEPT ![m] = [into |-> None, text |-> event[e].originals[m]]]
  BY DEF Restore
<1>3. m \in Memory /\ m \in Ledger!Absorbed(e)
  BY <1>2, MergeTypes DEF Restore, ActInv, RollsBack, Rolls, Absorbed, Ledger!Absorbed
<1>4. event' = event  BY DEF Restore
<1> HIDE DEF e
<1>5. mem \in [Memory -> Row]  BY DEF MergeInv, TypeOK
<1>6. Into' = [Into EXCEPT ![m] = None]  BY <1>2, <1>3, <1>5 DEF Into, Row
<1>7. Texts' = [Texts EXCEPT ![m] = event[e].originals[m]]
  BY <1>2, <1>3, <1>5 DEF Texts, Row
<1>8. Ledger!Return(e, m)
  BY <1>1, <1>3, <1>4, <1>6, <1>7 DEF Ledger!Return, Into, Texts
<1> QED  BY <1>1, <1>3, <1>8 DEF Ledger!Next

LEMMA RevertTakesBack ==
    ASSUME MergeInv, LedgerInv, NEW a \in Actors, Revert(a)
    PROVE  Ledger!Next
<1>0. PICK e : e = act[a].event  OBVIOUS
<1>1. /\ e \in Event /\ Ledger!Entered(e)
      /\ event[e].survivor = act[a].survivor /\ act[a].survivor \in Memory
  BY <1>0, HeldIsEntered DEF Revert, Rolls
<1>2. event[e].changed
  BY <1>0 DEF LedgerInv, LedgerHolds, Revert
<1>3. act[a].merged \in Text  BY MergeTypes DEF Revert, ActInv, HoldsText
<1>4. mem' = [mem EXCEPT ![act[a].survivor].text = act[a].merged] /\ event' = event
  BY DEF Revert
<1>5. mem \in [Memory -> Row]  BY DEF MergeInv, TypeOK
<1>6. Into' = Into  BY <1>4, <1>5 DEF Into, Row
<1>7. Texts' = [Texts EXCEPT ![event[e].survivor] = act[a].merged]
  BY <1>1, <1>4, <1>5 DEF Texts, Row
<1>8. Ledger!TakeBack(e)
  BY <1>1, <1>2, <1>3, <1>4, <1>6, <1>7 DEF Ledger!TakeBack, Into, Texts
<1> QED  BY <1>1, <1>8 DEF Ledger!Next

LEMMA UndoCancels ==
    ASSUME MergeInv, NEW a \in Actors, Undo(a)
    PROVE  Ledger!Next
<1> DEFINE e == act[a].event
<1>1. e \in Event /\ Ledger!Entered(e)
  BY HeldIsEntered DEF Undo, Rolls
<1>2. event' = [event EXCEPT ![e].state = "undone"] /\ UNCHANGED <<Into, Texts>>
  BY DEF Undo, Into, Texts
<1> HIDE DEF e
<1>3. Ledger!Cancel(e)  BY <1>1, <1>2 DEF Ledger!Cancel, Into, Texts
<1> QED  BY <1>1, <1>3 DEF Ledger!Next

LEMMA LedgerStep == MergeInv /\ LedgerInv /\ [Next]_vars => [Ledger!Next]_(Ledger!vars)
<1> SUFFICES ASSUME MergeInv, LedgerInv, [Next]_vars  PROVE Ledger!Next \/ UNCHANGED Ledger!vars
  OBVIOUS
<1>1. CASE UNCHANGED <<mem, event>>
  <2>1. UNCHANGED <<event, Into, Texts>>  BY <1>1 DEF Into, Texts
  <2> QED  BY <2>1 DEF Ledger!vars, Into, Texts
<1>2. ASSUME NEW a \in Actors, MergeStep(a) \/ Fails(a)
      PROVE  Ledger!Next \/ UNCHANGED <<mem, event>>
  <2>1. \/ Record(a) \/ UpdateSurvivor(a) \/ Absorb(a)
        \/ UNCHANGED <<mem, event>>
    BY <1>2 DEF MergeStep, ReadMemories, ReadOriginals, Decide, NextCandidate, EndOfList, GiveUp, Fails
  <2> QED  BY <2>1, RecordEnters, UpdateRewrites, AbsorbHides
<1>3. ASSUME NEW a \in Reviewers, ReviewStep(a)
      PROVE  Ledger!Next \/ UNCHANGED <<mem, event>>
  <2>1. Restore(a) \/ Revert(a) \/ Undo(a) \/ UNCHANGED <<mem, event>>
    BY <1>3 DEF ReviewStep, QueueCluster, ManualMerge, Approve, Reject, Rollback, CreateCandidate,
                WriteRejection, ExpireStale, PreMerge
  <2> QED  BY <2>1, RestoreReturns, RevertTakesBack, UndoCancels DEF Actors
<1> QED
  BY <1>1, <1>2, <1>3 DEF Next, vars, DrainStart, Skip, Restart

LEMMA LedgerInit == Init => LedgerInv /\ Ledger!Init
<1> SUFFICES ASSUME Init  PROVE LedgerInv /\ Ledger!Init
  OBVIOUS
<1>1. \A a \in Actors : act[a].pc = "idle"  BY DEF Init, Idle
<1>2. \A c \in Candidate : cand[c].status = "none"  BY DEF Init, NoCandidate
<1>3. LedgerInv  BY <1>1, <1>2 DEF LedgerInv, LedgerHolds, Merges
<1>4. \A e \in Event : ~Ledger!Entered(e)  BY DEF Init, NoEvent, Ledger!Entered
<1>5. \A m \in Memory : mem[m].into = None /\ mem[m].text = m /\ m \in Text
  BY DEF Init, Text
<1> QED  BY <1>3, <1>4, <1>5 DEF Ledger!Init

\* Whatever runs beside whatever, every change MergeService, LineageService and the
\* nightly job make to a memory is one a recorded event tells of, and no event is ever
\* rewritten: the component implements the ledger.
THEOREM MergeKeepsLedger == Spec => KeepsLedger
<1>1. Init => LedgerInv /\ Ledger!Init  BY LedgerInit
<1>2. MergeInv /\ LedgerInv /\ [Next]_vars => LedgerInv'  BY LedgerInductive
<1>3. MergeInv /\ LedgerInv /\ [Next]_vars => [Ledger!Next]_(Ledger!vars)  BY LedgerStep
<1> QED  BY <1>1, <1>2, <1>3, MergeInvariant, PTL DEF Spec, KeepsLedger, Ledger!Spec
=============================================================================
