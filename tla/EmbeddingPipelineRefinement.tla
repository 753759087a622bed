-------------------- MODULE EmbeddingPipelineRefinement --------------------
(***************************************************************************)
(* The pipeline implements SearchableMemory, for any number of memories,   *)
(* actors, failures and restarts.  A worker, sweep or edit writes the row  *)
(* of its memory, so each step that writes rows is mapped through the one  *)
(* row it writes; that the row had been accepted needs an invariant of its *)
(* own, for an uncommitted row may vanish under its job.                   *)
(***************************************************************************)
EXTENDS EmbeddingPipelineSafety

\* The four state functions that stand for the variables of SearchableMemory.
MState   == [m \in Memory |-> Reported(row[m])]
MIndexed == {m \in Memory : row[m].vector # NoVector}
MBehind  == [m \in Memory |-> row[m].dupOf]
MDeleted == {m \in Memory : row[m].deletedAt = "set"}
MVars    == <<MState, MIndexed, MBehind, MDeleted>>

\* Rows r and x look the same to a caller.
SameView(r, x) ==
    /\ Reported(x) = Reported(r)
    /\ (x.vector # NoVector) <=> (r.vector # NoVector)
    /\ x.dupOf = r.dupOf
    /\ (x.deletedAt = "set") <=> (r.deletedAt = "set")

\* A memory some actor works on or has on its list.
ActPresent(x) ==
    /\ x.pc \notin {"idle", "discover", "page", "next"} => x.m \in Memory /\ Exists(x.m)
    /\ \A e \in x.batch : e[1] \in Memory /\ Exists(e[1])

\* What actors and the retry map name exists, and what was never posted does not.
PresentInv ==
    /\ \A a \in Actors : ActPresent(act[a])
    /\ \A m \in Memory : retry[m].state = "queued" => Exists(m)
    /\ \A m \in Memory : job[m].state = "none" => row[m].status = "absent"

-----------------------------------------------------------------------------
(* One row changes                                                         *)

\* Writing row n changes the mapped state at n alone.
LEMMA OneRow ==
    ASSUME row \in [Memory -> Row], NEW n \in Memory, NEW x, row' = [row EXCEPT ![n] = x]
    PROVE  /\ MState' = [MState EXCEPT ![n] = Reported(x)]
           /\ MIndexed' = IF x.vector # NoVector THEN MIndexed \cup {n} ELSE MIndexed \ {n}
           /\ MBehind' = [MBehind EXCEPT ![n] = x.dupOf]
           /\ MDeleted' = IF x.deletedAt = "set" THEN MDeleted \cup {n} ELSE MDeleted \ {n}
<1> NoVector' = NoVector /\ Memory' = Memory
  BY DEF NoVector, Memory
<1>1. \A m \in Memory : row'[m] = IF m = n THEN x ELSE row[m]
  OBVIOUS
<1>2. MState' = [MState EXCEPT ![n] = Reported(x)]
  <2>1. MState' = [m \in Memory |-> Reported(row'[m])]
    BY DEF MState, Reported
  <2>2. MState' = [m \in Memory |-> IF m = n THEN Reported(x) ELSE Reported(row[m])]
    BY <1>1, <2>1
  <2> QED BY <2>2 DEF MState
<1>3. MIndexed' = IF x.vector # NoVector THEN MIndexed \cup {n} ELSE MIndexed \ {n}
  BY <1>1 DEF MIndexed
<1>4. MBehind' = [MBehind EXCEPT ![n] = x.dupOf]
  BY <1>1 DEF MBehind
<1>5. MDeleted' = IF x.deletedAt = "set" THEN MDeleted \cup {n} ELSE MDeleted \ {n}
  BY <1>1 DEF MDeleted
<1> QED BY <1>2, <1>3, <1>4, <1>5

\* A row written with the same view is a stuttering step of SearchableMemory.
LEMMA SameViewStutters ==
    ASSUME row \in [Memory -> Row], NEW n \in Memory, NEW x, row' = [row EXCEPT ![n] = x],
           SameView(row[n], x)
    PROVE  UNCHANGED MVars
<1>1. /\ MState' = [MState EXCEPT ![n] = Reported(x)]
      /\ MIndexed' = IF x.vector # NoVector THEN MIndexed \cup {n} ELSE MIndexed \ {n}
      /\ MBehind' = [MBehind EXCEPT ![n] = x.dupOf]
      /\ MDeleted' = IF x.deletedAt = "set" THEN MDeleted \cup {n} ELSE MDeleted \ {n}
  BY OneRow
<1>2. MState' = MState
  BY <1>1 DEF SameView, MState
<1>3. MIndexed' = MIndexed
  BY <1>1 DEF SameView, MIndexed
<1>4. MBehind' = MBehind
  BY <1>1 DEF SameView, MBehind
<1>5. MDeleted' = MDeleted
  BY <1>1 DEF SameView, MDeleted
<1> QED BY <1>2, <1>3, <1>4, <1>5 DEF MVars

\* Rolling a transaction back is invisible: an uncommitted row was not accepted.
LEMMA RollbackStutters ==
    ASSUME row \in [Memory -> Row], row' = RolledBack(row)
    PROVE  UNCHANGED MVars
<1> NoVector' = NoVector /\ Memory' = Memory
  BY DEF NoVector, Memory
<1>1. \A m \in Memory : /\ Reported(row'[m]) = Reported(row[m])
                        /\ row'[m].vector = row[m].vector
                        /\ row'[m].dupOf = row[m].dupOf
                        /\ row'[m].deletedAt = row[m].deletedAt
  <2> SUFFICES ASSUME NEW m \in Memory
               PROVE  /\ Reported(row'[m]) = Reported(row[m])
                      /\ row'[m].vector = row[m].vector
                      /\ row'[m].dupOf = row[m].dupOf
                      /\ row'[m].deletedAt = row[m].deletedAt
    OBVIOUS
  <2>1. row[m] \in Row
    OBVIOUS
  <2>2. CASE row[m].status = "uncommitted"
    <3>1. row'[m] = [row[m] EXCEPT !.status = "absent"]
      BY <2>2 DEF RolledBack
    <3> QED BY <2>1, <2>2, <3>1 DEF Reported, Row
  <2>3. CASE row[m].status # "uncommitted"
    <3>1. row'[m] = row[m]
      BY <2>3 DEF RolledBack
    <3> QED BY <3>1
  <2> QED BY <2>2, <2>3
<1>2. MState' = [m \in Memory |-> Reported(row'[m])]
  BY DEF MState, Reported
<1>3. MState' = MState
  BY <1>1, <1>2 DEF MState
<1>4. MIndexed' = MIndexed /\ MBehind' = MBehind /\ MDeleted' = MDeleted
  BY <1>1 DEF MIndexed, MBehind, MDeleted
<1> QED BY <1>3, <1>4 DEF MVars

\* Apart from what it reports, row x looks like row r.
SameRest(r, x) ==
    /\ (x.vector # NoVector) <=> (r.vector # NoVector)
    /\ x.dupOf = r.dupOf
    /\ (x.deletedAt = "set") <=> (r.deletedAt = "set")

\* Accepting, completing and reopening write the status alone.
LEMMA StatusStep ==
    ASSUME row \in [Memory -> Row], NEW n \in Memory, NEW x, row' = [row EXCEPT ![n] = x],
           SameRest(row[n], x),
           \/ Reported(row[n]) = "absent" /\ Reported(x) = "pending"
           \/ Exists(n) /\ Reported(x) = "pending"
           \/ Exists(n) /\ Reported(x) = "complete" /\ row[n].vector # NoVector
    PROVE  Promise!Next
<1>1. /\ MState' = [MState EXCEPT ![n] = Reported(x)]
      /\ MIndexed' = MIndexed /\ MBehind' = MBehind /\ MDeleted' = MDeleted
  <2>1. /\ MState' = [MState EXCEPT ![n] = Reported(x)]
        /\ MIndexed' = IF x.vector # NoVector THEN MIndexed \cup {n} ELSE MIndexed \ {n}
        /\ MBehind' = [MBehind EXCEPT ![n] = x.dupOf]
        /\ MDeleted' = IF x.deletedAt = "set" THEN MDeleted \cup {n} ELSE MDeleted \ {n}
    BY OneRow
  <2>2. MIndexed' = MIndexed
    BY <2>1 DEF SameRest, MIndexed
  <2>3. MBehind' = MBehind
    BY <2>1 DEF SameRest, MBehind
  <2>4. MDeleted' = MDeleted
    BY <2>1 DEF SameRest, MDeleted
  <2> QED BY <2>1, <2>2, <2>3, <2>4
<1>2. MState[n] = Reported(row[n])
  BY DEF MState
<1>e. Exists(n) => MState[n] # "absent"
  BY <1>2 DEF Exists, Reported, Row, Statuses
<1>3. CASE Reported(row[n]) = "absent" /\ Reported(x) = "pending"
  <2>1. Promise!Accept(n)
    BY <1>1, <1>2, <1>3 DEF Promise!Accept, Promise!Accepted, MState, MIndexed, MBehind, MDeleted
  <2> QED BY <2>1 DEF Promise!Next
<1>4. CASE Exists(n) /\ Reported(x) = "pending"
  <2>1. Promise!Reopen(n)
    BY <1>1, <1>e, <1>4 DEF Promise!Reopen, Promise!Accepted, MState, MIndexed, MBehind, MDeleted
  <2> QED BY <2>1 DEF Promise!Next
<1>5. CASE Exists(n) /\ Reported(x) = "complete" /\ row[n].vector # NoVector
  <2>1. n \in MIndexed
    BY <1>5 DEF MIndexed
  <2>2. Promise!Complete(n)
    BY <1>1, <1>e, <1>5, <2>1
       DEF Promise!Complete, Promise!Accepted, MState, MIndexed, MBehind, MDeleted
  <2> QED BY <2>2 DEF Promise!Next
<1> QED BY <1>3, <1>4, <1>5

\* Storing a vector, hiding behind an indexed row and deleting.
LEMMA IndexStep ==
    ASSUME row \in [Memory -> Row], NEW n \in Memory, NEW x, row' = [row EXCEPT ![n] = x],
           Exists(n), Reported(x) = Reported(row[n]), x.vector # NoVector,
           x.dupOf = row[n].dupOf, x.deletedAt = row[n].deletedAt
    PROVE  Promise!Next
<1>0. /\ MState' = [MState EXCEPT ![n] = Reported(x)]
      /\ MIndexed' = IF x.vector # NoVector THEN MIndexed \cup {n} ELSE MIndexed \ {n}
      /\ MBehind' = [MBehind EXCEPT ![n] = x.dupOf]
      /\ MDeleted' = IF x.deletedAt = "set" THEN MDeleted \cup {n} ELSE MDeleted \ {n}
  BY OneRow
<1>1. MIndexed' = MIndexed \cup {n}
  BY <1>0
<1>2. MState' = MState
  BY <1>0 DEF MState
<1>3. MBehind' = MBehind
  BY <1>0 DEF MBehind
<1>4. MDeleted' = MDeleted
  BY <1>0 DEF MDeleted
<1>5. MState[n] # "absent"
  BY DEF MState, Exists, Reported, Row, Statuses
<1>6. Promise!Index(n)
  BY <1>1, <1>2, <1>3, <1>4, <1>5
     DEF Promise!Index, Promise!Accepted, MState, MIndexed, MBehind, MDeleted
<1> QED BY <1>6 DEF Promise!Next

LEMMA HideStep ==
    ASSUME row \in [Memory -> Row], NEW n \in Memory, NEW x, row' = [row EXCEPT ![n] = x],
           NEW k \in Memory, k # n, row[k].vector # NoVector,
           Exists(n), Reported(x) = "hidden", x.dupOf = k,
           x.vector = row[n].vector, x.deletedAt = row[n].deletedAt
    PROVE  Promise!Next
<1>0. /\ MState' = [MState EXCEPT ![n] = Reported(x)]
      /\ MIndexed' = IF x.vector # NoVector THEN MIndexed \cup {n} ELSE MIndexed \ {n}
      /\ MBehind' = [MBehind EXCEPT ![n] = x.dupOf]
      /\ MDeleted' = IF x.deletedAt = "set" THEN MDeleted \cup {n} ELSE MDeleted \ {n}
  BY OneRow
<1>1. MState' = [MState EXCEPT ![n] = "hidden"] /\ MBehind' = [MBehind EXCEPT ![n] = k]
  BY <1>0
<1>2. MIndexed' = MIndexed
  BY <1>0 DEF MIndexed
<1>3. MDeleted' = MDeleted
  BY <1>0 DEF MDeleted
<1>4. MState[n] # "absent" /\ k \in MIndexed \ {n}
  BY DEF MState, MIndexed, Exists, Reported, Row, Statuses
<1>5. Promise!Hide(n, k)
  BY <1>1, <1>2, <1>3, <1>4
     DEF Promise!Hide, Promise!Accepted, MState, MIndexed, MBehind, MDeleted
<1> QED BY <1>5 DEF Promise!Next

LEMMA RemoveStep ==
    ASSUME row \in [Memory -> Row], NEW n \in Memory, NEW x, row' = [row EXCEPT ![n] = x],
           Exists(n), Reported(x) = Reported(row[n]), x.deletedAt = "set",
           x.dupOf = row[n].dupOf, x.vector = row[n].vector
    PROVE  Promise!Next
<1>1. /\ MState' = [MState EXCEPT ![n] = Reported(x)]
      /\ MIndexed' = IF x.vector # NoVector THEN MIndexed \cup {n} ELSE MIndexed \ {n}
      /\ MBehind' = [MBehind EXCEPT ![n] = x.dupOf]
      /\ MDeleted' = MDeleted \cup {n}
  BY OneRow
<1>2. MState' = MState
  BY <1>1 DEF MState
<1>3. MBehind' = MBehind
  BY <1>1 DEF MBehind
<1>4. MIndexed' = MIndexed
  BY <1>1 DEF MIndexed
<1>5. MState[n] # "absent"
  BY DEF MState, Exists, Reported, Row, Statuses
<1>6. Promise!Remove(n)
  BY <1>1, <1>2, <1>3, <1>4, <1>5
     DEF Promise!Remove, Promise!Accepted, MState, MIndexed, MBehind, MDeleted
<1> QED BY <1>6 DEF Promise!Next

-----------------------------------------------------------------------------
(* The steps of the pipeline                                               *)

LEMMA NoRowChange ==
    ASSUME UNCHANGED row  PROVE UNCHANGED MVars
BY DEF MVars, MState, MIndexed, MBehind, MDeleted, Reported, NoVector, Memory

\* Posting and deleting: accepted, invisible, or removed.
LEMMA PostRefines ==
    ASSUME TypeOK, PresentInv, NEW n \in Memory, Post(n) \/ Delete(n)
    PROVE  Promise!Next \/ UNCHANGED MVars
<1> row \in [Memory -> Row] /\ row[n] \in Row
  BY DEF TypeOK
<1>1. CASE Create(n)
  <2>1. row[n].status = "absent"
    BY <1>1 DEF Create, PresentInv
  <2>2. PICK s \in {"PENDING", "uncommitted"} : row' = [row EXCEPT ![n].status = s]
    BY <1>1 DEF Create
  <2>3. PICK x : x = [row[n] EXCEPT !.status = s]
    OBVIOUS
  <2>4. row' = [row EXCEPT ![n] = x]
    BY <2>2, <2>3
  <2>5. SameRest(row[n], x)
    BY <2>3 DEF SameRest, Row
  <2>6. x.status = s
    BY <2>3 DEF Row
  <2>7. Reported(row[n]) = "absent"
    BY <2>1 DEF Reported
  <2>8. CASE s = "PENDING"
    <3>1. Reported(x) = "pending"
      BY <2>6, <2>8 DEF Reported
    <3> QED BY <2>4, <2>5, <2>7, <3>1, StatusStep
  <2>9. CASE s = "uncommitted"
    <3>1. Reported(x) = "absent"
      BY <2>6, <2>9 DEF Reported
    <3>2. SameView(row[n], x)
      BY <2>5, <2>7, <3>1 DEF SameView, SameRest
    <3> QED BY <2>4, <3>2, SameViewStutters
  <2> QED BY <2>2, <2>8, <2>9
<1>2. CASE Commit(n)
  <2>1. row[n].status = "uncommitted" /\ row' = [row EXCEPT ![n].status = "PENDING"]
    BY <1>2 DEF Commit
  <2>2. PICK x : x = [row[n] EXCEPT !.status = "PENDING"]
    OBVIOUS
  <2>3. row' = [row EXCEPT ![n] = x]
    BY <2>1, <2>2
  <2>4. SameRest(row[n], x) /\ Reported(x) = "pending"
    BY <2>2 DEF SameRest, Row, Reported
  <2>5. Reported(row[n]) = "absent"
    BY <2>1 DEF Reported
  <2> QED BY <2>3, <2>4, <2>5, StatusStep
<1>3. CASE EnqueueFails(n) \/ CommitFails(n)
  <2>1. PICK x : x = RolledBack(row)[n]
    OBVIOUS
  <2>2. row' = [row EXCEPT ![n] = x]
    BY <1>3, <2>1 DEF EnqueueFails, CommitFails
  <2>3. x = IF row[n].status = "uncommitted" THEN [row[n] EXCEPT !.status = "absent"]
                                              ELSE row[n]
    BY <2>1 DEF RolledBack
  <2>4. CASE row[n].status = "uncommitted"
    <3>1. SameView(row[n], x)
      BY <2>3, <2>4 DEF SameView, Reported, Row
    <3> QED BY <2>2, <3>1, SameViewStutters
  <2>5. CASE row[n].status # "uncommitted"
    <3>1. SameView(row[n], x)
      BY <2>3, <2>5 DEF SameView
    <3> QED BY <2>2, <3>1, SameViewStutters
  <2> QED BY <2>4, <2>5
<1>4. CASE Delete(n)
  <2>1. Exists(n) /\ row' = [row EXCEPT ![n].deletedAt = "set"]
    BY <1>4 DEF Delete, Live
  <2>2. PICK x : x = [row[n] EXCEPT !.deletedAt = "set"]
    OBVIOUS
  <2>3. row' = [row EXCEPT ![n] = x]
    BY <2>1, <2>2
  <2>4. /\ x.status = row[n].status /\ x.deletedAt = "set"
        /\ x.dupOf = row[n].dupOf /\ x.vector = row[n].vector
    BY <2>2 DEF Row
  <2>5. Reported(x) = Reported(row[n])
    BY <2>4 DEF Reported
  <2> QED BY <2>1, <2>3, <2>4, <2>5, RemoveStep
<1>5. CASE Enqueue(n)
  BY <1>5, NoRowChange DEF Enqueue
<1> QED BY <1>1, <1>2, <1>3, <1>4, <1>5 DEF Post

\* A failure recorded on an accepted row reopens it.
LEMMA MarkFailedRefines ==
    ASSUME TypeOK, NEW n \in Memory, Exists(n), MarkFailed(n)
    PROVE  Promise!Next \/ UNCHANGED MVars
<1> row \in [Memory -> Row] /\ row[n] \in Row
  BY DEF TypeOK
<1>1. CASE row' = [row EXCEPT ![n].status = "FAILED"]
  <2>1. PICK x : x = [row[n] EXCEPT !.status = "FAILED"]
    OBVIOUS
  <2>2. row' = [row EXCEPT ![n] = x]
    BY <1>1, <2>1
  <2>3. SameRest(row[n], x) /\ Reported(x) = "pending"
    BY <2>1 DEF SameRest, Row, Reported
  <2> QED BY <2>2, <2>3, StatusStep
<1> QED BY <1>1, NoRowChange DEF MarkFailed

\* The worker's own writes: extraction, FAILED, DUPLICATE.
LEMMA ProcessorRefines ==
    ASSUME TypeOK, EmbedInv, PresentInv, NEW w \in Workers,
           \/ SaveExtraction(w)
           \/ Reject(w) /\ act[w].pc \in {"extract", "embed"}
           \/ MarkDuplicate(w)
    PROVE  Promise!Next \/ UNCHANGED MVars
<1> /\ row \in [Memory -> Row] /\ w \in Actors
    /\ ActPresent(act[w]) /\ ActSound(act[w])
  BY DEF TypeOK, Actors, PresentInv, EmbedInv
<1> DEFINE n == act[w].m
<1>0. n \in Memory /\ Exists(n) /\ row[n] \in Row
  BY DEF ActPresent, SaveExtraction, MarkDuplicate
<1>1. CASE SaveExtraction(w)
  <2>1. PICK x : x = [row[n] EXCEPT !.extraction = "set"]
    OBVIOUS
  <2>2. row' = [row EXCEPT ![n] = x]
    BY <1>1, <2>1 DEF SaveExtraction
  <2>3. SameView(row[n], x)
    BY <1>0, <2>1 DEF SameView, Row, Reported
  <2> HIDE DEF n
  <2> QED BY <1>0, <2>2, <2>3, SameViewStutters
<1>2. CASE Reject(w)
  <2>1. MarkFailed(n)
    BY <1>2 DEF Reject
  <2> HIDE DEF n
  <2> QED BY <1>0, <2>1, MarkFailedRefines
<1>3. CASE MarkDuplicate(w)
  <2>1. PICK k : k = act[w].match
    OBVIOUS
  <2>2. k \in Memory /\ k # n /\ row[k].vector # NoVector
    BY <1>3, <2>1 DEF MarkDuplicate, ActSound, Stored
  <2>3. PICK x : x = [row[n] EXCEPT !.status = "DUPLICATE", !.dupOf = k]
    OBVIOUS
  <2>4. row' = [row EXCEPT ![n] = x]
    BY <1>3, <2>1, <2>3 DEF MarkDuplicate
  <2>5. /\ x.status = "DUPLICATE" /\ x.dupOf = k
        /\ x.vector = row[n].vector /\ x.deletedAt = row[n].deletedAt
    BY <1>0, <2>3 DEF Row
  <2>6. Reported(x) = "hidden"
    BY <2>5 DEF Reported
  <2> HIDE DEF n
  <2> QED BY <1>0, <2>2, <2>4, <2>5, <2>6, HideStep
<1> QED BY <1>1, <1>2, <1>3

\* What every caller of generateAndStoreEmbedding writes, and the healer's mark.
LEMMA EmbedRefines ==
    ASSUME TypeOK, EmbedInv, PresentInv, NEW a \in Actors,
           Embed(a) \/ Mark(a) \/ EmbedFails(a) \/ Healed(a)
    PROVE  Promise!Next \/ UNCHANGED MVars
<1> /\ row \in [Memory -> Row] /\ act[a].raw \in Version
    /\ ActPresent(act[a]) /\ ActSound(act[a])
  BY DEF TypeOK, PresentInv, EmbedInv, Act
<1> DEFINE n == act[a].m
<1>0. n \in Memory /\ Exists(n) /\ row[n] \in Row
  BY DEF ActPresent, Embed, Mark, EmbedFails, Healed
<1>1. CASE Embed(a)
  <2>1. PICK x : x = [row[n] EXCEPT !.vector = act[a].raw]
    OBVIOUS
  <2>2. row' = [row EXCEPT ![n] = x]
    BY <1>1, <2>1 DEF Embed
  <2>3. /\ x.vector = act[a].raw /\ x.status = row[n].status
        /\ x.dupOf = row[n].dupOf /\ x.deletedAt = row[n].deletedAt
    BY <1>0, <2>1 DEF Row
  <2>4. x.vector # NoVector
    BY <2>3, BoundsAssumption DEF BoundsAssumption, Version, NoVector
  <2>5. Reported(x) = Reported(row[n])
    BY <2>3 DEF Reported
  <2> HIDE DEF n
  <2> QED BY <1>0, <2>2, <2>3, <2>4, <2>5, IndexStep
<1>2. CASE Mark(a)
  <2>1. PICK x : x = [row[n] EXCEPT !.status = "COMPLETE", !.embeddingId = "set"]
    OBVIOUS
  <2>2. row' = [row EXCEPT ![n] = x] /\ row[n].vector # NoVector
    BY <1>2, <2>1 DEF Mark, ActSound, Stored
  <2>3. SameRest(row[n], x)
    BY <1>0, <2>1 DEF SameRest, Row
  <2>4. Reported(x) = "complete"
    BY <1>0, <2>1 DEF Reported, Row
  <2> HIDE DEF n
  <2> QED BY <1>0, <2>2, <2>3, <2>4, StatusStep
<1>3. CASE EmbedFails(a)
  <2>1. MarkFailed(n)
    BY <1>3 DEF EmbedFails
  <2> HIDE DEF n
  <2> QED BY <1>0, <2>1, MarkFailedRefines
<1>4. CASE Healed(a)
  <2>1. PICK x : x = [row[n] EXCEPT !.embeddingId = "set"]
    OBVIOUS
  <2>2. row' = [row EXCEPT ![n] = x]
    BY <1>4, <2>1 DEF Healed
  <2>3. SameView(row[n], x)
    BY <1>0, <2>1 DEF SameView, Row, Reported
  <2> HIDE DEF n
  <2> QED BY <1>0, <2>2, <2>3, SameViewStutters
<1> QED BY <1>1, <1>2, <1>3, <1>4

\* An edit is invisible until its vector is stored, or indexes in one transaction.
LEMMA EditRefines ==
    ASSUME TypeOK, NEW e \in Editors, NEW n \in Memory, Edit(e, n) \/ EditCommits(e, n)
    PROVE  Promise!Next \/ UNCHANGED MVars
<1> /\ row \in [Memory -> Row] /\ row[n] \in Row
    /\ Exists(n) /\ row[n].text \in Version /\ row[n].text < MaxEdits
  BY DEF TypeOK, Edit, EditCommits, Live, Row
<1> DEFINE t == row[n].text + 1
<1>1. CASE Edit(e, n)
  <2>1. PICK x : x = [row[n] EXCEPT !.text = t]
    OBVIOUS
  <2>2. row' = [row EXCEPT ![n] = x]
    BY <1>1, <2>1 DEF Edit
  <2>3. SameView(row[n], x)
    BY <2>1 DEF SameView, Row, Reported
  <2> QED BY <2>2, <2>3, SameViewStutters
<1>2. CASE EditCommits(e, n)
  <2>1. PICK x : x = [row[n] EXCEPT !.text = t, !.vector = t]
    OBVIOUS
  <2>2. row' = [row EXCEPT ![n] = x]
    BY <1>2, <2>1 DEF EditCommits
  <2>3. /\ x.vector = t /\ x.status = row[n].status
        /\ x.dupOf = row[n].dupOf /\ x.deletedAt = row[n].deletedAt
    BY <2>1 DEF Row
  <2>4. x.vector # NoVector
    BY <2>3, BoundsAssumption DEF BoundsAssumption, Version, NoVector
  <2>5. Reported(x) = Reported(row[n])
    BY <2>3 DEF Reported
  <2> HIDE DEF t
  <2> QED BY <2>2, <2>3, <2>4, <2>5, IndexStep
<1> QED BY <1>1, <1>2

\* Every step of the pipeline is a step of SearchableMemory or invisible.
LEMMA StepRefines ==
    ASSUME TypeOK, EmbedInv, PresentInv, [Next]_vars
    PROVE  Promise!Next \/ UNCHANGED MVars
<1>1. CASE UNCHANGED row
  BY <1>1, NoRowChange
<1>2. ASSUME NEW w \in Workers, WorkerStep(w)  PROVE Promise!Next \/ UNCHANGED MVars
  <2>1. CASE ExtractionExists(w) \/ PipelineFails(w)
    <3>1. Reject(w) /\ act[w].pc \in {"extract", "embed"}
      BY <2>1 DEF ExtractionExists, PipelineFails
    <3> QED BY <3>1, ProcessorRefines
  <2>2. CASE SaveExtraction(w) \/ MarkDuplicate(w)
    BY <2>2, ProcessorRefines
  <2>3. CASE Embed(w) \/ Mark(w) \/ EmbedFails(w)
    BY <2>3, EmbedRefines DEF Actors
  <2>4. CASE \/ \E m \in Memory : Take(w, m)
             \/ Unqueue(w) \/ MatchFound(w) \/ NoMatch(w) \/ MarkDuplicateFails(w)
    BY <1>1, <2>4 DEF Take, Unqueue, MatchFound, NoMatch, MarkDuplicateFails
  <2> QED BY <1>2, <2>1, <2>2, <2>3, <2>4 DEF WorkerStep
<1>3. ASSUME NEW r \in Retriers, RetrierStep(r)  PROVE Promise!Next \/ UNCHANGED MVars
  BY <1>3, <1>1, EmbedRefines
     DEF RetrierStep, Actors, ReadPage, DiscoverFails, QueuePage, Pick, Unqueue
<1>4. ASSUME NEW h \in Healers, HealerStep(h)  PROVE Promise!Next \/ UNCHANGED MVars
  BY <1>4, <1>1, EmbedRefines DEF HealerStep, Actors, HealStart, Pick, HealFails
<1>5. ASSUME NEW e \in Editors, EditorStep(e)  PROVE Promise!Next \/ UNCHANGED MVars
  BY <1>5, <1>1, EmbedRefines, EditRefines DEF EditorStep, Actors, EditFails
<1>6. CASE Restart
  BY <1>6, RollbackStutters DEF Restart, TypeOK
<1>7. ASSUME NEW w \in Workers, Stall(w)  PROVE Promise!Next \/ UNCHANGED MVars
  BY <1>7, <1>1 DEF Stall
<1> QED BY <1>1, <1>2, <1>3, <1>4, <1>5, <1>6, <1>7, PostRefines DEF Next, vars

-----------------------------------------------------------------------------
(* PresentInv is inductive                                                 *)

\* What callers were promised stays accepted, so what exists goes on existing.
LEMMA ExistsStays ==
    ASSUME TypeOK, EmbedInv, PresentInv, [Next]_vars, NEW m \in Memory, Exists(m)
    PROVE  Exists(m)'
<1> row \in [Memory -> Row] /\ Memory' = Memory
  BY DEF TypeOK, Memory
<1>1. MState[m] # "absent"
  BY DEF MState, Exists, Reported, Row, Statuses
<1>2. MState'[m] # "absent"
  <2>1. Promise!Next \/ UNCHANGED MVars
    BY StepRefines
  <2>2. MState = [n \in Memory |-> Reported(row[n])]
    BY DEF MState
  <2>3. CASE UNCHANGED MVars
    BY <1>1, <2>3 DEF MVars
  <2>4. ASSUME NEW n \in Memory,
               \/ Promise!Accept(n) \/ Promise!Index(n) \/ Promise!Complete(n)
               \/ Promise!Reopen(n) \/ Promise!Remove(n)
               \/ \E k \in Memory : Promise!Hide(n, k)
        PROVE  \E s \in {MState[m], "pending", "complete", "hidden"} : MState'[m] = s
    BY <2>4 DEF Promise!Accept, Promise!Index, Promise!Complete, Promise!Reopen,
                Promise!Remove, Promise!Hide, MState
  <2> QED BY <1>1, <2>1, <2>3, <2>4 DEF Promise!Next
<1>3. MState'[m] = Reported(row'[m])
  BY DEF MState, Reported
<1> QED BY <1>2, <1>3 DEF Exists, Reported

\* Actors write rows that exist and post nothing, so an absent row without a job
\* stays as it is until it is created.
LEMMA ActorsWriteExisting ==
    ASSUME TypeOK, EmbedInv, PresentInv, NEW a \in Actors,
           \/ SaveExtraction(a) \/ MarkDuplicate(a)
           \/ Reject(a) /\ act[a].pc \in {"extract", "embed"}
           \/ Embed(a) \/ Mark(a) \/ EmbedFails(a) \/ Healed(a)
           \/ \E n \in Memory : Edit(a, n) \/ EditCommits(a, n),
           NEW m \in Memory, ~Exists(m)
    PROVE  row'[m] = row[m]
<1> row \in [Memory -> Row] /\ ActPresent(act[a])
  BY DEF TypeOK, PresentInv
<1>1. CASE \E n \in Memory : Edit(a, n) \/ EditCommits(a, n)
  BY <1>1 DEF Edit, EditCommits, Live
<1>2. CASE ~ \E n \in Memory : Edit(a, n) \/ EditCommits(a, n)
  <2>1. act[a].pc \notin {"idle", "discover", "page", "next"}
    BY <1>2 DEF SaveExtraction, MarkDuplicate, Embed, Mark, EmbedFails, Healed
  <2>2. act[a].m # m
    BY <2>1 DEF ActPresent
  <2> QED BY <1>2, <2>2
          DEF SaveExtraction, MarkDuplicate, Reject, MarkFailed, Embed, Mark, EmbedFails, Healed
<1> QED BY <1>1, <1>2

LEMMA UnpostedStays ==
    ASSUME TypeOK, EmbedInv, PresentInv, [Next]_vars, NEW m \in Memory, job'[m].state = "none"
    PROVE  row'[m].status = "absent"
<1> row \in [Memory -> Row] /\ job \in [Memory -> Job]
  BY DEF TypeOK
<1>g. ASSUME job[m].state = "none", row'[m] = row[m]  PROVE row'[m].status = "absent"
  BY <1>g DEF PresentInv
<1>a. ASSUME job[m].state = "none"  PROVE ~Exists(m)
  BY <1>a DEF PresentInv, Exists
<1>1. CASE UNCHANGED vars
  BY <1>1, <1>g DEF vars
<1>2. ASSUME NEW n \in Memory, Post(n) \/ Delete(n)  PROVE row'[m].status = "absent"
  <2>1. CASE n = m
    <3>1. CASE Create(n) \/ Enqueue(n) \/ EnqueueFails(n)
      BY <2>1, <3>1 DEF Create, Enqueue, EnqueueFails, Job
    <3>2. CASE Commit(n) \/ CommitFails(n)
      BY <2>1, <3>2 DEF Commit, CommitFails, PresentInv
    <3>3. CASE Delete(n)
      BY <2>1, <3>3, <1>a DEF Delete, Live
    <3> QED BY <1>2, <3>1, <3>2, <3>3 DEF Post
  <2>2. CASE n # m
    <3>1. row'[m] = row[m] /\ job'[m] = job[m]
      BY <1>2, <2>2 DEF Post, Create, Enqueue, EnqueueFails, Commit, CommitFails, Delete
    <3> QED BY <3>1, <1>g
  <2> QED BY <2>1, <2>2
<1>3. CASE Restart
  <2>1. job[m].state = "none"
    <3>1. Stalled(job[m]).state # "none"
      BY DEF Stalled, Ended, Job
    <3> QED BY <1>3, <3>1 DEF Restart, Job
  <2>2. row[m].status = "absent"
    BY <2>1 DEF PresentInv
  <2> QED BY <1>3, <2>2 DEF Restart, RolledBack
<1>4. ASSUME NEW w \in Workers, WorkerStep(w)  PROVE row'[m].status = "absent"
  <2>1. job[m].state = "none"
    <3>1. ASSUME NEW n \in Memory, Take(w, n)  PROVE job[m].state = "none"
      <4>1. job'[m] = job[m] \/ job'[m].state \in {"active", "done"}
        BY <3>1 DEF Take, Ended, Job
      <4> QED BY <4>1
    <3>2. CASE ExtractionExists(w) \/ PipelineFails(w)
      <4>1. Reject(w) /\ job[m] \in Job
        BY <3>2 DEF ExtractionExists, PipelineFails
      <4>2. CASE act[w].m = m
        <5>1. job'[m] = job[m] \/ job'[m].state \in {"waiting", "failed"}
          BY <4>1, <4>2 DEF Reject, Report, Ended, Job
        <5> QED BY <5>1
      <4>3. CASE act[w].m # m
        BY <4>1, <4>3 DEF Reject, Report
      <4> QED BY <4>2, <4>3
    <3>3. CASE NoMatch(w) \/ MarkDuplicate(w) \/ MarkDuplicateFails(w)
      <4>1. job'[m] = job[m] \/ job'[m].state = "done"
        BY <3>3 DEF NoMatch, MarkDuplicate, MarkDuplicateFails, Completes, Report, Ended
      <4> QED BY <4>1
    <3>4. CASE SaveExtraction(w) \/ Embed(w) \/ Mark(w) \/ Unqueue(w) \/ EmbedFails(w) \/ MatchFound(w)
      BY <3>4 DEF SaveExtraction, Embed, Mark, Unqueue, EmbedFails, MatchFound
    <3> QED BY <1>4, <3>1, <3>2, <3>3, <3>4 DEF WorkerStep
  <2>2. row'[m] = row[m]
    <3>1. CASE ExtractionExists(w) \/ PipelineFails(w)
      <4>1. Reject(w) /\ act[w].pc \in {"extract", "embed"}
        BY <3>1 DEF ExtractionExists, PipelineFails
      <4> QED BY <4>1, <2>1, <1>a, ActorsWriteExisting DEF Actors
    <3>2. CASE SaveExtraction(w) \/ MarkDuplicate(w) \/ Embed(w) \/ Mark(w) \/ EmbedFails(w)
      BY <3>2, <2>1, <1>a, ActorsWriteExisting DEF Actors
    <3>3. CASE \/ \E n \in Memory : Take(w, n)
               \/ Unqueue(w) \/ MatchFound(w) \/ NoMatch(w) \/ MarkDuplicateFails(w)
      BY <3>3 DEF Take, Unqueue, MatchFound, NoMatch, MarkDuplicateFails
    <3> QED BY <1>4, <3>1, <3>2, <3>3 DEF WorkerStep
  <2> QED BY <2>1, <2>2, <1>g
<1>5. ASSUME NEW a \in Retriers \cup Healers \cup Editors,
             \/ ReadPage(a) \/ DiscoverFails(a) \/ QueuePage(a)
             \/ Pick(a) \/ Unqueue(a) \/ HealStart(a) \/ HealFails(a) \/ EditFails(a)
             \/ Embed(a) \/ Mark(a) \/ EmbedFails(a) \/ Healed(a)
             \/ \E n \in Memory : Edit(a, n) \/ EditCommits(a, n)
      PROVE  row'[m].status = "absent"
  <2>1. job' = job
    BY <1>5 DEF ReadPage, DiscoverFails, QueuePage, Pick, Unqueue, HealStart, HealFails, EditFails,
                Embed, Mark, EmbedFails, Healed, Edit, EditCommits
  <2>2. row'[m] = row[m]
    <3>1. CASE \/ ReadPage(a) \/ DiscoverFails(a) \/ QueuePage(a)
               \/ Pick(a) \/ Unqueue(a) \/ HealStart(a) \/ HealFails(a) \/ EditFails(a)
      BY <3>1 DEF ReadPage, DiscoverFails, QueuePage, Pick, Unqueue, HealStart, HealFails, EditFails
    <3> QED BY <1>5, <3>1, <2>1, <1>a, ActorsWriteExisting DEF Actors
  <2> QED BY <2>1, <2>2, <1>g
<1>6. ASSUME NEW w \in Workers, Stall(w)  PROVE row'[m].status = "absent"
  <2>1. job'[m] = job[m] \/ job'[m].state \in {"waiting", "failed"}
    BY <1>6 DEF Stall, Stalled, Ended, Job
  <2>2. row'[m] = row[m]
    BY <1>6 DEF Stall
  <2> QED BY <2>1, <2>2, <1>g
<1> QED BY <1>1, <1>2, <1>3, <1>4, <1>5, <1>6 DEF Next, RetrierStep, HealerStep, EditorStep

\* A step of one actor leaves every actor present.
LEMMA ActorPresent ==
    ASSUME TypeOK, EmbedInv, PresentInv, [Next]_vars, NEW a \in Actors, NEW x, ActPresent(x),
           act' = [act EXCEPT ![a] = x]
    PROVE  \A b \in Actors : ActPresent(act[b])'
<1> act \in [Actors -> Act] /\ Memory' = Memory
  BY DEF TypeOK, Memory
<1> SUFFICES ASSUME NEW b \in Actors  PROVE ActPresent(act[b])'
  OBVIOUS
<1>1. PICK y : y = act'[b]
  OBVIOUS
<1>2. ActPresent(y)
  BY <1>1 DEF PresentInv
<1>3. \A m \in Memory : Exists(m) => Exists(m)'
  BY ExistsStays
<1> QED BY <1>1, <1>2, <1>3 DEF ActPresent

\* So does a step in which no actor moves.
LEMMA ActsPresent ==
    ASSUME TypeOK, EmbedInv, PresentInv, [Next]_vars, UNCHANGED act
    PROVE  \A b \in Actors : ActPresent(act[b])'
<1> Memory' = Memory
  BY DEF Memory
<1>1. \A m \in Memory : Exists(m) => Exists(m)'
  BY ExistsStays
<1> QED BY <1>1 DEF ActPresent, PresentInv

\* The local states an actor enters name what exists.
LEMMA PlainPresent ==
    ASSUME NEW m \in Memory, Exists(m), NEW x, x.m = m, x.batch = {}
    PROVE  ActPresent(x)
BY DEF ActPresent

LEMMA ProgressPresent ==
    ASSUME TypeOK, NEW a \in Actors, ActPresent(act[a]), act[a].pc \notin {"idle", "discover", "page", "next"}
    PROVE  /\ ActPresent(Resume(a)) /\ ActPresent(Idle)
           /\ \A c : ActPresent([act[a] EXCEPT !.pc = c])
           /\ \A c, k : ActPresent([act[a] EXCEPT !.pc = c, !.match = k])
           /\ \A k : ActPresent([Resume(a) EXCEPT !.misses = k])
<1> act[a] \in Act
  BY DEF TypeOK
<1>1. \A c : ActPresent([act[a] EXCEPT !.pc = c])
  BY DEF ActPresent, Act
<1>2. \A c, k : ActPresent([act[a] EXCEPT !.pc = c, !.match = k])
  BY DEF ActPresent, Act
<1>3. ActPresent(Idle)
  BY DEF ActPresent, Idle
<1>4. ActPresent(Resume(a)) /\ \A k : ActPresent([Resume(a) EXCEPT !.misses = k])
  <2>1. CASE a \in Workers
    BY <2>1 DEF ActPresent, Resume, Act
  <2>2. CASE a \notin Workers /\ act[a].batch = {}
    BY <2>2 DEF ActPresent, Resume, Idle
  <2>3. CASE a \notin Workers /\ act[a].batch # {}
    BY <2>3 DEF ActPresent, Resume, Act
  <2> QED BY <2>1, <2>2, <2>3
<1> QED BY <1>1, <1>2, <1>3, <1>4

\* A page queues only rows it read.
LEMMA PageQueues ==
    ASSUME PresentInv, NEW r \in Actors, QueuePage(r), NEW m \in Memory,
           retry'[m].state = "queued"
    PROVE  Exists(m)
<1>1. CASE \E e \in NewInPage(r) : e[1] = m
  BY <1>1 DEF NewInPage, PresentInv, ActPresent
<1>2. CASE ~\E e \in NewInPage(r) : e[1] = m
  <2>1. retry'[m] = retry[m]
    BY <1>2 DEF QueuePage
  <2> QED BY <2>1 DEF PresentInv
<1> QED BY <1>1, <1>2

\* Taking up a memory: a worker its job, an editor its row, a sweep its list.
LEMMA StartPresent ==
    ASSUME TypeOK, EmbedInv, PresentInv, [Next]_vars, NEW a \in Actors,
           \/ \E m \in Memory : Take(a, m) \/ Edit(a, m)
           \/ ReadPage(a) \/ DiscoverFails(a) \/ QueuePage(a) \/ HealStart(a) \/ Pick(a)
    PROVE  \A b \in Actors : ActPresent(act[b])'
<1> act \in [Actors -> Act] /\ act[a] \in Act /\ ActPresent(act[a])
  BY DEF TypeOK, PresentInv
<1>1. ASSUME NEW m \in Memory, Take(a, m) \/ Edit(a, m)
      PROVE  \A b \in Actors : ActPresent(act[b])'
  <2>1. CASE UNCHANGED act
    BY <2>1, ActsPresent
  <2>2. CASE ~ UNCHANGED act
    <3>1. PICK x : act' = [act EXCEPT ![a] = x] /\ x.m = m /\ x.batch = {}
      <4>1. CASE Edit(a, m)
        <5>1. PICK x : x = [Idle EXCEPT !.pc = "embed", !.m = m, !.raw = row[m].text + 1]
          OBVIOUS
        <5>2. act' = [act EXCEPT ![a] = x] /\ x.m = m /\ x.batch = {}
          BY <4>1, <5>1 DEF Edit, Idle
        <5> QED BY <5>2
      <4>2. CASE Take(a, m)
        <5>1. PICK x : x = [Idle EXCEPT !.pc = "extract", !.m = m]
          OBVIOUS
        <5>2. act' = [act EXCEPT ![a] = x] /\ x.m = m /\ x.batch = {}
          BY <2>2, <4>2, <5>1 DEF Take, Idle
        <5> QED BY <5>2
      <4> QED BY <1>1, <4>1, <4>2
    <3>3. Exists(m)
      BY <1>1, <2>2 DEF Take, Edit, Live
    <3>5. ActPresent(x)
      BY <3>1, <3>3, PlainPresent
    <3> QED BY <3>1, <3>5, ActorPresent
  <2> QED BY <2>1, <2>2
<1>l. ASSUME NEW todo, \A e \in todo : e[1] \in Memory /\ Exists(e[1]),
             act' = [act EXCEPT ![a] = [Idle EXCEPT !.pc = "next", !.batch = todo]]
      PROVE  \A b \in Actors : ActPresent(act[b])'
  <2>1. PICK x : x = [Idle EXCEPT !.pc = "next", !.batch = todo]
    OBVIOUS
  <2>2. ActPresent(x)
    BY <1>l, <2>1 DEF Idle, ActPresent
  <2> QED BY <1>l, <2>1, <2>2, ActorPresent
<1>2. CASE HealStart(a)
  <2>1. PICK todo : /\ \A e \in todo : \E m \in Unhealed : e = <<m, row[m].text>>
                    /\ act' = [act EXCEPT ![a] = [Idle EXCEPT !.pc = "next", !.batch = todo]]
    BY <1>2 DEF HealStart
  <2>2. \A e \in todo : e[1] \in Memory /\ Exists(e[1])
    BY <2>1 DEF Unhealed, Live
  <2> QED BY <1>l, <2>1, <2>2
<1>3. CASE QueuePage(a)
  <2>1. \A m \in Memory : retry'[m].state = "queued" => Exists(m)
    BY <1>3, PageQueues
  <2>2. \A e \in Entries(retry') : e[1] \in Memory /\ Exists(e[1])
    BY <2>1 DEF Entries, AttemptsLeft
  <2>3. PICK x : /\ act' = [act EXCEPT ![a] = x]
                 /\ \/ x = Sweep(Entries(retry'))
                    \/ \E p : x = [Idle EXCEPT !.pc = "discover", !.page = p]
    BY <1>3 DEF QueuePage
  <2>4. \A t : (\A e \in t : e[1] \in Memory /\ Exists(e[1])) => ActPresent(Sweep(t))
    BY DEF ActPresent, Sweep, Idle
  <2>5. \A p : ActPresent([Idle EXCEPT !.pc = "discover", !.page = p])
    BY DEF ActPresent, Idle
  <2> QED BY <2>2, <2>3, <2>4, <2>5, ActorPresent
<1>5. CASE ReadPage(a)
  <2>1. PICK t : /\ act' = [act EXCEPT ![a] = [@ EXCEPT !.pc = "page", !.batch = t]]
                 /\ t = {<<m, row[m].text>> : m \in Page(act[a].page)}
    BY <1>5 DEF ReadPage
  <2>2. PICK x : x = [act[a] EXCEPT !.pc = "page", !.batch = t]
    OBVIOUS
  <2>3. x.pc = "page" /\ x.batch = t
    BY <2>2 DEF Act
  <2>4. \A e \in t : e[1] \in Memory /\ Exists(e[1])
    <3>1. \A m \in Page(act[a].page) : m \in Memory /\ Exists(m)
      BY DEF Page, Unembedded, Live
    <3> QED BY <2>1, <3>1
  <2>5. ActPresent(x)
    BY <2>3, <2>4 DEF ActPresent
  <2>6. act' = [act EXCEPT ![a] = x]
    BY <2>1, <2>2
  <2> QED BY <2>5, <2>6, ActorPresent
<1>6. CASE DiscoverFails(a)
  <2>1. act' = [act EXCEPT ![a] = Idle] /\ ActPresent(Idle)
    BY <1>6 DEF DiscoverFails, ActPresent, Idle
  <2> QED BY <2>1, ActorPresent
<1>4. CASE Pick(a)
  <2>1. PICK e \in act[a].batch :
          act' = [act EXCEPT ![a] = [@ EXCEPT !.pc = "embed", !.m = e[1], !.raw = e[2],
                                            !.batch = act[a].batch \ {e}]]
    BY <1>4 DEF Pick
  <2>2. PICK x : x = [act[a] EXCEPT !.pc = "embed", !.m = e[1], !.raw = e[2],
                                    !.batch = act[a].batch \ {e}]
    OBVIOUS
  <2>3. x.m = e[1] /\ x.batch = act[a].batch \ {e}
    BY <2>2 DEF Act
  <2>4. ActPresent(x)
    BY <2>1, <2>3 DEF ActPresent
  <2>5. act' = [act EXCEPT ![a] = x]
    BY <2>1, <2>2
  <2> QED BY <2>4, <2>5, ActorPresent
<1> QED BY <1>1, <1>2, <1>3, <1>4, <1>5, <1>6

\* Going on with a memory, or leaving it.
LEMMA WorkPresent ==
    ASSUME TypeOK, EmbedInv, PresentInv, [Next]_vars, NEW a \in Actors,
           \/ SaveExtraction(a) \/ MatchFound(a)
           \/ Reject(a) /\ act[a].pc \in {"extract", "embed"}
           \/ NoMatch(a) \/ MarkDuplicate(a) \/ MarkDuplicateFails(a)
           \/ Embed(a) \/ Mark(a) \/ Unqueue(a) \/ EmbedFails(a)
           \/ Healed(a) \/ HealFails(a) \/ EditFails(a)
    PROVE  \A b \in Actors : ActPresent(act[b])'
<1> act \in [Actors -> Act] /\ ActPresent(act[a])
  BY DEF TypeOK, PresentInv
<1>1. act[a].pc \notin {"idle", "discover", "page", "next"}
  BY DEF SaveExtraction, MatchFound, NoMatch, MarkDuplicate, MarkDuplicateFails, Embed, Mark,
         Unqueue, EmbedFails, Healed, HealFails, EditFails
<1>2. /\ ActPresent(Resume(a)) /\ ActPresent(Idle)
      /\ \A c : ActPresent([act[a] EXCEPT !.pc = c])
      /\ \A c, k : ActPresent([act[a] EXCEPT !.pc = c, !.match = k])
      /\ \A k : ActPresent([Resume(a) EXCEPT !.misses = k])
  BY <1>1, ProgressPresent
<1>3. \/ act' = [act EXCEPT ![a] = Resume(a)]
      \/ act' = [act EXCEPT ![a] = Idle]
      \/ \E c : act' = [act EXCEPT ![a] = [act[a] EXCEPT !.pc = c]]
      \/ \E c, k : act' = [act EXCEPT ![a] = [act[a] EXCEPT !.pc = c, !.match = k]]
      \/ \E k : act' = [act EXCEPT ![a] = [Resume(a) EXCEPT !.misses = k]]
  <2>1. CASE SaveExtraction(a) \/ Embed(a) \/ Mark(a)
    BY <2>1 DEF SaveExtraction, Embed, Mark
  <2>2. CASE MatchFound(a)
    BY <2>2 DEF MatchFound
  <2>3. CASE \/ Reject(a) \/ NoMatch(a) \/ MarkDuplicate(a) \/ MarkDuplicateFails(a) \/ EditFails(a)
    BY <2>3 DEF Reject, NoMatch, MarkDuplicate, MarkDuplicateFails, Completes, EditFails
  <2>4. CASE Unqueue(a) \/ EmbedFails(a) \/ Healed(a)
    BY <2>4 DEF Unqueue, EmbedFails, Healed
  <2>5. CASE HealFails(a)
    BY <2>5 DEF HealFails
  <2> QED BY <2>1, <2>2, <2>3, <2>4, <2>5
<1>4. PICK x : ActPresent(x) /\ act' = [act EXCEPT ![a] = x]
  BY <1>2, <1>3
<1> QED BY <1>4, ActorPresent

\* Only discovery and a failed embedding put an entry into the retry map.
LEMMA RetryPresent ==
    ASSUME TypeOK, EmbedInv, PresentInv, [Next]_vars, NEW m \in Memory,
           retry'[m].state = "queued"
    PROVE  Exists(m)
<1> retry \in [Memory -> Entry]
  BY DEF TypeOK
<1>1. CASE retry' = retry
  BY <1>1 DEF PresentInv
<1>2. ASSUME NEW a \in Actors, EmbedFails(a)  PROVE Exists(m)
  <2>1. CASE m = act[a].m
    BY <1>2, <2>1 DEF EmbedFails, PresentInv, ActPresent
  <2>2. CASE m # act[a].m
    BY <1>2, <2>2 DEF EmbedFails, PresentInv
  <2> QED BY <2>1, <2>2
<1>3. ASSUME NEW a \in Actors, Unqueue(a)  PROVE Exists(m)
  <2>1. retry'[m] \in {retry[m], NoEntry}
    BY <1>3 DEF Unqueue
  <2> QED BY <2>1 DEF PresentInv, NoEntry
<1>4. ASSUME NEW r \in Retriers, QueuePage(r)  PROVE Exists(m)
  BY <1>4, PageQueues DEF Actors
<1>5. CASE Restart
  BY <1>5 DEF Restart, NoEntry
<1>6. ASSUME NEW n \in Memory, Post(n) \/ Delete(n)  PROVE retry' = retry
  BY <1>6 DEF Post, Create, Enqueue, EnqueueFails, Commit, CommitFails, Delete
<1>7. ASSUME NEW w \in Workers, WorkerStep(w) \/ Stall(w)  PROVE Exists(m)
  BY <1>7, <1>1, <1>2, <1>3
     DEF WorkerStep, Actors, Take, Stall, SaveExtraction, ExtractionExists, PipelineFails, Reject, Embed,
         Mark, MatchFound, NoMatch, MarkDuplicate, MarkDuplicateFails
<1>8. ASSUME NEW r \in Retriers, RetrierStep(r)  PROVE Exists(m)
  BY <1>8, <1>1, <1>2, <1>3, <1>4 DEF RetrierStep, Actors, ReadPage, DiscoverFails, Pick, Embed, Mark
<1>9. ASSUME NEW h \in Healers, HealerStep(h)  PROVE Exists(m)
  BY <1>9, <1>1 DEF HealerStep, HealStart, Pick, Embed, Healed, HealFails
<1>10. ASSUME NEW e \in Editors, EditorStep(e)  PROVE Exists(m)
  BY <1>10, <1>1 DEF EditorStep, Edit, EditCommits, Embed, EditFails
<1> QED BY <1>1, <1>5, <1>6, <1>7, <1>8, <1>9, <1>10 DEF Next, vars

LEMMA PresentInvInductive ==
    ASSUME TypeOK, EmbedInv, PresentInv, [Next]_vars
    PROVE  PresentInv'
<1> Memory' = Memory
  BY DEF Memory
<1>1. \A b \in Actors : ActPresent(act[b])'
  <2>1. CASE UNCHANGED act
    BY <2>1, ActsPresent
  <2>2. CASE Restart
    BY <2>2 DEF Restart, ActPresent, Idle
  <2>3. ASSUME NEW m \in Memory, Post(m) \/ Delete(m)  PROVE UNCHANGED act
    BY <2>3 DEF Post, Create, Enqueue, EnqueueFails, Commit, CommitFails, Delete
  <2>4. ASSUME NEW w \in Workers, WorkerStep(w)  PROVE \A b \in Actors : ActPresent(act[b])'
    <3>1. CASE ExtractionExists(w) \/ PipelineFails(w)
      <4>1. Reject(w) /\ act[w].pc \in {"extract", "embed"}
        BY <3>1 DEF ExtractionExists, PipelineFails
      <4> QED BY <4>1, WorkPresent DEF Actors
    <3> QED BY <2>4, <3>1, StartPresent, WorkPresent DEF WorkerStep, Actors
  <2>8. ASSUME NEW w \in Workers, Stall(w)  PROVE \A b \in Actors : ActPresent(act[b])'
    <3> w \in Actors /\ act[w] \in Act /\ ActPresent(act[w])
      BY DEF Actors, TypeOK, PresentInv
    <3>1. PICK x : x = [act[w] EXCEPT !.lost = TRUE]
      OBVIOUS
    <3>2. x.pc = act[w].pc /\ x.m = act[w].m /\ x.batch = act[w].batch
      BY <3>1 DEF Act
    <3>3. ActPresent(x) /\ act' = [act EXCEPT ![w] = x]
      BY <2>8, <3>1, <3>2 DEF Stall, ActPresent
    <3> QED BY <3>3, ActorPresent
  <2>5. ASSUME NEW r \in Retriers, RetrierStep(r)  PROVE \A b \in Actors : ActPresent(act[b])'
    BY <2>5, StartPresent, WorkPresent DEF RetrierStep, Actors
  <2>6. ASSUME NEW h \in Healers, HealerStep(h)  PROVE \A b \in Actors : ActPresent(act[b])'
    BY <2>6, StartPresent, WorkPresent DEF HealerStep, Actors
  <2>7. ASSUME NEW e \in Editors, EditorStep(e)  PROVE \A b \in Actors : ActPresent(act[b])'
    BY <2>7, StartPresent, WorkPresent, ActsPresent DEF EditorStep, EditCommits, Actors
  <2> QED BY <2>1, <2>2, <2>3, <2>4, <2>5, <2>6, <2>7, <2>8 DEF Next, vars
<1>2. \A m \in Memory : retry'[m].state = "queued" => Exists(m)'
  BY RetryPresent, ExistsStays
<1>3. \A m \in Memory : job'[m].state = "none" => row'[m].status = "absent"
  BY UnpostedStays
<1> QED BY <1>1, <1>2, <1>3 DEF PresentInv

\* EmbeddingPipeline implements SearchableMemory: whatever workers, sweeps, healers,
\* edits, failures and restarts do, callers see only what the promise allows.
THEOREM PipelineKeepsPromise == Spec => KeepsPromise
<1>1. Init => PresentInv
  BY DEF Init, NoRow, NoEntry, Idle, PresentInv, ActPresent
<1>2. Init => Promise!Init
  BY DEF Init, NoRow, Promise!Init, Reported
<1>3. TypeOK /\ EmbedInv /\ PresentInv /\ [Next]_vars => PresentInv'
  BY PresentInvInductive
<1>4. TypeOK /\ EmbedInv /\ PresentInv /\ [Next]_vars => [Promise!Next]_(Promise!vars)
  <2>1. MVars = Promise!vars
    BY DEF MVars, Promise!vars, MState, MIndexed, MBehind, MDeleted
  <2>2. ASSUME UNCHANGED MVars  PROVE UNCHANGED Promise!vars
    BY <2>2 DEF MVars, Promise!vars, MState, MIndexed, MBehind, MDeleted
  <2> QED BY StepRefines, <2>2
<1> QED BY <1>1, <1>2, <1>3, <1>4, EmbedInvHolds, PTL DEF Spec, KeepsPromise, Promise!Spec
=============================================================================
