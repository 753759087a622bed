---------------------- MODULE EmbeddingPipelineSafety ----------------------
(***************************************************************************)
(* Safety of the embedding pipeline for any number of memories, workers,   *)
(* sweeps and requests, and any value of the limits.                       *)
(***************************************************************************)
EXTENDS EmbeddingPipelineProofs, FiniteSetTheorems

-----------------------------------------------------------------------------
(* A vector once stored stays, so what was checked before an await still   *)
(* holds after it.                                                         *)

Stored(m) == m \in Memory /\ row[m].vector # NoVector

\* What the local state x of an actor says of the rows: a busy actor has a
\* memory, it marks only what it embedded and links only to what was embedded.
ActSound(x) ==
    /\ x.pc \notin {"idle", "discover", "page", "next"} => x.m \in Memory
    /\ x.pc = "mark" => Stored(x.m)
    /\ x.pc = "markdup" => Stored(x.match) /\ x.match # x.m

EmbedInv ==
    /\ CompleteIsSearchable
    /\ DuplicatePointsAtEmbedded
    /\ \A a \in Actors : ActSound(act[a])

\* Writing other columns leaves the vectors of a table alone.
LEMMA OtherColumns ==
    ASSUME NEW r \in [Memory -> Row], NEW i, NEW m \in Memory
    PROVE  /\ \A s : /\ [r EXCEPT ![i].status = s][m].vector = r[m].vector
                     /\ [r EXCEPT ![i].text = s][m].vector = r[m].vector
                     /\ [r EXCEPT ![i].extraction = s][m].vector = r[m].vector
                     /\ [r EXCEPT ![i].embeddingId = s][m].vector = r[m].vector
                     /\ [r EXCEPT ![i].deletedAt = s][m].vector = r[m].vector
           /\ \A s, c : /\ [r EXCEPT ![i] = [@ EXCEPT !.status = s, !.embeddingId = c]][m].vector
                             = r[m].vector
                        /\ [r EXCEPT ![i] = [@ EXCEPT !.status = s, !.dupOf = c]][m].vector
                             = r[m].vector
           /\ RolledBack(r)[m].vector = r[m].vector
           /\ [r EXCEPT ![i] = RolledBack(r)[i]][m].vector = r[m].vector
<1>0. RolledBack(r)[m].vector = r[m].vector
  BY DEF RolledBack, Row
<1>1. CASE i = m
  BY <1>0, <1>1 DEF Row
<1>2. CASE i # m
  BY <1>0, <1>2
<1> QED BY <1>1, <1>2

\* No step takes the vector of a row away.
LEMMA VectorsStay ==
    ASSUME TypeOK, [Next]_vars, NEW m, Stored(m)
    PROVE  Stored(m)'
<1> m \in Memory /\ row[m].vector # NoVector /\ row \in [Memory -> Row]
  BY DEF Stored, TypeOK
<1> SUFFICES row'[m].vector # NoVector
  BY DEF Stored, NoVector, Memory
<1>1. CASE UNCHANGED row
  BY <1>1
<1>2. ASSUME NEW n \in Memory, Post(n) \/ Delete(n)  PROVE row'[m].vector # NoVector
  <2>1. CASE Create(n) \/ Commit(n)
    <3>1. PICK s : row' = [row EXCEPT ![n].status = s]
      BY <2>1 DEF Create, Commit
    <3> QED BY <3>1, OtherColumns
  <2>2. CASE Delete(n)
    BY <2>2, OtherColumns DEF Delete
  <2>3. CASE EnqueueFails(n) \/ CommitFails(n)
    BY <2>3, OtherColumns DEF EnqueueFails, CommitFails
  <2>4. CASE Enqueue(n)
    BY <1>1, <2>4 DEF Enqueue
  <2> QED BY <1>2, <2>1, <2>2, <2>3, <2>4 DEF Post
<1>m. ASSUME NEW n, MarkFailed(n)  PROVE row'[m].vector # NoVector
  <2>1. CASE row' = [row EXCEPT ![n].status = "FAILED"]
    BY <2>1, OtherColumns
  <2> QED BY <1>m, <1>1, <2>1 DEF MarkFailed
<1>3. ASSUME NEW w \in Workers, SaveExtraction(w) \/ Reject(w) \/ MarkDuplicate(w)
      PROVE  row'[m].vector # NoVector
  <2>1. CASE SaveExtraction(w)
    BY <2>1, OtherColumns DEF SaveExtraction
  <2>2. CASE Reject(w)
    BY <2>2, <1>m DEF Reject
  <2>3. CASE MarkDuplicate(w)
    BY <2>3, OtherColumns DEF MarkDuplicate
  <2> QED BY <1>3, <2>1, <2>2, <2>3
<1>4. ASSUME NEW a \in Actors, Mark(a) \/ EmbedFails(a) \/ Healed(a) \/ \E n \in Memory : Edit(a, n)
      PROVE  row'[m].vector # NoVector
  <2>1. CASE Mark(a)
    BY <2>1, OtherColumns DEF Mark
  <2>2. CASE EmbedFails(a)
    BY <2>2, <1>m DEF EmbedFails
  <2>3. CASE Healed(a)
    BY <2>3, OtherColumns DEF Healed
  <2>4. CASE \E n \in Memory : Edit(a, n)
    BY <2>4, OtherColumns DEF Edit
  <2> QED BY <1>4, <2>1, <2>2, <2>3, <2>4
<1>e. ASSUME NEW a, NEW n \in Memory, EditCommits(a, n)  PROVE row'[m].vector # NoVector
  <2>1. row[n].text \in Version /\ row[n].text < MaxEdits
    BY <1>e DEF EditCommits, Row
  <2>2. row[n].text + 1 # NoVector
    BY <2>1, BoundsAssumption DEF BoundsAssumption, Version, NoVector
  <2>3. CASE n = m
    <3>1. row'[m] = [row[m] EXCEPT !.text = row[m].text + 1, !.vector = row[m].text + 1]
      BY <1>e, <2>3 DEF EditCommits
    <3> QED BY <3>1, <2>2, <2>3 DEF Row
  <2>4. CASE n # m
    BY <1>e, <2>4 DEF EditCommits
  <2> QED BY <2>3, <2>4
<1>5. ASSUME NEW a \in Actors, Embed(a)  PROVE row'[m].vector # NoVector
  <2>1. act[a].raw \in Version
    BY DEF TypeOK, Act
  <2>2. act[a].raw # NoVector
    BY <2>1, BoundsAssumption DEF BoundsAssumption, Version, NoVector
  <2> QED BY <1>5, <2>2 DEF Embed
<1>6. CASE Restart
  BY <1>6, OtherColumns DEF Restart
<1> QED
  <2>1. CASE UNCHANGED vars
    BY <1>1, <2>1 DEF vars
  <2>2. ASSUME NEW n \in Memory, Post(n) \/ Delete(n)  PROVE row'[m].vector # NoVector
    BY <2>2, <1>2
  <2>3. ASSUME NEW w \in Workers, WorkerStep(w) \/ Stall(w)  PROVE row'[m].vector # NoVector
    BY <2>3, <1>1, <1>3, <1>4, <1>5
       DEF WorkerStep, Actors, Take, Stall, ExtractionExists, PipelineFails, Unqueue, MatchFound,
           NoMatch, MarkDuplicateFails
  <2>4. ASSUME NEW r \in Retriers, RetrierStep(r)  PROVE row'[m].vector # NoVector
    BY <2>4, <1>1, <1>4, <1>5
       DEF RetrierStep, Actors, ReadPage, DiscoverFails, QueuePage, Pick, Unqueue
  <2>5. ASSUME NEW h \in Healers, HealerStep(h)  PROVE row'[m].vector # NoVector
    BY <2>5, <1>1, <1>4, <1>5 DEF HealerStep, Actors, HealStart, Pick, HealFails
  <2>6. ASSUME NEW e \in Editors, EditorStep(e)  PROVE row'[m].vector # NoVector
    BY <2>6, <1>1, <1>4, <1>5, <1>e DEF EditorStep, Actors, EditFails
  <2> QED BY <2>1, <2>2, <2>3, <2>4, <2>5, <2>6, <1>6 DEF Next

\* Row m neither becomes COMPLETE nor DUPLICATE nor loses what made it so.
Calm(m) == /\ row'[m].status \in {row[m].status, "PENDING", "FAILED", "uncommitted", "absent"}
           /\ row'[m].embeddingId \in {row[m].embeddingId, "set"}
           /\ row'[m].dupOf = row[m].dupOf

\* Writing the text, the vector, the extraction or deletedAt is calm.
LEMMA OneColumn ==
    ASSUME NEW i, NEW m \in Memory, row \in [Memory -> Row], NEW s,
           \/ row' = [row EXCEPT ![i].text = s]
           \/ row' = [row EXCEPT ![i].vector = s]
           \/ row' = [row EXCEPT ![i].extraction = s]
           \/ row' = [row EXCEPT ![i].deletedAt = s]
    PROVE  Calm(m)
<1>1. CASE i = m
  BY <1>1 DEF Row, Calm
<1>2. CASE i # m
  BY <1>2 DEF Calm
<1> QED BY <1>1, <1>2

\* So is a rollback, and writing a text with its vector, a status other than
\* COMPLETE and DUPLICATE, or an embedding id.
LEMMA CalmUpdates ==
    ASSUME NEW i, NEW m \in Memory, row \in [Memory -> Row],
           \/ \E s \in {"PENDING", "FAILED", "uncommitted"} : row' = [row EXCEPT ![i].status = s]
           \/ \E s, t : row' = [row EXCEPT ![i] = [@ EXCEPT !.text = s, !.vector = t]]
           \/ row' = [row EXCEPT ![i] = RolledBack(row)[i]]
           \/ row' = RolledBack(row)
           \/ row' = [row EXCEPT ![i].embeddingId = "set"]
    PROVE  Calm(m)
<1>0. ASSUME row'[m] = RolledBack(row)[m]  PROVE Calm(m)
  BY <1>0 DEF Row, RolledBack, Calm
<1>e. ASSUME NEW s, NEW t, row' = [row EXCEPT ![i] = [@ EXCEPT !.text = s, !.vector = t]], i = m
      PROVE  Calm(m)
  <2> row[m] \in Row
    OBVIOUS
  <2>1. row'[m] = [row[m] EXCEPT !.text = s, !.vector = t]
    BY <1>e
  <2>2. row'[m].status = row[m].status
    BY <2>1 DEF Row
  <2>3. row'[m].embeddingId = row[m].embeddingId /\ row'[m].dupOf = row[m].dupOf
    BY <2>1 DEF Row
  <2> QED BY <2>2, <2>3 DEF Calm
<1>s. CASE \E s, t : row' = [row EXCEPT ![i] = [@ EXCEPT !.text = s, !.vector = t]]
  BY <1>e, <1>s DEF Calm
<1>1. CASE i = m
  <2> row[m] \in Row
    OBVIOUS
  <2>1. ASSUME NEW s \in {"PENDING", "FAILED", "uncommitted"}, row' = [row EXCEPT ![i].status = s]
        PROVE  Calm(m)
    BY <1>1, <2>1 DEF Row, Calm
  <2>2. CASE row' = [row EXCEPT ![i].embeddingId = "set"]
    BY <1>1, <2>2 DEF Row, Calm
  <2>3. CASE row' = [row EXCEPT ![i] = RolledBack(row)[i]] \/ row' = RolledBack(row)
    BY <1>0, <1>1, <2>3
  <2> QED BY <1>s, <2>1, <2>2, <2>3
<1>2. CASE i # m
  BY <1>0, <1>2 DEF Calm
<1> QED BY <1>1, <1>2

\* Only Mark and MarkDuplicate are not calm.
LEMMA CalmSteps ==
    ASSUME TypeOK, [Next]_vars, NEW m \in Memory
    PROVE  \/ Calm(m)
           \/ \E a \in Actors : Mark(a)
           \/ \E w \in Workers : MarkDuplicate(w)
<1> row \in [Memory -> Row]
  BY DEF TypeOK
<1>1. ASSUME UNCHANGED row  PROVE Calm(m)
  BY <1>1 DEF Calm
<1>2. ASSUME NEW n \in Memory, Post(n) \/ Delete(n)  PROVE Calm(m)
  <2>1. CASE Create(n) \/ Commit(n)
    BY <2>1, CalmUpdates DEF Create, Commit
  <2>2. CASE Delete(n)
    BY <2>2, OneColumn DEF Delete
  <2>3. CASE EnqueueFails(n) \/ CommitFails(n)
    BY <2>3, CalmUpdates DEF EnqueueFails, CommitFails
  <2>4. CASE Enqueue(n)
    BY <1>1, <2>4 DEF Enqueue
  <2> QED BY <1>2, <2>1, <2>2, <2>3, <2>4 DEF Post
<1>3. ASSUME NEW w \in Workers, SaveExtraction(w) \/ Reject(w)  PROVE Calm(m)
  <2>1. CASE SaveExtraction(w)
    BY <2>1, OneColumn DEF SaveExtraction
  <2>2. CASE Reject(w)
    BY <1>1, <2>2, CalmUpdates DEF Reject, MarkFailed
  <2> QED BY <1>3, <2>1, <2>2
<1>4. ASSUME NEW a \in Actors,
             \/ Embed(a) \/ EmbedFails(a) \/ Healed(a)
             \/ \E n \in Memory : Edit(a, n) \/ EditCommits(a, n)
      PROVE  Calm(m)
  <2>1. CASE Embed(a)
    BY <2>1, OneColumn DEF Embed
  <2>2. CASE EmbedFails(a)
    BY <1>1, <2>2, CalmUpdates DEF EmbedFails, MarkFailed
  <2>3. CASE Healed(a)
    BY <2>3, CalmUpdates DEF Healed
  <2>4. CASE \E n \in Memory : Edit(a, n)
    BY <2>4, OneColumn DEF Edit
  <2>5. CASE \E n \in Memory : EditCommits(a, n)
    <3>1. PICK n \in Memory : EditCommits(a, n)
      BY <2>5
    <3>2. PICK t : row' = [row EXCEPT ![n] = [@ EXCEPT !.text = t, !.vector = t]]
      BY <3>1 DEF EditCommits
    <3> QED BY <3>2, CalmUpdates
  <2> QED BY <1>4, <2>1, <2>2, <2>3, <2>4, <2>5
<1>5. CASE Restart
  BY <1>5, CalmUpdates DEF Restart
<1> QED
  <2>1. CASE UNCHANGED vars
    BY <1>1, <2>1 DEF vars
  <2>2. ASSUME NEW n \in Memory, Post(n) \/ Delete(n)  PROVE Calm(m)
    BY <2>2, <1>2
  <2>3. ASSUME NEW w \in Workers, WorkerStep(w) \/ Stall(w)
        PROVE  Calm(m) \/ Mark(w) \/ MarkDuplicate(w)
    BY <2>3, <1>1, <1>3, <1>4
       DEF WorkerStep, Actors, Take, Stall, ExtractionExists, PipelineFails, Unqueue, MatchFound,
           NoMatch, MarkDuplicateFails
  <2>4. ASSUME NEW r \in Retriers, RetrierStep(r)  PROVE Calm(m) \/ Mark(r)
    BY <2>4, <1>1, <1>4
       DEF RetrierStep, Actors, ReadPage, DiscoverFails, QueuePage, Pick, Unqueue
  <2>5. ASSUME NEW h \in Healers, HealerStep(h)  PROVE Calm(m)
    BY <2>5, <1>1, <1>4 DEF HealerStep, Actors, HealStart, Pick, HealFails
  <2>6. ASSUME NEW e \in Editors, EditorStep(e)  PROVE Calm(m)
    BY <2>6, <1>1, <1>4 DEF EditorStep, Actors, EditFails
  <2> QED BY <2>1, <2>2, <2>3, <2>4, <2>5, <2>6, <1>5 DEF Next, Actors

\* What a local state says of the rows stays true of them.
LEMMA SoundStays ==
    ASSUME TypeOK, [Next]_vars, NEW x, ActSound(x)
    PROVE  ActSound(x)'
BY VectorsStay DEF ActSound, Stored

\* Leaving a memory, an actor is sound again.
LEMMA ResumeSound ==
    ASSUME TypeOK, NEW a \in Actors, ActSound(act[a]), act[a].pc \in {"embed", "mark", "unqueue"}
    PROVE  ActSound(Resume(a)) /\ ActSound(Idle)
<1> act[a] \in Act
  BY DEF TypeOK
<1> QED BY DEF Resume, ActSound, Idle, Act

\* A step of one actor leaves every actor sound.
LEMMA ActorSound ==
    ASSUME TypeOK, [Next]_vars, EmbedInv, NEW a \in Actors, NEW x, ActSound(x)',
           act' = [act EXCEPT ![a] = x]
    PROVE  \A b \in Actors : ActSound(act[b])'
<1> act \in [Actors -> Act]
  BY DEF TypeOK
<1> SUFFICES ASSUME NEW b \in Actors  PROVE ActSound(act[b])'
  OBVIOUS
<1>1. CASE b = a
  BY <1>1 DEF ActSound, Stored
<1>2. CASE b # a
  <2>1. PICK y : y = act[b]
    OBVIOUS
  <2>a. ActSound(y) /\ act'[b] = y
    BY <1>2, <2>1 DEF EmbedInv
  <2>2. ActSound(y)'
    BY <2>a, SoundStays
  <2> QED BY <2>a, <2>2 DEF ActSound, Stored
<1> QED BY <1>1, <1>2

\* So does a step in which no actor moves.
LEMMA ActsKept ==
    ASSUME TypeOK, [Next]_vars, EmbedInv, UNCHANGED act
    PROVE  \A b \in Actors : ActSound(act[b])'
<1> SUFFICES ASSUME NEW b \in Actors  PROVE ActSound(act[b])'
  OBVIOUS
<1>1. PICK x : x = act[b]
  OBVIOUS
<1>2. ActSound(x)'
  BY <1>1, SoundStays DEF EmbedInv
<1> QED BY <1>1, <1>2 DEF ActSound, Stored

\* Outside mark and markdup a busy actor only needs a memory.
LEMMA PlainSound ==
    ASSUME NEW x, \/ x.pc \in {"idle", "discover", "page", "next"}
                  \/ x.pc \notin {"mark", "markdup"} /\ x.m \in Memory
    PROVE  ActSound(x)'
BY DEF ActSound

\* The steps of the queue processor leave every actor sound.
LEMMA ProcessorSound ==
    ASSUME TypeOK, [Next]_vars, EmbedInv, NEW w \in Workers,
           \/ \E m \in Memory : Take(w, m)
           \/ SaveExtraction(w) \/ Reject(w) \/ MatchFound(w)
           \/ NoMatch(w) \/ MarkDuplicate(w) \/ MarkDuplicateFails(w) \/ Stall(w)
    PROVE  \A b \in Actors : ActSound(act[b])'
<1> w \in Actors /\ act \in [Actors -> Act] /\ act[w] \in Act
  BY DEF Actors, TypeOK
<1>0. ActSound(act[w]) /\ \A b \in Actors : ActSound(act[b])
  BY DEF EmbedInv
<1>i. ASSUME act' = [act EXCEPT ![w] = Idle]  PROVE \A b \in Actors : ActSound(act[b])'
  BY <1>i, PlainSound, ActorSound DEF Idle
<1>1. ASSUME NEW m \in Memory, Take(w, m)  PROVE \A b \in Actors : ActSound(act[b])'
  <2>1. CASE UNCHANGED act
    BY <2>1, ActsKept
  <2>2. CASE act' = [act EXCEPT ![w] = [Idle EXCEPT !.pc = "extract", !.m = m]]
    <3>1. PICK x : x = [Idle EXCEPT !.pc = "extract", !.m = m]
      OBVIOUS
    <3>2. x.pc = "extract" /\ x.m = m
      BY <3>1 DEF Idle
    <3> QED BY <2>2, <3>1, <3>2, PlainSound, ActorSound
  <2> QED BY <1>1, <2>1, <2>2 DEF Take
<1>2. CASE SaveExtraction(w)
  <2>1. PICK x : x = [act[w] EXCEPT !.pc = "embed"]
    OBVIOUS
  <2>2. x.pc = "embed" /\ x.m = act[w].m
    BY <2>1 DEF Act
  <2>3. act[w].m \in Memory
    BY <1>2, <1>0 DEF SaveExtraction, ActSound
  <2>4. act' = [act EXCEPT ![w] = x]
    BY <1>2, <2>1 DEF SaveExtraction
  <2> QED BY <2>2, <2>3, <2>4, PlainSound, ActorSound
<1>3. CASE Reject(w)
  BY <1>3, <1>i DEF Reject
<1>4. CASE MatchFound(w)
  <2>1. PICK n \in Candidates(act[w].m) :
           act' = [act EXCEPT ![w] = [@ EXCEPT !.pc = "markdup", !.match = n]]
    BY <1>4 DEF MatchFound
  <2>2. PICK x : x = [act[w] EXCEPT !.pc = "markdup", !.match = n]
    OBVIOUS
  <2>3. x.pc = "markdup" /\ x.match = n /\ x.m = act[w].m
    BY <2>2 DEF Act
  <2>4. act[w].m \in Memory
    BY <1>4, <1>0 DEF MatchFound, ActSound
  <2>5. n # act[w].m /\ n \in Memory /\ row'[n].vector # NoVector
    BY <1>4, <2>1 DEF MatchFound, Candidates
  <2>6. ActSound(x)'
    BY <2>3, <2>4, <2>5 DEF ActSound, Stored
  <2> QED BY <2>1, <2>2, <2>6, ActorSound
<1>5. CASE NoMatch(w) \/ MarkDuplicate(w) \/ MarkDuplicateFails(w)
  BY <1>5, <1>i DEF NoMatch, MarkDuplicate, MarkDuplicateFails, Completes
<1>6. CASE Stall(w)
  <2>1. PICK x : x = [act[w] EXCEPT !.lost = TRUE]
    OBVIOUS
  <2>2. x.pc = act[w].pc /\ x.m = act[w].m /\ x.match = act[w].match
    BY <2>1 DEF Act
  <2>3. ActSound(x)
    BY <1>0, <2>2 DEF ActSound
  <2>4. act' = [act EXCEPT ![w] = x]
    BY <1>6, <2>1 DEF Stall
  <2> QED BY <2>3, <2>4, SoundStays, ActorSound
<1> QED BY <1>1, <1>2, <1>3, <1>4, <1>5, <1>6

\* The shared embedding steps leave every actor sound.
LEMMA EmbedSound ==
    ASSUME TypeOK, [Next]_vars, EmbedInv, NEW a \in Actors,
           \/ Embed(a) \/ Mark(a) \/ Unqueue(a) \/ EmbedFails(a) \/ Pick(a)
           \/ Healed(a) \/ HealFails(a) \/ EditFails(a)
    PROVE  \A b \in Actors : ActSound(act[b])'
<1> act \in [Actors -> Act] /\ act[a] \in Act
  BY DEF TypeOK
<1>0. ActSound(act[a])
  BY DEF EmbedInv
<1>i. ASSUME act' = [act EXCEPT ![a] = Idle]  PROVE \A b \in Actors : ActSound(act[b])'
  BY <1>i, PlainSound, ActorSound DEF Idle
<1>r. ASSUME act[a].pc \in {"embed", "mark", "unqueue"}, act' = [act EXCEPT ![a] = Resume(a)]
      PROVE  \A b \in Actors : ActSound(act[b])'
  <2>1. PICK x : x = Resume(a)
    OBVIOUS
  <2>2. ActSound(x)'
    BY <2>1, <1>r, <1>0, ResumeSound, SoundStays
  <2> QED BY <2>1, <2>2, <1>r, ActorSound
<1>1. CASE Embed(a)
  <2>1. CASE a \in Editors
    BY <1>1, <2>1, <1>i DEF Embed
  <2>2. CASE a \notin Editors
    <3>1. PICK x : x = [act[a] EXCEPT !.pc = "mark"]
      OBVIOUS
    <3>2. x.pc = "mark" /\ x.m = act[a].m
      BY <3>1 DEF Act
    <3>3. act[a].m \in Memory /\ act[a].raw \in Version
      BY <1>1, <1>0 DEF Embed, ActSound, Act
    <3>4. act[a].raw # NoVector
      BY <3>3, BoundsAssumption DEF BoundsAssumption, Version, NoVector
    <3>5. row'[act[a].m].vector = act[a].raw
      BY <1>1, <3>3 DEF Embed, TypeOK, Row
    <3>6. ActSound(x)'
      BY <3>2, <3>3, <3>4, <3>5 DEF ActSound, Stored
    <3>7. act' = [act EXCEPT ![a] = x]
      BY <1>1, <2>2, <3>1 DEF Embed
    <3> QED BY <3>6, <3>7, ActorSound
  <2> QED BY <2>1, <2>2
<1>2. CASE Mark(a)
  <2>1. PICK x : x = [act[a] EXCEPT !.pc = "unqueue"]
    OBVIOUS
  <2>2. x.pc = "unqueue" /\ x.m = act[a].m
    BY <2>1 DEF Act
  <2>3. act[a].m \in Memory
    BY <1>2, <1>0 DEF Mark, ActSound
  <2>4. act' = [act EXCEPT ![a] = x]
    BY <1>2, <2>1 DEF Mark
  <2> QED BY <2>2, <2>3, <2>4, PlainSound, ActorSound
<1>3. CASE Unqueue(a) \/ EmbedFails(a) \/ Healed(a)
  BY <1>3, <1>r DEF Unqueue, EmbedFails, Healed
<1>4. CASE Pick(a)
  <2> PICK e \in act[a].batch :
         act' = [act EXCEPT ![a] = [@ EXCEPT !.pc = "embed", !.m = e[1], !.raw = e[2],
                                             !.batch = act[a].batch \ {e}]]
    BY <1>4 DEF Pick
  <2>1. e[1] \in Memory
    BY DEF Act, Todo
  <2>2. PICK x : x = [act[a] EXCEPT !.pc = "embed", !.m = e[1], !.raw = e[2],
                                    !.batch = act[a].batch \ {e}]
    OBVIOUS
  <2>3. x.pc = "embed" /\ x.m = e[1]
    BY <2>2 DEF Act
  <2> QED BY <2>1, <2>2, <2>3, PlainSound, ActorSound
<1>5. CASE HealFails(a)
  <2>1. CASE act[a].batch = {} \/ act[a].misses + 1 >= HealFailLimit
    BY <1>5, <2>1, <1>i DEF HealFails
  <2>2. CASE ~(act[a].batch = {} \/ act[a].misses + 1 >= HealFailLimit)
    <3>1. PICK x : x = [Resume(a) EXCEPT !.misses = act[a].misses + 1]
      OBVIOUS
    <3>2. PICK y : y = Resume(a)
      OBVIOUS
    <3>3. y \in Act /\ x = [y EXCEPT !.misses = act[a].misses + 1]
      BY <3>1, <3>2, ResumeType
    <3>4. x.pc = y.pc /\ x.m = y.m /\ x.match = y.match
      BY <3>3 DEF Act
    <3>5. ActSound(y)'
      BY <3>2, <1>5, <1>0, ResumeSound, SoundStays DEF HealFails
    <3>6. ActSound(x)'
      BY <3>4, <3>5 DEF ActSound
    <3>7. act' = [act EXCEPT ![a] = x]
      BY <1>5, <2>2, <3>1 DEF HealFails
    <3> QED BY <3>6, <3>7, ActorSound
  <2> QED BY <2>1, <2>2
<1>6. CASE EditFails(a)
  BY <1>6, <1>i DEF EditFails
<1> QED BY <1>1, <1>2, <1>3, <1>4, <1>5, <1>6

\* Starting a sweep or an edit leaves every actor sound.
LEMMA StartSound ==
    ASSUME TypeOK, [Next]_vars, EmbedInv, NEW a \in Actors,
           \/ ReadPage(a) \/ DiscoverFails(a) \/ QueuePage(a) \/ HealStart(a)
           \/ \E m \in Memory : Edit(a, m)
    PROVE  \A b \in Actors : ActSound(act[b])'
<1>1. CASE ReadPage(a) \/ DiscoverFails(a) \/ QueuePage(a) \/ HealStart(a)
  <2>1. \E x : act' = [act EXCEPT ![a] = x] /\ x.pc \in {"idle", "discover", "page", "next"}
    <3>1. CASE ReadPage(a)
      <4>1. PICK t : act' = [act EXCEPT ![a] = [@ EXCEPT !.pc = "page", !.batch = t]]
        BY <3>1 DEF ReadPage
      <4>2. PICK x : x = [act[a] EXCEPT !.pc = "page", !.batch = t]
        OBVIOUS
      <4>3. x.pc = "page" /\ act' = [act EXCEPT ![a] = x]
        BY <4>1, <4>2 DEF TypeOK, Act
      <4> QED BY <4>3
    <3>2. CASE DiscoverFails(a)
      <4>1. act' = [act EXCEPT ![a] = Idle] /\ Idle.pc = "idle"
        BY <3>2 DEF DiscoverFails, Idle
      <4> QED BY <4>1
    <3>3. CASE QueuePage(a)
      <4>1. PICK x : /\ act' = [act EXCEPT ![a] = x]
                     /\ \/ \E t : x = Sweep(t)
                        \/ \E p : x = [Idle EXCEPT !.pc = "discover", !.page = p]
        BY <3>3 DEF QueuePage
      <4>2. \A t : Sweep(t).pc \in {"idle", "next"}
        BY DEF Sweep, Idle
      <4>3. \A p : [Idle EXCEPT !.pc = "discover", !.page = p].pc = "discover"
        BY DEF Idle
      <4> QED BY <4>1, <4>2, <4>3
    <3>4. CASE HealStart(a)
      <4>1. PICK t : act' = [act EXCEPT ![a] = [Idle EXCEPT !.pc = "next", !.batch = t]]
        BY <3>4 DEF HealStart
      <4>2. PICK x : x = [Idle EXCEPT !.pc = "next", !.batch = t]
        OBVIOUS
      <4>3. x.pc = "next"
        BY <4>2 DEF Idle
      <4> QED BY <4>1, <4>2, <4>3
    <3> QED BY <1>1, <3>1, <3>2, <3>3, <3>4
  <2> QED BY <2>1, PlainSound, ActorSound
<1>2. ASSUME NEW m \in Memory, Edit(a, m)  PROVE \A b \in Actors : ActSound(act[b])'
  <2>1. PICK x : x = [Idle EXCEPT !.pc = "embed", !.m = m, !.raw = row[m].text + 1]
    OBVIOUS
  <2>2. x.pc = "embed" /\ x.m = m
    BY <2>1 DEF Idle
  <2>3. act' = [act EXCEPT ![a] = x]
    BY <1>2, <2>1 DEF Edit
  <2>4. ActSound(x)'
    BY <2>2, PlainSound
  <2> QED BY <2>3, <2>4, ActorSound
<1> QED BY <1>1, <1>2

\* The conjuncts of EmbedInv about rows survive calm steps, the marking of an
\* embedded row and the linking of a row to an embedded one.
LEMMA RowsSound ==
    ASSUME TypeOK, [Next]_vars, EmbedInv, NEW m \in Memory
    PROVE  /\ row'[m].status = "COMPLETE" => row'[m].embeddingId = "set" /\ Stored(m)'
           /\ row'[m].dupOf # NoMemory => row'[m].dupOf # m /\ Stored(row[m].dupOf)'
<1> row \in [Memory -> Row] /\ row[m] \in Row /\ act \in [Actors -> Act]
  BY DEF TypeOK
<1>0. /\ row[m].status = "COMPLETE" => row[m].embeddingId = "set" /\ Stored(m)
      /\ row[m].dupOf # NoMemory => row[m].dupOf # m /\ Stored(row[m].dupOf)
  BY DEF EmbedInv, CompleteIsSearchable, DuplicatePointsAtEmbedded, Stored, Row
<1>1. ASSUME row'[m].status = "COMPLETE" => row[m].status = "COMPLETE",
             row'[m].embeddingId \in {row[m].embeddingId, "set"}
      PROVE  row'[m].status = "COMPLETE" => row'[m].embeddingId = "set" /\ Stored(m)'
  BY <1>0, <1>1, VectorsStay
<1>2. ASSUME row'[m].dupOf = row[m].dupOf
      PROVE  row'[m].dupOf # NoMemory => row'[m].dupOf # m /\ Stored(row[m].dupOf)'
  <2>1. PICK n : n = row[m].dupOf
    OBVIOUS
  <2> QED BY <1>0, <1>2, <2>1, VectorsStay DEF Stored
<1>3. CASE Calm(m)
  BY <1>1, <1>2, <1>3 DEF Calm
<1>4. ASSUME NEW a \in Actors, Mark(a)
      PROVE  /\ row'[m].status = "COMPLETE" => row'[m].embeddingId = "set" /\ Stored(m)'
             /\ row'[m].dupOf # NoMemory => row'[m].dupOf # m /\ Stored(row[m].dupOf)'
  <2>0. Stored(act[a].m)
    BY <1>4 DEF Mark, EmbedInv, ActSound
  <2>1. CASE act[a].m = m
    <3>1. row'[m].embeddingId = "set" /\ row'[m].dupOf = row[m].dupOf
      BY <1>4, <2>1 DEF Mark, Row
    <3> QED BY <1>2, <2>0, <2>1, <3>1, VectorsStay
  <2>2. CASE act[a].m # m
    BY <1>1, <1>2, <1>4, <2>2 DEF Mark
  <2> QED BY <2>1, <2>2
<1>5. ASSUME NEW w \in Workers, MarkDuplicate(w)
      PROVE  /\ row'[m].status = "COMPLETE" => row'[m].embeddingId = "set" /\ Stored(m)'
             /\ row'[m].dupOf # NoMemory => row'[m].dupOf # m /\ Stored(row[m].dupOf)'
  <2> w \in Actors
    BY DEF Actors
  <2>0. Stored(act[w].match) /\ act[w].match # act[w].m
    BY <1>5 DEF MarkDuplicate, EmbedInv, ActSound
  <2>1. CASE act[w].m = m
    <3>1. row'[m].status = "DUPLICATE" /\ row'[m].dupOf = act[w].match
      BY <1>5, <2>1 DEF MarkDuplicate, Row
    <3>2. PICK n : n = act[w].match
      OBVIOUS
    <3>3. Stored(n)'
      BY <2>0, <3>2, VectorsStay
    <3> QED BY <2>0, <2>1, <3>1, <3>2, <3>3 DEF Stored
  <2>2. CASE act[w].m # m
    BY <1>1, <1>2, <1>5, <2>2 DEF MarkDuplicate
  <2> QED BY <2>1, <2>2
<1> QED BY <1>3, <1>4, <1>5, CalmSteps

\* EmbedInv is inductive.
LEMMA EmbedInvInductive ==
    ASSUME TypeOK, [Next]_vars, EmbedInv
    PROVE  EmbedInv'
<1>1. CompleteIsSearchable' /\ DuplicatePointsAtEmbedded'
  BY RowsSound DEF CompleteIsSearchable, DuplicatePointsAtEmbedded, Stored
<1>2. \A b \in Actors : ActSound(act[b])'
  <2>1. CASE UNCHANGED act
    BY <2>1, ActsKept
  <2>2. CASE Restart
    BY <2>2 DEF Restart, ActSound, Idle
  <2>3. ASSUME NEW m \in Memory, Post(m) \/ Delete(m)  PROVE UNCHANGED act
    BY <2>3 DEF Post, Create, Enqueue, EnqueueFails, Commit, CommitFails, Delete
  <2>4. ASSUME NEW w \in Workers, WorkerStep(w) \/ Stall(w)
        PROVE  \A b \in Actors : ActSound(act[b])'
    BY <2>4, ProcessorSound, EmbedSound
       DEF WorkerStep, ExtractionExists, PipelineFails, Actors
  <2>5. ASSUME NEW r \in Retriers, RetrierStep(r)  PROVE \A b \in Actors : ActSound(act[b])'
    BY <2>5, StartSound, EmbedSound DEF RetrierStep, Actors
  <2>6. ASSUME NEW h \in Healers, HealerStep(h)  PROVE \A b \in Actors : ActSound(act[b])'
    BY <2>6, StartSound, EmbedSound DEF HealerStep, Actors
  <2>7. ASSUME NEW e \in Editors, EditorStep(e)  PROVE \A b \in Actors : ActSound(act[b])'
    BY <2>7, StartSound, EmbedSound, ActsKept DEF EditorStep, EditCommits, Actors
  <2> QED BY <2>1, <2>2, <2>3, <2>4, <2>5, <2>6, <2>7 DEF Next, vars
<1> QED BY <1>1, <1>2 DEF EmbedInv

\* EmbedInv and the types hold in every reachable state.
LEMMA EmbedInvHolds == Spec => [](TypeOK /\ EmbedInv)
<1>1. Init => EmbedInv
  BY DEF Init, NoRow, Idle, EmbedInv, CompleteIsSearchable, DuplicatePointsAtEmbedded, ActSound
<1>2. TypeOK /\ EmbedInv /\ [Next]_vars => EmbedInv'
  BY EmbedInvInductive
<1> QED BY <1>1, <1>2, TypeCorrect, PTL DEF Spec

\* A row reported COMPLETE has its vector stored, for any number of workers,
\* sweeps, failures and restarts: generateAndStoreEmbedding stores before it marks.
THEOREM SearchableCorrect == Spec => []CompleteIsSearchable
<1>1. EmbedInv => CompleteIsSearchable
  BY DEF EmbedInv
<1> QED BY <1>1, EmbedInvHolds, PTL

\* A duplicate always points at another row that has a vector, although the
\* candidate was read an await before the link was written.
THEOREM DuplicatePointsCorrect == Spec => []DuplicatePointsAtEmbedded
<1>1. EmbedInv => DuplicatePointsAtEmbedded
  BY DEF EmbedInv
<1> QED BY <1>1, EmbedInvHolds, PTL

-----------------------------------------------------------------------------
(* With one worker the dedup cannot hide two rows behind each other.       *)

\* While the worker is about to link to a match, the match is not a duplicate.
SerialInv ==
    /\ DuplicatesHaveSurvivor
    /\ \A w \in Workers : act[w].pc = "markdup" => row[act[w].match].status # "DUPLICATE"

\* Only MatchFound brings a worker to markdup.
LEMMA MatchMoves ==
    ASSUME TypeOK, [Next]_vars, NEW w \in Workers, act'[w].pc = "markdup"
    PROVE  \/ act[w].pc = "markdup" /\ act'[w].match = act[w].match
           \/ MatchFound(w)
<1> act \in [Actors -> Act] /\ w \in Actors /\ act[w] \in Act
  BY DEF TypeOK, Actors
<1>i. ASSUME NEW a \in Actors, act' = [act EXCEPT ![a] = Idle]  PROVE act'[w] = act[w]
  BY <1>i DEF Idle
<1>p. ASSUME NEW a \in Actors, NEW x, act' = [act EXCEPT ![a] = x], x.pc # "markdup"
      PROVE  act'[w] = act[w]
  BY <1>p
<1>r. ASSUME NEW a \in Actors, act' = [act EXCEPT ![a] = Resume(a)]  PROVE act'[w] = act[w]
  <2> act[a] \in Act
    OBVIOUS
  <2>1. Resume(a).pc # "markdup"
    BY DEF Resume, Idle, Act
  <2> QED BY <2>1, <1>r
<1>1. ASSUME NEW v \in Workers, WorkerStep(v)  PROVE act'[w] = act[w] \/ MatchFound(w)
  <2> v \in Actors /\ act[v] \in Act
    BY DEF Actors
  <2>1. ASSUME NEW m \in Memory, Take(v, m)  PROVE act'[w] = act[w]
    BY <2>1 DEF Take, Idle
  <2>2. CASE SaveExtraction(v)
    BY <2>2 DEF SaveExtraction, Act
  <2>3. CASE ExtractionExists(v) \/ PipelineFails(v) \/ NoMatch(v) \/ MarkDuplicate(v)
             \/ MarkDuplicateFails(v)
    BY <2>3, <1>i DEF ExtractionExists, PipelineFails, Reject, NoMatch, MarkDuplicate,
                      MarkDuplicateFails, Completes
  <2>4. CASE Embed(v)
    BY <2>4, <1>i DEF Embed, Act
  <2>5. CASE Mark(v)
    BY <2>5 DEF Mark, Act
  <2>6. CASE Unqueue(v) \/ EmbedFails(v)
    BY <2>6, <1>r DEF Unqueue, EmbedFails
  <2>7. CASE MatchFound(v)
    BY <2>7 DEF MatchFound
  <2> QED BY <1>1, <2>1, <2>2, <2>3, <2>4, <2>5, <2>6, <2>7 DEF WorkerStep
<1>2. ASSUME NEW a \in Actors, a \notin Workers,
             act'[w] # act[w] => \E x : act' = [act EXCEPT ![a] = x]
      PROVE  act'[w] = act[w]
  BY <1>2
<1> QED
  <2>1. CASE Restart
    BY <2>1 DEF Restart, Idle
  <2>2. CASE UNCHANGED act
    BY <2>2
  <2>3. ASSUME NEW m \in Memory, Post(m) \/ Delete(m)  PROVE UNCHANGED act
    BY <2>3 DEF Post, Create, Enqueue, EnqueueFails, Commit, CommitFails, Delete
  <2>4. ASSUME NEW a \in Actors, a \notin Workers,
               \/ RetrierStep(a) \/ HealerStep(a) \/ EditorStep(a)
        PROVE  act'[w] = act[w]
    BY <2>4, <1>2
       DEF RetrierStep, HealerStep, EditorStep, ReadPage, DiscoverFails, QueuePage, Pick, Embed,
           Mark, Unqueue, EmbedFails, HealStart, Healed, HealFails, Edit, EditCommits, EditFails
  <2>5. ASSUME NEW v \in Workers, Stall(v)
        PROVE  act[w].pc = "markdup" /\ act'[w].match = act[w].match
    <3> v \in Actors /\ act[v] \in Act
      BY DEF Actors
    <3>1. act'[w] = act[w] \/ (v = w /\ act'[w] = [act[w] EXCEPT !.lost = TRUE])
      BY <2>5 DEF Stall
    <3> QED BY <3>1 DEF Act
  <2> QED BY <1>1, <2>1, <2>2, <2>3, <2>4, <2>5, ActorsAssumption
          DEF ActorsAssumption, Next, vars, Actors

\* Steps that make no row a duplicate cannot close a set of duplicates.
LEMMA SurvivorsStay ==
    ASSUME DuplicatesHaveSurvivor,
           \A m \in Memory : row'[m].status = "DUPLICATE" =>
               row[m].status = "DUPLICATE" /\ row'[m].dupOf = row[m].dupOf
    PROVE  DuplicatesHaveSurvivor'
BY DEF DuplicatesHaveSurvivor

\* Linking a row to one that is no duplicate keeps a survivor in every chain.
LEMMA LinkKeepsSurvivor ==
    ASSUME TypeOK, EmbedInv, SerialInv, NEW w \in Workers, MarkDuplicate(w)
    PROVE  DuplicatesHaveSurvivor'
<1> DEFINE k == act[w].m
           n == act[w].match
<1> w \in Actors /\ row \in [Memory -> Row]
  BY DEF Actors, TypeOK
<1>1. k \in Memory /\ n \in Memory /\ n # k /\ row[n].status # "DUPLICATE"
  BY DEF MarkDuplicate, EmbedInv, ActSound, Stored, SerialInv
<1>2. row' = [row EXCEPT ![k] = [@ EXCEPT !.status = "DUPLICATE", !.dupOf = n]]
  BY DEF MarkDuplicate
<1> HIDE DEF k, n
<1>3. row'[k].dupOf = n
  BY <1>1, <1>2 DEF Row
<1>4. \A m \in Memory \ {k} : row'[m] = row[m]
  BY <1>2
<1> SUFFICES ASSUME NEW S \in SUBSET Memory, S # {},
                    \A m \in S : row'[m].status = "DUPLICATE"
             PROVE  \E m \in S : row'[m].dupOf \notin S
  BY DEF DuplicatesHaveSurvivor
<1>5. CASE k \in S
  BY <1>1, <1>3, <1>4, <1>5
<1>6. CASE k \notin S
  BY <1>4, <1>6 DEF SerialInv, DuplicatesHaveSurvivor
<1> QED BY <1>5, <1>6

\* SerialInv is inductive when there is at most one worker.
LEMMA SerialInvInductive ==
    ASSUME \A v, w \in Workers : v = w, TypeOK, EmbedInv, SerialInv, [Next]_vars
    PROVE  SerialInv'
<1> row \in [Memory -> Row] /\ act \in [Actors -> Act]
  BY DEF TypeOK
<1>1. DuplicatesHaveSurvivor'
  <2>1. CASE \E w \in Workers : MarkDuplicate(w)
    BY <2>1, LinkKeepsSurvivor
  <2>2. ASSUME ~\E w \in Workers : MarkDuplicate(w), NEW m \in Memory,
               row'[m].status = "DUPLICATE"
        PROVE  row[m].status = "DUPLICATE" /\ row'[m].dupOf = row[m].dupOf
    <3>1. CASE Calm(m)
      BY <2>2, <3>1 DEF Calm
    <3>2. ASSUME NEW a \in Actors, Mark(a)  PROVE row'[m] = row[m]
      BY <2>2, <3>2 DEF Mark, Row
    <3> QED BY <2>2, <3>1, <3>2, CalmSteps
  <2> QED BY <2>1, <2>2, SurvivorsStay DEF SerialInv
<1>2. ASSUME NEW w \in Workers, act'[w].pc = "markdup"
      PROVE  row'[act'[w].match].status # "DUPLICATE"
  <2> w \in Actors
    BY DEF Actors
  <2>1. CASE MatchFound(w)
    <3>1. PICK n \in Candidates(act[w].m) :
             act' = [act EXCEPT ![w] = [@ EXCEPT !.pc = "markdup", !.match = n]]
      BY <2>1 DEF MatchFound
    <3>2. act'[w].match = n
      BY <3>1 DEF Act
    <3> QED BY <2>1, <3>1, <3>2 DEF MatchFound, Candidates
  <2>2. CASE act[w].pc = "markdup" /\ act'[w].match = act[w].match
    <3> DEFINE n == act[w].match
    <3>1. n \in Memory /\ row[n].status # "DUPLICATE"
      BY <2>2 DEF EmbedInv, ActSound, Stored, SerialInv
    <3>2. CASE Calm(n)
      BY <3>1, <3>2, <2>2 DEF Calm
    <3>3. ASSUME NEW a \in Actors, Mark(a)  PROVE row'[n].status # "DUPLICATE"
      BY <3>1, <3>3 DEF Mark, Row
    <3>4. ASSUME NEW v \in Workers, MarkDuplicate(v)  PROVE FALSE
      BY <1>2, <3>4 DEF MarkDuplicate, Completes, Idle
    <3> QED BY <2>2, <3>1, <3>2, <3>3, <3>4, CalmSteps
  <2> QED BY <1>2, <2>1, <2>2, MatchMoves
<1> QED BY <1>1, <1>2 DEF SerialInv

\* With one worker no rows are hidden behind each other, whatever the sweeps,
\* requests and failures do: isDuplicateOf always leads to a row that survives.
\* The run PipelineDedupRace shows that two workers are too many.
THEOREM SerialDedupCorrect ==
    ASSUME \A v, w \in Workers : v = w
    PROVE  Spec => []DuplicatesHaveSurvivor
<1>1. Init => SerialInv
  BY DEF Init, NoRow, Idle, Actors, SerialInv, DuplicatesHaveSurvivor
<1>2. TypeOK /\ EmbedInv /\ SerialInv /\ [Next]_vars => SerialInv'
  BY SerialInvInductive
<1>3. SerialInv => DuplicatesHaveSurvivor
  BY DEF SerialInv
<1> QED BY <1>1, <1>2, <1>3, EmbedInvHolds, PTL DEF Spec

-----------------------------------------------------------------------------
(* Whatever jobs are delivered twice, one slot embeds a memory.            *)

\* A memory that is embedded has its extraction row.
SlotInv ==
    /\ OneSlotEmbeds
    /\ \A w \in Workers, m \in Memory : Embedding(w, m) => row[m].extraction = "set"

\* Writing other columns, or the extraction itself, leaves no extraction out.
LEMMA ExtractionKept ==
    ASSUME row \in [Memory -> Row], NEW i, NEW m \in Memory, row[m].extraction = "set",
           NEW s, NEW t,
           \/ row' = [row EXCEPT ![i].status = s]
           \/ row' = [row EXCEPT ![i].text = s]
           \/ row' = [row EXCEPT ![i].vector = s]
           \/ row' = [row EXCEPT ![i].embeddingId = s]
           \/ row' = [row EXCEPT ![i].deletedAt = s]
           \/ row' = [row EXCEPT ![i].extraction = "set"]
           \/ row' = [row EXCEPT ![i] = [@ EXCEPT !.status = s, !.embeddingId = t]]
           \/ row' = [row EXCEPT ![i] = [@ EXCEPT !.status = s, !.dupOf = t]]
           \/ row' = [row EXCEPT ![i] = [@ EXCEPT !.text = s, !.vector = t]]
    PROVE  row'[m].extraction = "set"
<1> row[m] \in Row
  OBVIOUS
<1>1. CASE i = m
  <2>1. CASE \/ row' = [row EXCEPT ![i].status = s]
             \/ row' = [row EXCEPT ![i].text = s]
             \/ row' = [row EXCEPT ![i].vector = s]
             \/ row' = [row EXCEPT ![i].embeddingId = s]
             \/ row' = [row EXCEPT ![i].deletedAt = s]
             \/ row' = [row EXCEPT ![i].extraction = "set"]
    BY <1>1, <2>1 DEF Row
  <2>2. CASE \/ row'[m] = [row[m] EXCEPT !.status = s, !.embeddingId = t]
             \/ row'[m] = [row[m] EXCEPT !.status = s, !.dupOf = t]
             \/ row'[m] = [row[m] EXCEPT !.text = s, !.vector = t]
    BY <2>2 DEF Row
  <2> QED BY <1>1, <2>1, <2>2
<1>2. CASE i # m
  BY <1>2
<1> QED BY <1>1, <1>2

\* An extraction row is never deleted: not by a rollback, and not by a restart.
LEMMA ExtractionStays ==
    ASSUME TypeOK, [Next]_vars, NEW m \in Memory, row[m].extraction = "set"
    PROVE  row'[m].extraction = "set"
<1> row \in [Memory -> Row] /\ row[m] \in Row
  BY DEF TypeOK
<1>0. ASSUME row'[m] = RolledBack(row)[m]  PROVE row'[m].extraction = "set"
  BY <1>0 DEF RolledBack, Row
<1>u. ASSUME UNCHANGED row  PROVE row'[m].extraction = "set"
  BY <1>u
<1>f. ASSUME NEW n, MarkFailed(n)  PROVE row'[m].extraction = "set"
  <2>1. CASE row' = [row EXCEPT ![n].status = "FAILED"]
    BY <2>1, ExtractionKept
  <2> QED BY <1>f, <1>u, <2>1 DEF MarkFailed
<1>1. ASSUME NEW n \in Memory, Post(n) \/ Delete(n)  PROVE row'[m].extraction = "set"
  <2>1. CASE EnqueueFails(n) \/ CommitFails(n)
    BY <1>0, <2>1 DEF EnqueueFails, CommitFails
  <2>2. CASE Create(n) \/ Commit(n)
    <3>1. PICK s : row' = [row EXCEPT ![n].status = s]
      BY <2>2 DEF Create, Commit
    <3> QED BY <3>1, ExtractionKept
  <2>3. CASE Enqueue(n)
    BY <2>3, <1>u DEF Enqueue
  <2>4. CASE Delete(n)
    BY <2>4, ExtractionKept DEF Delete
  <2> QED BY <1>1, <2>1, <2>2, <2>3, <2>4 DEF Post
<1>2. ASSUME NEW a, \/ Embed(a) \/ Mark(a) \/ EmbedFails(a) \/ Healed(a)
                    \/ \E n \in Memory : Edit(a, n) \/ EditCommits(a, n)
      PROVE  row'[m].extraction = "set"
  <2>1. CASE Embed(a)
    BY <2>1, ExtractionKept DEF Embed
  <2>2. CASE Mark(a)
    BY <2>2, ExtractionKept DEF Mark
  <2>3. CASE EmbedFails(a)
    BY <2>3, <1>f DEF EmbedFails
  <2>4. CASE Healed(a)
    BY <2>4, ExtractionKept DEF Healed
  <2>5. ASSUME NEW n \in Memory, Edit(a, n)  PROVE row'[m].extraction = "set"
    BY <2>5, ExtractionKept DEF Edit
  <2>6. ASSUME NEW n \in Memory, EditCommits(a, n)  PROVE row'[m].extraction = "set"
    BY <2>6, ExtractionKept DEF EditCommits
  <2> QED BY <1>2, <2>1, <2>2, <2>3, <2>4, <2>5, <2>6
<1>3. ASSUME NEW w, SaveExtraction(w) \/ Reject(w) \/ MarkDuplicate(w)
      PROVE  row'[m].extraction = "set"
  <2>1. CASE SaveExtraction(w)
    BY <2>1, ExtractionKept DEF SaveExtraction
  <2>2. CASE Reject(w)
    BY <2>2, <1>f DEF Reject
  <2>3. CASE MarkDuplicate(w)
    BY <2>3, ExtractionKept DEF MarkDuplicate
  <2> QED BY <1>3, <2>1, <2>2, <2>3
<1>4. ASSUME NEW a, \/ WorkerStep(a) \/ Stall(a) \/ RetrierStep(a)
                    \/ HealerStep(a) \/ EditorStep(a)
      PROVE  row'[m].extraction = "set"
  BY <1>u, <1>2, <1>3, <1>4
     DEF WorkerStep, Take, Stall, ExtractionExists, PipelineFails, Unqueue, MatchFound, NoMatch,
         MarkDuplicateFails, RetrierStep, ReadPage, DiscoverFails, QueuePage, Pick, HealerStep,
         HealStart, HealFails, EditorStep, EditFails
<1>5. CASE Restart
  BY <1>0, <1>5 DEF Restart
<1>6. CASE UNCHANGED vars
  BY <1>6 DEF vars
<1> QED BY <1>1, <1>4, <1>5, <1>6 DEF Next

\* Only SaveExtraction brings a slot to the embedding, and nothing back to it.
LEMMA EmbeddingMoves ==
    ASSUME TypeOK, [Next]_vars, NEW w \in Workers
    PROVE  /\ act'[w].pc \in {"embed", "mark", "unqueue", "search", "markdup"} =>
                \/ act'[w].m = act[w].m /\ act[w].pc \in {"embed", "mark", "unqueue", "search", "markdup"}
                \/ act'[w].m = act[w].m /\ SaveExtraction(w)
           /\ act'[w].pc \in {"embed", "mark"} =>
                \/ act[w].pc \in {"embed", "mark"} /\ act'[w].m = act[w].m
                \/ act'[w].m = act[w].m /\ SaveExtraction(w)
<1> /\ act \in [Actors -> Act] /\ w \in Actors /\ act[w] \in Act
    /\ w \notin Retriers /\ w \notin Healers /\ w \notin Editors
  BY ActorsAssumption DEF TypeOK, Actors, ActorsAssumption
<1> DEFINE Past == {"embed", "mark", "unqueue", "search", "markdup"}
           Kept == /\ act'[w].pc \in Past => act'[w].m = act[w].m /\ act[w].pc \in Past
                   /\ act'[w].pc \in {"embed", "mark"} =>
                        act[w].pc \in {"embed", "mark"} /\ act'[w].m = act[w].m
<1>0. act'[w] = act[w] => Kept
  OBVIOUS
<1>1. CASE WorkerStep(w)
  <2>1. CASE SaveExtraction(w)
    <3>1. act'[w].m = act[w].m
      BY <2>1 DEF SaveExtraction, Act
    <3> QED BY <2>1, <3>1
  <2>2. ASSUME NEW m \in Memory, Take(w, m)  PROVE Kept
    <3>1. CASE UNCHANGED act
      BY <3>1, <1>0
    <3>2. CASE act' = [act EXCEPT ![w] = [Idle EXCEPT !.pc = "extract", !.m = m]]
      BY <3>2 DEF Idle
    <3> QED BY <2>2, <3>1, <3>2 DEF Take
  <2>3. CASE \/ ExtractionExists(w) \/ PipelineFails(w) \/ NoMatch(w)
             \/ MarkDuplicate(w) \/ MarkDuplicateFails(w)
    <3>1. act'[w] = Idle
      BY <2>3 DEF ExtractionExists, PipelineFails, Reject, NoMatch, MarkDuplicate,
                  MarkDuplicateFails, Completes
    <3> QED BY <3>1 DEF Idle
  <2>4. CASE Embed(w) \/ Mark(w)
    <3>1. PICK p \in {"mark", "unqueue"} : act' = [act EXCEPT ![w].pc = p]
      BY <2>4 DEF Embed, Mark
    <3>2. act'[w].pc = p /\ act'[w].m = act[w].m /\ act[w].pc \in {"embed", "mark"}
      BY <2>4, <3>1 DEF Embed, Mark, Act
    <3> QED BY <3>2
  <2>5. CASE Unqueue(w) \/ EmbedFails(w)
    <3>1. act'[w] = [act[w] EXCEPT !.pc = "search"] /\ act[w].pc \in Past
      BY <2>5 DEF Unqueue, EmbedFails, Resume
    <3>2. act'[w].pc = "search" /\ act'[w].m = act[w].m
      BY <3>1 DEF Act
    <3> QED BY <3>1, <3>2
  <2>6. CASE MatchFound(w)
    <3>1. PICK n : act' = [act EXCEPT ![w] = [@ EXCEPT !.pc = "markdup", !.match = n]]
      BY <2>6 DEF MatchFound
    <3>2. act'[w].pc = "markdup" /\ act'[w].m = act[w].m /\ act[w].pc = "search"
      BY <2>6, <3>1 DEF MatchFound, Act
    <3> QED BY <3>2
  <2> QED BY <1>1, <2>1, <2>2, <2>3, <2>4, <2>5, <2>6 DEF WorkerStep
<1>2. CASE Stall(w)
  <2>1. act'[w].pc = act[w].pc /\ act'[w].m = act[w].m
    BY <1>2 DEF Stall, Act
  <2> QED BY <2>1
<1>3. ASSUME NEW v \in Workers, v # w, WorkerStep(v) \/ Stall(v)  PROVE Kept
  <2>1. act'[w] = act[w]
    BY <1>3 DEF WorkerStep, Take, Stall, SaveExtraction, ExtractionExists, PipelineFails, Reject,
                Embed, Mark, Unqueue, EmbedFails, MatchFound, NoMatch, MarkDuplicate,
                MarkDuplicateFails, Completes
  <2> QED BY <1>0, <2>1
<1>4. ASSUME NEW a \in Actors, a # w, RetrierStep(a) \/ HealerStep(a) \/ EditorStep(a)  PROVE Kept
  <2>1. act'[w] = act[w]
    BY <1>4 DEF RetrierStep, HealerStep, EditorStep, ReadPage, DiscoverFails, QueuePage, Pick, Embed,
                Mark, Unqueue, EmbedFails, HealStart, Healed, HealFails, Edit, EditCommits, EditFails
  <2> QED BY <1>0, <2>1
<1>5. ASSUME (\E m \in Memory : Post(m) \/ Delete(m)) \/ UNCHANGED vars  PROVE Kept
  <2>1. UNCHANGED act
    BY <1>5 DEF Post, Create, Enqueue, EnqueueFails, Commit, CommitFails, Delete, vars
  <2> QED BY <1>0, <2>1
<1>6. CASE Restart
  <2>1. act'[w] = Idle
    BY <1>6 DEF Restart
  <2> QED BY <2>1 DEF Idle
<1> HIDE DEF Kept
<1>7. CASE Kept
  BY <1>7 DEF Kept
<1>8. \A a \in Retriers \cup Healers \cup Editors : a \in Actors /\ a # w
  BY DEF Actors
<1> QED BY <1>1, <1>2, <1>3, <1>4, <1>5, <1>6, <1>7, <1>8 DEF Next

\* SlotInv is inductive: a slot that creates the extraction row finds no other slot
\* beyond it.
LEMMA SlotInvInductive ==
    ASSUME TypeOK, SlotInv, [Next]_vars
    PROVE  SlotInv'
<1> act \in [Actors -> Act] /\ Workers \subseteq Actors /\ row \in [Memory -> Row]
  BY DEF TypeOK, Actors
<1>1. ASSUME NEW w \in Workers, NEW m \in Memory, Embedding(w, m)'
      PROVE  Embedding(w, m) \/ (SaveExtraction(w) /\ act[w].m = m)
  BY <1>1, EmbeddingMoves DEF Embedding
<1>2. ASSUME NEW w \in Workers, NEW m \in Memory, Embedding(w, m)'
      PROVE  row'[m].extraction = "set"
  <2>1. CASE Embedding(w, m)
    BY <2>1, ExtractionStays DEF SlotInv
  <2>2. CASE SaveExtraction(w) /\ act[w].m = m
    BY <2>2 DEF SaveExtraction, Row
  <2> QED BY <1>1, <1>2, <2>1, <2>2
<1>3. ASSUME NEW v \in Workers, NEW w \in Workers, NEW m \in Memory,
             Embedding(v, m)', Embedding(w, m)'
      PROVE  v = w
  <2>1. CASE Embedding(v, m) /\ Embedding(w, m)
    BY <2>1 DEF SlotInv, OneSlotEmbeds
  <2>2. ASSUME NEW u \in Workers, SaveExtraction(u), act[u].m = m, NEW x \in Workers, Embedding(x, m)'
        PROVE  x = u
    <3>1. ~Embedding(x, m)
      BY <2>2 DEF SaveExtraction, SlotInv
    <3>2. SaveExtraction(x)
      BY <1>1, <2>2, <3>1
    <3>3. CASE x # u
      <4>1. act'[x] = act[x]
        BY <2>2, <3>3 DEF SaveExtraction
      <4>2. act[x].pc = "extract" /\ act'[x].pc = "embed"
        BY <3>2 DEF SaveExtraction, Act
      <4> QED BY <4>1, <4>2
    <3> QED BY <3>3
  <2> QED BY <1>1, <1>3, <2>1, <2>2
<1> QED BY <1>2, <1>3 DEF SlotInv, OneSlotEmbeds

\* SlotInv holds in every reachable state.
LEMMA SlotInvHolds == Spec => []SlotInv
<1>1. Init => SlotInv
  BY DEF Init, Idle, Actors, SlotInv, OneSlotEmbeds, Embedding
<1>2. TypeOK /\ SlotInv /\ [Next]_vars => SlotInv'
  BY SlotInvInductive
<1> QED BY <1>1, <1>2, TypeCorrect, PTL DEF Spec

\* A job that stalls is delivered again while its first slot still runs, any number of
\* times: all the same no two slots ever embed or deduplicate one memory.
THEOREM OneSlotCorrect == Spec => []OneSlotEmbeds
<1>1. SlotInv => OneSlotEmbeds
  BY DEF SlotInv
<1> QED BY <1>1, SlotInvHolds, PTL

-----------------------------------------------------------------------------
(* A sweep overruns the cap of an entry only by what sweeps had copied.    *)

\* An actor with local state x may still count a failed embedding of m.
Due(x, m) == \/ x.pc \in {"embed", "mark"} /\ x.m = m
             \/ x.pc # "page" /\ \E e \in x.batch : e[1] = m
Sweeping(m) == {r \in Retriers : Due(act[r], m)}

\* A batch names a memory once, and no more the one its sweep is working on.
BatchOnce(x) ==
    /\ \A e, f \in x.batch : e[1] = f[1] => e = f
    /\ x.pc \in {"embed", "mark"} => \A e \in x.batch : e[1] # x.m

\* No slot is embedding m and none ever will: its extraction is taken.
Counted(m) ==
    /\ row[m].extraction = "set"
    /\ \A w \in Workers : ~(act[w].pc \in {"embed", "mark"} /\ act[w].m = m)
OfJob(m) == IF Counted(m) THEN 0 ELSE 1

WithinBudget(m) ==
    retry[m].attempts + Cardinality(Sweeping(m)) + OfJob(m)
        <= MaxRetryAttempts + Cardinality(Retriers)

BudgetInv ==
    /\ \A r \in Retriers : BatchOnce(act[r])
    /\ \A m \in Memory : WithinBudget(m)

\* The numbers WithinBudget adds up.
LEMMA SweepingCount ==
    ASSUME IsFiniteSet(Retriers), NEW m
    PROVE  /\ IsFiniteSet(Sweeping(m)) /\ Cardinality(Sweeping(m)) \in Nat
           /\ Cardinality(Sweeping(m)) <= Cardinality(Retriers) /\ Cardinality(Retriers) \in Nat
           /\ IsFiniteSet(Sweeping(m)') /\ Cardinality(Sweeping(m)') \in Nat
           /\ Cardinality(Sweeping(m)') <= Cardinality(Retriers)
<1>1. Sweeping(m) \in SUBSET Retriers /\ Sweeping(m)' \in SUBSET Retriers
  BY DEF Sweeping
<1> QED BY <1>1, FS_Subset, FS_CardinalityType

\* A step that counts no failure and starts no sweep stays within the budget.
LEMMA BudgetKept ==
    ASSUME IsFiniteSet(Retriers), TypeOK, TypeOK', NEW m \in Memory, WithinBudget(m),
           retry'[m].attempts <= retry[m].attempts, Sweeping(m)' \subseteq Sweeping(m),
           Counted(m) => Counted(m)'
    PROVE  WithinBudget(m)'
<1>1. Cardinality(Sweeping(m)') <= Cardinality(Sweeping(m))
  BY SweepingCount, FS_Subset
<1>2. retry[m].attempts \in Nat /\ retry'[m].attempts \in Nat
  BY DEF TypeOK, Entry
<1>3. OfJob(m)' <= OfJob(m) /\ OfJob(m) \in Nat /\ OfJob(m)' \in Nat
  BY DEF OfJob
<1>4. MaxRetryAttempts \in Nat BY LimitsAssumption
<1> QED BY <1>1, <1>2, <1>3, <1>4, SweepingCount DEF WithinBudget

\* The sweeps of m after one actor moved on to x.
LEMMA OneMoves ==
    ASSUME act \in [Actors -> Act], NEW a \in Actors, NEW x, act' = [act EXCEPT ![a] = x], NEW m,
           a \in Retriers /\ Due(x, m) => Due(act[a], m)
    PROVE  Sweeping(m)' \subseteq Sweeping(m)
<1>1. \A r \in Retriers : r \in Actors /\ act'[r] = IF r = a THEN x ELSE act[r]
  BY DEF Actors
<1> QED BY <1>1 DEF Sweeping, Due

\* A memory no slot will embed any more stays so, through restarts too.
LEMMA CountedStays ==
    ASSUME TypeOK, [Next]_vars, NEW m \in Memory, Counted(m)
    PROVE  Counted(m)'
<1>1. row'[m].extraction = "set"
  BY ExtractionStays DEF Counted
<1>2. ASSUME NEW w \in Workers, act'[w].pc \in {"embed", "mark"}, act'[w].m = m
      PROVE  FALSE
  BY <1>2, EmbeddingMoves DEF Counted, SaveExtraction
<1> QED BY <1>1, <1>2 DEF Counted

\* A sweep that works off its batch never returns to a memory of it.
LEMMA BatchOnceStays ==
    ASSUME TypeOK, [Next]_vars, NEW r \in Retriers, BatchOnce(act[r])
    PROVE  BatchOnce(act[r])'
<1>0. act \in [Actors -> Act] /\ r \in Actors /\ r \notin Workers /\ r \notin Editors
  BY ActorsAssumption DEF TypeOK, Actors, ActorsAssumption
<1>1. BatchOnce(Idle)
  BY DEF BatchOnce, Idle
<1>2. CASE ReadPage(r) \/ DiscoverFails(r) \/ QueuePage(r)
  <2>1. CASE ReadPage(r)
    <3>1. PICK T : /\ act' = [act EXCEPT ![r] = [@ EXCEPT !.pc = "page", !.batch = T]]
                   /\ T = {<<m, row[m].text>> : m \in Page(act[r].page)}
      BY <2>1 DEF ReadPage
    <3>2. \A e, f \in T : e[1] = f[1] => e = f
      BY <3>1
    <3>3. act'[r].pc = "page" /\ act'[r].batch = T
      BY <1>0, <3>1 DEF Act
    <3> QED BY <3>2, <3>3 DEF BatchOnce
  <2>2. CASE DiscoverFails(r)
    <3>1. act'[r] = Idle
      BY <1>0, <2>2 DEF DiscoverFails
    <3> QED BY <1>1, <3>1 DEF BatchOnce
  <2>3. CASE QueuePage(r)
    <3>1. \A e, f \in Entries(retry') : e[1] = f[1] => e = f
      BY DEF Entries
    <3>2. BatchOnce(Sweep(Entries(retry')))
      BY <3>1 DEF BatchOnce, Sweep, Idle
    <3>3. \A p : BatchOnce([Idle EXCEPT !.pc = "discover", !.page = p])
      BY DEF BatchOnce, Idle
    <3>4. \/ act'[r] = Sweep(Entries(retry'))
          \/ \E p : act'[r] = [Idle EXCEPT !.pc = "discover", !.page = p]
      BY <1>0, <2>3 DEF QueuePage
    <3> QED BY <3>2, <3>3, <3>4 DEF BatchOnce
  <2> QED BY <1>2, <2>1, <2>2, <2>3
<1>3. CASE Pick(r)
  <2>1. PICK e \in act[r].batch :
            act' = [act EXCEPT ![r] = [@ EXCEPT !.pc = "embed", !.m = e[1], !.raw = e[2],
                                                !.batch = act[r].batch \ {e}]]
    BY <1>3 DEF Pick
  <2>2. act'[r].batch = act[r].batch \ {e} /\ act'[r].m = e[1]
    BY <1>0, <2>1 DEF Act
  <2> QED BY <2>2 DEF BatchOnce
<1>4. CASE Embed(r) \/ Mark(r)
  <2>1. act'[r].batch = act[r].batch /\ act'[r].m = act[r].m /\ act[r].pc \in {"embed", "mark"}
    BY <1>0, <1>4 DEF Embed, Mark, Act
  <2> QED BY <2>1 DEF BatchOnce
<1>5. CASE Unqueue(r) \/ EmbedFails(r)
  <2>1. act'[r] = Idle \/ act'[r] = [act[r] EXCEPT !.pc = "next", !.m = NoMemory, !.raw = 0]
    BY <1>0, <1>5 DEF Unqueue, EmbedFails, Resume
  <2>2. act[r] \in Act /\ BatchOnce(act[r])
    BY <1>0
  <2>3. BatchOnce([act[r] EXCEPT !.pc = "next", !.m = NoMemory, !.raw = 0])
    BY <2>2 DEF BatchOnce, Act
  <2> QED BY <1>1, <2>1, <2>3 DEF BatchOnce
<1>6. CASE Restart
  <2>1. act'[r] = Idle BY <1>0, <1>6 DEF Restart
  <2> QED BY <1>1, <2>1 DEF BatchOnce
<1>7. ASSUME NEW a \in Actors, a # r,
             \/ WorkerStep(a) \/ Stall(a) \/ RetrierStep(a) \/ HealerStep(a) \/ EditorStep(a)
      PROVE  act'[r] = act[r]
  BY <1>0, <1>7
     DEF WorkerStep, Take, Stall, SaveExtraction, ExtractionExists, PipelineFails, Reject, Embed, Mark,
         Unqueue, EmbedFails, MatchFound, NoMatch, MarkDuplicate, MarkDuplicateFails, Completes,
         RetrierStep, ReadPage, DiscoverFails, QueuePage, Pick, HealerStep, HealStart, Healed, HealFails,
         EditorStep, Edit, EditCommits, EditFails
<1>8. ASSUME \/ \E m \in Memory : Post(m) \/ Delete(m)
             \/ UNCHANGED vars
      PROVE  act'[r] = act[r]
  BY <1>8 DEF Post, Create, Enqueue, EnqueueFails, Commit, CommitFails, Delete, vars
<1>9. act'[r] = act[r] => BatchOnce(act[r])'
  BY DEF BatchOnce
<1>10. \A a \in Workers \cup Healers \cup Editors : a \in Actors /\ a # r
  BY ActorsAssumption DEF Actors, ActorsAssumption
<1>11. Retriers \subseteq Actors BY DEF Actors
<1> QED
  BY <1>2, <1>3, <1>4, <1>5, <1>6, <1>7, <1>8, <1>9, <1>10, <1>11 DEF Next, RetrierStep

\* The steps of workers.  The one failed embedding of a memory is the last it may count.
LEMMA WorkerBudget ==
    ASSUME IsFiniteSet(Retriers), TypeOK, TypeOK', SlotInv, BudgetInv,
           NEW w \in Workers, WorkerStep(w) \/ Stall(w), [Next]_vars, NEW m \in Memory
    PROVE  WithinBudget(m)'
<1>0. /\ act \in [Actors -> Act] /\ retry \in [Memory -> Entry] /\ w \in Actors
      /\ w \notin Retriers /\ w \notin Editors /\ WithinBudget(m)
  BY ActorsAssumption DEF TypeOK, Actors, ActorsAssumption, BudgetInv
<1>1. UNCHANGED act \/ \E x : act' = [act EXCEPT ![w] = x]
  BY DEF WorkerStep, Take, Stall, SaveExtraction, ExtractionExists, PipelineFails, Reject, Embed, Mark,
         Unqueue, EmbedFails, MatchFound, NoMatch, MarkDuplicate, MarkDuplicateFails, Completes
<1>2. \A r \in Retriers : act'[r] = act[r]
  BY <1>0, <1>1 DEF Actors
<1>3. Sweeping(m)' = Sweeping(m)
  BY <1>2 DEF Sweeping, Due
<1>4. CASE EmbedFails(w) /\ act[w].m = m
  <2>1. retry'[m].attempts = retry[m].attempts + 1
    BY <1>0, <1>4 DEF EmbedFails, Entry
  <2>2. act'[w].pc = "search" /\ act'[w].m = m
    BY <1>0, <1>4 DEF EmbedFails, Resume, Act
  <2>3. Embedding(w, m) /\ \A v \in Workers : Embedding(v, m) => v = w
    BY <1>4 DEF EmbedFails, Embedding, SlotInv, OneSlotEmbeds
  <2>4. row'[m].extraction = "set"
    BY <2>3, ExtractionStays DEF SlotInv
  <2>5. \A v \in Workers : ~(act'[v].pc \in {"embed", "mark"} /\ act'[v].m = m)
    <3> SUFFICES ASSUME NEW v \in Workers, v # w  PROVE ~(act[v].pc \in {"embed", "mark"} /\ act[v].m = m)
      BY <1>0, <1>4, <2>2 DEF EmbedFails, Actors
    <3> QED BY <2>3 DEF Embedding
  <2>6. OfJob(m)' = 0
    BY <2>4, <2>5 DEF OfJob, Counted
  <2>7. OfJob(m) = 1
    BY <1>4 DEF EmbedFails, OfJob, Counted
  <2>8. retry[m].attempts \in Nat /\ MaxRetryAttempts \in Nat
    BY <1>0, LimitsAssumption DEF Entry, LimitsAssumption
  <2> QED BY <1>0, <1>3, <2>1, <2>6, <2>7, <2>8, SweepingCount DEF WithinBudget
<1>5. CASE ~(EmbedFails(w) /\ act[w].m = m)
  <2>1. retry'[m] = retry[m] \/ retry'[m] = NoEntry
    BY <1>0, <1>5 DEF WorkerStep, Take, Stall, SaveExtraction, ExtractionExists, PipelineFails, Reject,
       Embed, Mark, Unqueue, EmbedFails, MatchFound, NoMatch, MarkDuplicate, MarkDuplicateFails
  <2>2. retry'[m].attempts <= retry[m].attempts
    BY <1>0, <2>1 DEF Entry, NoEntry
  <2> QED BY <1>0, <1>3, <2>2, BudgetKept, CountedStays
<1> QED BY <1>4, <1>5

\* The steps of sweeps.  One that copies an entry leaves room for all the others, and
\* one that counts a failure is done with the memory.
LEMMA RetrierBudget ==
    ASSUME IsFiniteSet(Retriers), TypeOK, TypeOK', SlotInv, BudgetInv,
           NEW r \in Retriers, RetrierStep(r), [Next]_vars, NEW m \in Memory
    PROVE  WithinBudget(m)'
<1>0. /\ act \in [Actors -> Act] /\ retry \in [Memory -> Entry] /\ r \in Actors
      /\ r \notin Workers /\ r \notin Editors /\ WithinBudget(m) /\ BatchOnce(act[r])
  BY ActorsAssumption DEF TypeOK, Actors, ActorsAssumption, BudgetInv
<1>1. Counted(m) => Counted(m)'
  BY CountedStays
<1>2. retry[m].attempts \in Nat /\ retry'[m].attempts \in Nat /\ MaxRetryAttempts \in Nat \ {0}
  BY LimitsAssumption DEF LimitsAssumption, TypeOK, Entry
<1>3. OfJob(m)' <= OfJob(m) /\ OfJob(m) \in {0, 1} /\ OfJob(m)' \in {0, 1}
  BY <1>1 DEF OfJob
<1>4. CASE QueuePage(r)
  <2>1. PICK x : /\ act' = [act EXCEPT ![r] = x]
                 /\ \/ x = Sweep(Entries(retry'))
                    \/ \E p : x = [Idle EXCEPT !.pc = "discover", !.page = p]
    BY <1>4 DEF QueuePage
  <2>2. retry'[m] = retry[m] \/ retry'[m].attempts = 0
    BY <1>4 DEF QueuePage, NewEntry
  <2>3. CASE AttemptsLeft(retry'[m])
    <3>1. retry'[m].attempts + 1 <= MaxRetryAttempts
      BY <1>2, <2>3 DEF AttemptsLeft
    <3> QED BY <1>2, <1>3, <3>1, SweepingCount DEF WithinBudget
  <2>4. CASE ~AttemptsLeft(retry'[m])
    <3>1. \A e \in Entries(retry') : e[1] # m
      BY <2>4 DEF Entries
    <3>2. ~Due(x, m)
      <4>1. \A t : (\A e \in t : e[1] # m) => ~Due(Sweep(t), m)
        BY DEF Due, Sweep, Idle
      <4>2. \A p : ~Due([Idle EXCEPT !.pc = "discover", !.page = p], m)
        BY DEF Due, Idle
      <4> QED BY <2>1, <3>1, <4>1, <4>2
    <3>3. Sweeping(m)' \subseteq Sweeping(m)
      BY <1>0, <2>1, <3>2, OneMoves
    <3>4. retry'[m].attempts <= retry[m].attempts
      BY <1>2, <2>2
    <3> QED BY <1>0, <1>1, <3>3, <3>4, BudgetKept
  <2> QED BY <2>3, <2>4
<1>5. CASE EmbedFails(r) /\ act[r].m = m
  <2>1. retry'[m].attempts = retry[m].attempts + 1
    BY <1>0, <1>5 DEF EmbedFails, Entry
  <2>2. act'[r] = Resume(r) /\ \A a \in Actors \ {r} : act'[a] = act[a]
    BY <1>0, <1>5 DEF EmbedFails
  <2>3. act[r].pc \in {"embed", "mark"}
    BY <1>5 DEF EmbedFails
  <2>4. r \in Sweeping(m) /\ \A e \in act[r].batch : e[1] # m
    BY <1>0, <1>5, <2>3 DEF Sweeping, Due, BatchOnce
  <2>5. ~Due(act'[r], m)
    BY <1>0, <2>2, <2>4 DEF Due, Resume, Idle, Act
  <2>6. Sweeping(m)' = Sweeping(m) \ {r}
    BY <2>2, <2>5 DEF Sweeping, Due, Actors
  <2>7. Cardinality(Sweeping(m)') = Cardinality(Sweeping(m)) - 1
    BY <2>4, <2>6, SweepingCount, FS_RemoveElement
  <2> QED BY <1>0, <1>2, <1>3, <2>1, <2>7, SweepingCount DEF WithinBudget
<1>6. CASE ~QueuePage(r) /\ ~(EmbedFails(r) /\ act[r].m = m)
  <2>1. retry'[m] = retry[m] \/ retry'[m] = NoEntry
    BY <1>0, <1>6 DEF RetrierStep, ReadPage, DiscoverFails, Pick, Embed, Mark, Unqueue, EmbedFails
  <2>2. retry'[m].attempts <= retry[m].attempts
    BY <1>2, <2>1 DEF NoEntry
  <2>3. \E x : act' = [act EXCEPT ![r] = x] /\ (Due(x, m) => Due(act[r], m))
    <3>1. CASE Pick(r)
      <4>1. PICK e \in act[r].batch :
                act' = [act EXCEPT ![r] = [@ EXCEPT !.pc = "embed", !.m = e[1], !.raw = e[2],
                                                    !.batch = act[r].batch \ {e}]]
        BY <3>1 DEF Pick
      <4> DEFINE x == [act[r] EXCEPT !.pc = "embed", !.m = e[1], !.raw = e[2],
                                     !.batch = act[r].batch \ {e}]
      <4>2. act' = [act EXCEPT ![r] = x]
        BY <1>0, <4>1
      <4>3. x.m = e[1] /\ x.batch = act[r].batch \ {e}
        BY <1>0 DEF Act
      <4>4. Due(x, m) => Due(act[r], m)
        BY <3>1, <4>3 DEF Pick, Due
      <4> QED BY <4>2, <4>4
    <3>2. CASE Embed(r) \/ Mark(r)
      <4>1. act[r].pc \in {"embed", "mark"}
        BY <3>2 DEF Embed, Mark
      <4>2. PICK p \in {"mark", "unqueue"} : act' = [act EXCEPT ![r] = [act[r] EXCEPT !.pc = p]]
        BY <1>0, <3>2 DEF Embed, Mark
      <4> DEFINE x == [act[r] EXCEPT !.pc = p]
      <4>3. x.m = act[r].m /\ x.batch = act[r].batch
        BY <1>0 DEF Act
      <4>4. Due(x, m) => Due(act[r], m)
        BY <4>1, <4>3 DEF Due
      <4> QED BY <4>2, <4>4
    <3>3. CASE Unqueue(r) \/ EmbedFails(r)
      <4>1. act' = [act EXCEPT ![r] = Resume(r)]
        BY <3>3 DEF Unqueue, EmbedFails
      <4>2. act[r].pc # "page"
        BY <3>3 DEF Unqueue, EmbedFails
      <4>3. Due(Resume(r), m) => Due(act[r], m)
        BY <1>0, <4>2 DEF Due, Resume, Idle, Act
      <4> QED BY <4>1, <4>3
    <3>4. CASE ReadPage(r)
      <4>1. PICK t : act' = [act EXCEPT ![r] = [@ EXCEPT !.pc = "page", !.batch = t]]
        BY <3>4 DEF ReadPage
      <4> DEFINE x == [act[r] EXCEPT !.pc = "page", !.batch = t]
      <4>2. x.pc = "page" /\ act' = [act EXCEPT ![r] = x]
        BY <1>0, <4>1 DEF Act
      <4> HIDE DEF x
      <4>3. ~Due(x, m)
        BY <4>2 DEF Due
      <4> QED BY <4>2, <4>3
    <3>5. CASE DiscoverFails(r)
      <4>1. act' = [act EXCEPT ![r] = Idle] /\ ~Due(Idle, m)
        BY <3>5 DEF DiscoverFails, Due, Idle
      <4> QED BY <4>1
    <3> QED BY <1>6, <3>1, <3>2, <3>3, <3>4, <3>5 DEF RetrierStep
  <2>4. Sweeping(m)' \subseteq Sweeping(m)
    BY <1>0, <2>3, OneMoves
  <2> QED BY <1>0, <1>1, <2>2, <2>4, BudgetKept
<1> QED BY <1>4, <1>5, <1>6

LEMMA BudgetInductive ==
    ASSUME IsFiniteSet(Retriers), TypeOK, TypeOK', SlotInv, BudgetInv, [Next]_vars
    PROVE  BudgetInv'
<1>0. \A r \in Retriers : BatchOnce(act[r])'
  BY BatchOnceStays DEF BudgetInv
<1> SUFFICES ASSUME NEW m \in Memory  PROVE WithinBudget(m)'
  BY <1>0 DEF BudgetInv
<1>1. WithinBudget(m) BY DEF BudgetInv
<1>2. CASE Restart
  <2>1. retry'[m].attempts = 0
    BY <1>2 DEF Restart, NoEntry
  <2>2. OfJob(m)' \in {0, 1} BY DEF OfJob
  <2>3. \A r \in Retriers : act'[r] = Idle
    BY <1>2 DEF Restart, Actors
  <2>4. Sweeping(m)' = {}
    BY <2>3 DEF Sweeping, Due, Idle
  <2>5. Cardinality(Sweeping(m)') = 0
    BY <2>4, FS_EmptySet
  <2>6. MaxRetryAttempts \in Nat \ {0} BY LimitsAssumption DEF LimitsAssumption
  <2> QED BY <2>1, <2>2, <2>5, <2>6, SweepingCount DEF WithinBudget
<1>3. ASSUME NEW w \in Workers, WorkerStep(w) \/ Stall(w)  PROVE WithinBudget(m)'
  BY <1>3, WorkerBudget
<1>4. ASSUME NEW r \in Retriers, RetrierStep(r)  PROVE WithinBudget(m)'
  BY <1>4, RetrierBudget
<1>5. ASSUME UNCHANGED retry, \A r \in Retriers : act'[r] = act[r]
      PROVE  WithinBudget(m)'
  <2>1. Sweeping(m)' = Sweeping(m) BY <1>5 DEF Sweeping, Due
  <2>2. retry'[m].attempts <= retry[m].attempts BY <1>5 DEF TypeOK, Entry
  <2> QED BY <1>1, <1>5, <2>1, <2>2, BudgetKept, CountedStays
<1>6. ASSUME NEW n \in Memory, Post(n) \/ Delete(n)
      PROVE  UNCHANGED <<retry, act>>
  BY <1>6 DEF Post, Create, Enqueue, EnqueueFails, Commit, CommitFails, Delete
<1>7. ASSUME NEW a \in Healers \cup Editors, HealerStep(a) \/ EditorStep(a)
      PROVE  UNCHANGED retry /\ \A r \in Retriers : act'[r] = act[r]
  <2>1. act \in [Actors -> Act] /\ \A r \in Retriers : r \in Actors /\ r # a
    BY ActorsAssumption DEF TypeOK, Actors, ActorsAssumption
  <2>2. (UNCHANGED act \/ \E x : act' = [act EXCEPT ![a] = x]) /\ UNCHANGED retry
    BY <1>7 DEF HealerStep, EditorStep, Pick, Embed, HealStart, Healed, HealFails, Edit, EditCommits,
                EditFails
  <2> QED BY <2>1, <2>2
<1>8. CASE UNCHANGED vars
  <2>1. WithinBudget(m)' <=> WithinBudget(m)
    BY <1>8 DEF vars, WithinBudget, Sweeping, Due, OfJob, Counted
  <2> QED BY <1>1, <2>1
<1> QED BY <1>2, <1>3, <1>4, <1>5, <1>6, <1>7, <1>8 DEF Next

\* However jobs, sweeps, failures and restarts interleave, the retry entry of a memory
\* counts at most one failure of each concurrent sweep beyond the cap.
THEOREM RetryBudgetCorrect == ASSUME IsFiniteSet(Retriers) PROVE Spec => []RetryBudget
<1>1. Init => BudgetInv
  <2> SUFFICES ASSUME Init PROVE BudgetInv
    OBVIOUS
  <2>1. \A r \in Retriers : act[r] = Idle BY DEF Init, Actors
  <2>2. \A r \in Retriers : BatchOnce(act[r]) BY <2>1 DEF BatchOnce, Idle
  <2>3. ASSUME NEW m \in Memory PROVE WithinBudget(m)
    <3>1. Sweeping(m) = {} BY <2>1 DEF Sweeping, Due, Idle
    <3>2. Cardinality(Sweeping(m)) = 0 BY <3>1, FS_EmptySet
    <3>3. retry[m].attempts = 0 BY DEF Init, NoEntry
    <3>4. OfJob(m) \in {0, 1} BY DEF OfJob
    <3>5. MaxRetryAttempts \in Nat \ {0} BY LimitsAssumption DEF LimitsAssumption
    <3> QED BY <3>2, <3>3, <3>4, <3>5, SweepingCount DEF WithinBudget
  <2> QED BY <2>2, <2>3 DEF BudgetInv
<1>2. TypeOK /\ TypeOK' /\ SlotInv /\ BudgetInv /\ [Next]_vars => BudgetInv'
  BY BudgetInductive
<1>3. TypeOK /\ BudgetInv => RetryBudget
  <2> SUFFICES ASSUME TypeOK, BudgetInv, NEW m \in Memory
               PROVE  retry[m].attempts <= MaxRetryAttempts + Cardinality(Retriers)
    BY DEF RetryBudget
  <2>1. retry[m].attempts \in Nat /\ MaxRetryAttempts \in Nat
    BY LimitsAssumption DEF LimitsAssumption, TypeOK, Entry
  <2>2. OfJob(m) \in Nat BY DEF OfJob
  <2> QED BY <2>1, <2>2, SweepingCount DEF BudgetInv, WithinBudget
<1> QED
  BY <1>1, <1>2, <1>3, TypeCorrect, SlotInvHolds, PTL DEF Spec

=============================================================================
