---------------------------- MODULE RecallProofs ----------------------------
(***************************************************************************)
(* Proofs about Recall: for any number of memories, any filters, limits    *)
(* and interleaving of writes.  IInv says, of each place recall can be at, *)
(* what the lists it has collected so far may hold.                        *)
(***************************************************************************)
EXTENDS Recall, FiniteSetTheorems, TLAPS

\* The places before any row is fetched, and those after the final cut.
Unfetched == {"idle", "embed", "fts", "ilike", "identity", "fetch"}
Cut == {"extras", "answered"}

\* A row read as live was live: it is in seen, and so is all that is live now.
SeenInv ==
    /\ at # "idle" => Live \subseteq seen
    /\ \A e \in results \cup reads : e.mark = "live" => e.id \in seen

\* Which list is filled where, and from which source.
StageInv ==
    /\ at \in Unfetched => results = {}
    /\ at \in {"idle", "embed", "window", "widen", "scores"} => keyword = {}
    /\ at \notin {"graph", "extras"} => reads = {}
    /\ at = "graph" => \A e \in reads : e.src = "graph"
    /\ at = "extras" => \A e \in reads : e.src = "extra" /\ e.id \notin IdsOf(results)
    /\ at # "answered" => \A e \in results : e.src # "extra"

\* What the filters leave of each source.
FitInv ==
    /\ \A e \in results : e.src \in {"search", "insight"} =>
           /\ e.mark = "live" /\ ByItsAgent(e.id)
           /\ e.src = "search" \/ ~req.multi => e.id \in InScope
    /\ at \in Cut => \A e \in results :
           e.mark = "live" /\ (e.src # "extra" => ByItsAgent(e.id))

\* Entries are told apart by their memory.
OnceInv ==
    /\ \A e, f \in reads : at = "graph" /\ e.id = f.id => e = f
    /\ \A e, f \in results : e.id = f.id => e = f \/ (e.src = "extra" /\ f.src = "extra")

\* The exact hits are among the results until the cut, and one of them after it.
KeywordInv ==
    /\ at \in {"graph", "insight", "rerank"} =>
           \A m \in keyword : \E e \in results : e.id = m /\ e.src = "search"
    /\ at \in Cut /\ keyword # {} => \E e \in Standard : e.id \in keyword

LimitInv ==
    /\ at \in Cut => Cardinality(Standard) <= Limit
    /\ Cardinality(Extras) <= MaxExtra

IInv == TypeOK /\ SeenInv /\ StageInv /\ FitInv /\ OnceInv /\ KeywordInv /\ LimitInv
-----------------------------------------------------------------------------
LEMMA ReadTyped ==
    ASSUME NEW m \in Memory, NEW s \in Source, TypeOK
    PROVE  Read(m, s) \in Entry
BY DEF Read, Entry, TypeOK

\* A write of a row leaves alone what recall has read, and what it makes live is seen.
LEMMA WriteKeepsIInv ==
    ASSUME IInv, NEW m \in Memory, NEW mark \in Mark, Write(m, mark)
    PROVE  IInv'
<1>1. TypeOK'
  BY RecallBounds DEF IInv, TypeOK, Write
<1>2. SeenInv'
  BY DEF IInv, TypeOK, SeenInv, Write, Live
<1>3. StageInv' /\ FitInv' /\ OnceInv' /\ KeywordInv' /\ LimitInv'
  BY DEF IInv, Write, StageInv, FitInv, ByItsAgent, OnceInv, KeywordInv, LimitInv, Standard,
     Extras, IdsOf
<1>. QED BY <1>1, <1>2, <1>3 DEF IInv

LEMMA OthersKeepIInv ==
    ASSUME IInv, Others
    PROVE  IInv'
<1>1. PICK m \in Memory :
        \/ Delete(m) \/ MarkDuplicate(m) \/ CompleteDuplicate(m)
        \/ \E mark \in Mark : Restore(m, mark)
  BY DEF Others
<1>2. \E mark \in Mark : Write(m, mark)
  BY <1>1 DEF Delete, MarkDuplicate, CompleteDuplicate, Restore, Mark
<1>. QED BY <1>2, WriteKeepsIInv

-----------------------------------------------------------------------------
LEMMA InitIInv == Init => IInv
<1>. SUFFICES ASSUME Init PROVE IInv OBVIOUS
<1>1. TypeOK
  BY RecallBounds DEF Init, TypeOK, Request, Place
<1>2. SeenInv /\ StageInv /\ FitInv /\ OnceInv /\ KeywordInv
  BY DEF Init, SeenInv, StageInv, FitInv, OnceInv, KeywordInv, IdsOf, Cut, Unfetched
<1>3. LimitInv
  <2>1. Extras = {} BY DEF Init, Extras
  <2>. QED BY <2>1, FS_EmptySet, RecallBounds DEF Init, LimitInv, Cut
<1>. QED BY <1>1, <1>2, <1>3 DEF IInv

LEMMA NextTypeOK ==
    ASSUME TypeOK, Next
    PROVE  TypeOK'
<1>. USE DEF TypeOK, Quiet
<1>1. CASE \E agent, insights, multi \in BOOLEAN : Start(agent, insights, multi)
  BY <1>1, RecallBounds DEF Start, Request, Place, Live
<1>2. CASE Search
  <2>1. CASE \E found \in SUBSET Memory : VectorSearch(found) \/ KeywordSearch(found)
    BY <2>1 DEF VectorSearch, KeywordSearch, NextSearch, Place
  <2>2. CASE \E found \in SUBSET Memory : TemporalPass(found)
    BY <2>2, ReadTyped DEF TemporalPass, Place, Source
  <2>3. CASE TakeTemporalPath \/ FullTextFails \/ TemporalScores
    BY <2>3 DEF TakeTemporalPath, FullTextFails, TemporalScores, Place, Request
  <2>4. CASE Fetch
    BY <2>4, ReadTyped DEF Fetch, Place, Source, Matching, Live
  <2>. QED BY <1>2, <2>1, <2>2, <2>3, <2>4 DEF Search
<1>3. CASE Merge
  <2>1. CASE \E m \in Memory : GraphRead(m) \/ Anticipate(m)
    BY <2>1, ReadTyped DEF GraphRead, Anticipate, Source
  <2>2. CASE \E found \in SUBSET Memory : SurfaceInsights(found)
    BY <2>2, ReadTyped DEF SurfaceInsights, Place, Source
  <2>3. CASE MergeGraph
    BY <2>3 DEF MergeGraph, Place, Best, UpTo, Survivors
  <2>4. CASE AppendExtras
    BY <2>4 DEF AppendExtras, Place, UpTo, Survivors
  <2>5. CASE \E answers \in BOOLEAN : Rerank(answers)
    BY <2>5 DEF Rerank, Place, Best, UpTo, Survivors, AgentsOwn, Rescued, Rescue,
       RescueAnyOrder, Missing
  <2>. QED BY <1>3, <2>1, <2>2, <2>3, <2>4, <2>5 DEF Merge
<1>4. CASE Fails \/ Reply
  BY <1>4 DEF Fails, Reply, Clear, Place
<1>5. CASE Others
  <2>1. \E m \in Memory, mark \in Mark : Write(m, mark)
    BY <1>5 DEF Others, Delete, MarkDuplicate, CompleteDuplicate, Restore, Mark
  <2>. QED BY <2>1, RecallBounds DEF Write
<1>. QED BY <1>1, <1>2, <1>3, <1>4, <1>5 DEF Next

-----------------------------------------------------------------------------
\* What others do is a write of one row.
LEMMA OthersWrite ==
    ASSUME Others
    PROVE  \E m \in Memory, mark \in Mark : Write(m, mark)
BY DEF Others, Delete, MarkDuplicate, CompleteDuplicate, Restore, Mark

\* What the cut leaves: live entries of the list, the agent's own, out of a list T that
\* is no longer than Limit.
LEMMA AfterCut ==
    ASSUME NEW answers \in BOOLEAN, Rerank(answers)
    PROVE  /\ at = "rerank" /\ at' \in Cut
           /\ UNCHANGED <<row, writes, seen, req, ids, reads>>
           /\ \A e \in results' :
                  e \in results /\ e.mark = "live" /\ ByItsAgent(e.id)
           /\ \E T \in UpTo(Limit, results) : results' \subseteq T
BY DEF Rerank, Quiet, Cut, Best, UpTo, Survivors, AgentsOwn, Rescued, Rescue, RescueAnyOrder,
       Missing

LEMMA NextSeenInv ==
    ASSUME TypeOK, SeenInv, StageInv, Next
    PROVE  SeenInv'
<1>. USE DEF SeenInv, Quiet, Live, Read
<1>1. CASE \E agent, insights, multi \in BOOLEAN : Start(agent, insights, multi)
  BY <1>1 DEF Start, StageInv, Unfetched
<1>2. CASE Search
  <2>1. CASE \E found \in SUBSET Memory : VectorSearch(found) \/ KeywordSearch(found)
    BY <2>1 DEF VectorSearch, KeywordSearch, NextSearch
  <2>2. CASE \E found \in SUBSET Memory : TemporalPass(found)
    BY <2>2 DEF TemporalPass, Matching
  <2>3. CASE TakeTemporalPath \/ FullTextFails \/ TemporalScores
    BY <2>3 DEF TakeTemporalPath, FullTextFails, TemporalScores
  <2>4. CASE Fetch
    BY <2>4 DEF Fetch, Matching
  <2>. QED BY <1>2, <2>1, <2>2, <2>3, <2>4 DEF Search
<1>3. CASE Merge
  <2>1. CASE \E m \in Memory : GraphRead(m) \/ Anticipate(m)
    BY <2>1 DEF GraphRead, Anticipate
  <2>2. CASE \E found \in SUBSET Memory : SurfaceInsights(found)
    BY <2>2 DEF SurfaceInsights, Matching
  <2>3. CASE MergeGraph
    BY <2>3 DEF MergeGraph, Best, UpTo, Survivors
  <2>4. CASE AppendExtras
    BY <2>4 DEF AppendExtras, UpTo, Survivors
  <2>5. CASE \E answers \in BOOLEAN : Rerank(answers)
    BY <2>5, AfterCut DEF Cut
  <2>. QED BY <1>3, <2>1, <2>2, <2>3, <2>4, <2>5 DEF Merge
<1>4. CASE Fails \/ Reply
  BY <1>4 DEF Fails, Reply, Clear
<1>5. CASE Others
  BY <1>5, OthersWrite DEF Write, TypeOK
<1>. QED BY <1>1, <1>2, <1>3, <1>4, <1>5 DEF Next

LEMMA NextStageInv ==
    ASSUME TypeOK, StageInv, Next
    PROVE  StageInv'
<1>. USE DEF StageInv, Quiet, Unfetched, IdsOf, Read
<1>1. CASE \E agent, insights, multi \in BOOLEAN : Start(agent, insights, multi)
  BY <1>1 DEF Start
<1>2. CASE Search
  <2>1. CASE \E found \in SUBSET Memory : VectorSearch(found) \/ KeywordSearch(found)
    BY <2>1 DEF VectorSearch, KeywordSearch, NextSearch
  <2>2. CASE \E found \in SUBSET Memory : TemporalPass(found)
    BY <2>2 DEF TemporalPass
  <2>3. CASE TakeTemporalPath \/ FullTextFails \/ TemporalScores
    BY <2>3 DEF TakeTemporalPath, FullTextFails, TemporalScores
  <2>4. CASE Fetch
    BY <2>4 DEF Fetch
  <2>. QED BY <1>2, <2>1, <2>2, <2>3, <2>4 DEF Search
<1>3. CASE Merge
  <2>1. CASE \E m \in Memory : GraphRead(m) \/ Anticipate(m)
    BY <2>1 DEF GraphRead, Anticipate
  <2>2. CASE \E found \in SUBSET Memory : SurfaceInsights(found)
    BY <2>2 DEF SurfaceInsights
  <2>3. CASE MergeGraph
    BY <2>3 DEF MergeGraph, Best, UpTo, Survivors
  <2>4. CASE AppendExtras
    BY <2>4 DEF AppendExtras, UpTo, Survivors
  <2>5. CASE \E answers \in BOOLEAN : Rerank(answers)
    BY <2>5, AfterCut DEF Cut
  <2>. QED BY <1>3, <2>1, <2>2, <2>3, <2>4, <2>5 DEF Merge
<1>4. CASE Fails \/ Reply
  BY <1>4 DEF Fails, Reply, Clear
<1>5. CASE Others
  BY <1>5, OthersWrite DEF Write
<1>. QED BY <1>1, <1>2, <1>3, <1>4, <1>5 DEF Next

LEMMA NextFitInv ==
    ASSUME TypeOK, StageInv, FitInv, Next
    PROVE  FitInv'
<1>. USE DEF FitInv, Quiet, Read, Cut, ByItsAgent
<1>1. CASE \E agent, insights, multi \in BOOLEAN : Start(agent, insights, multi)
  BY <1>1 DEF Start, StageInv, Unfetched
<1>2. CASE Search
  <2>1. CASE \E found \in SUBSET Memory : VectorSearch(found) \/ KeywordSearch(found)
    BY <2>1 DEF VectorSearch, KeywordSearch, NextSearch
  <2>2. CASE \E found \in SUBSET Memory : TemporalPass(found)
    BY <2>2 DEF TemporalPass, Matching, Live
  <2>3. CASE TakeTemporalPath \/ FullTextFails \/ TemporalScores
    BY <2>3 DEF TakeTemporalPath, FullTextFails, TemporalScores, StageInv, Unfetched
  <2>4. CASE Fetch
    BY <2>4 DEF Fetch, Matching, Live
  <2>. QED BY <1>2, <2>1, <2>2, <2>3, <2>4 DEF Search
<1>3. CASE Merge
  <2>1. CASE \E m \in Memory : GraphRead(m) \/ Anticipate(m)
    BY <2>1 DEF GraphRead, Anticipate
  <2>2. CASE \E found \in SUBSET Memory : SurfaceInsights(found)
    BY <2>2 DEF SurfaceInsights, Surfaced, Matching, Live
  <2>3. CASE MergeGraph
    BY <2>3 DEF MergeGraph, StageInv, Best, UpTo, Survivors
  <2>4. CASE AppendExtras
    BY <2>4 DEF AppendExtras, StageInv, UpTo, Survivors
  <2>5. CASE \E answers \in BOOLEAN : Rerank(answers)
    BY <2>5, AfterCut DEF StageInv
  <2>. QED BY <1>3, <2>1, <2>2, <2>3, <2>4, <2>5 DEF Merge
<1>4. CASE Fails \/ Reply
  BY <1>4 DEF Fails, Reply, Clear
<1>5. CASE Others
  BY <1>5, OthersWrite DEF Write
<1>. QED BY <1>1, <1>2, <1>3, <1>4, <1>5 DEF Next

LEMMA NextOnceInv ==
    ASSUME TypeOK, StageInv, OnceInv, Next
    PROVE  OnceInv'
<1>. USE DEF OnceInv, Quiet, Read, IdsOf
<1>1. CASE \E agent, insights, multi \in BOOLEAN : Start(agent, insights, multi)
  BY <1>1 DEF Start, StageInv
<1>2. CASE Search
  <2>1. CASE \E found \in SUBSET Memory : VectorSearch(found) \/ KeywordSearch(found)
    BY <2>1 DEF VectorSearch, KeywordSearch, NextSearch, StageInv
  <2>2. CASE \E found \in SUBSET Memory : TemporalPass(found)
    BY <2>2 DEF TemporalPass, StageInv
  <2>3. CASE TakeTemporalPath \/ FullTextFails \/ TemporalScores
    BY <2>3 DEF TakeTemporalPath, FullTextFails, TemporalScores, StageInv
  <2>4. CASE Fetch
    BY <2>4 DEF Fetch, StageInv
  <2>. QED BY <1>2, <2>1, <2>2, <2>3, <2>4 DEF Search
<1>3. CASE Merge
  <2>1. CASE \E m \in Memory : GraphRead(m) \/ Anticipate(m)
    BY <2>1 DEF GraphRead, Anticipate
  <2>2. CASE \E found \in SUBSET Memory : SurfaceInsights(found)
    BY <2>2 DEF SurfaceInsights, StageInv
  <2>3. CASE MergeGraph
    BY <2>3 DEF MergeGraph, StageInv, Best, UpTo, Survivors
  <2>4. CASE AppendExtras
    BY <2>4 DEF AppendExtras, StageInv, UpTo, Survivors
  <2>5. CASE \E answers \in BOOLEAN : Rerank(answers)
    BY <2>5, AfterCut DEF Cut
  <2>. QED BY <1>3, <2>1, <2>2, <2>3, <2>4, <2>5 DEF Merge
<1>4. CASE Fails \/ Reply
  BY <1>4 DEF Fails, Reply, Clear
<1>5. CASE Others
  BY <1>5, OthersWrite DEF Write
<1>. QED BY <1>1, <1>2, <1>3, <1>4, <1>5 DEF Next

-----------------------------------------------------------------------------
\* A cut list of Best(n, S) is not empty unless S is, or nothing was asked for.
LEMMA BestNotEmpty ==
    ASSUME NEW n \in Nat \ {0}, NEW S, S # {}, NEW T \in Best(n, S)
    PROVE  T # {}
BY FS_EmptySet DEF Best, UpTo

\* Before the cut, an entry of a keyword hit is the one the fetch made: it is live and
\* passes the agent filter.
LEMMA HitPassesFilters ==
    ASSUME TypeOK, StageInv, FitInv, OnceInv, KeywordInv, at = "rerank",
           NEW e \in results, e.id \in keyword
    PROVE  e \in Survivors(AgentsOwn({e})) /\ e.src = "search"
<1>1. PICK f \in results : f.id = e.id /\ f.src = "search"
  BY DEF KeywordInv
<1>2. e = f
  BY <1>1 DEF OnceInv
<1>. QED BY <1>1, <1>2 DEF FitInv, Survivors, AgentsOwn

\* Whatever the cross-encoder's order, some keyword hit is in the cut and rescued list.
LEMMA CutKeepsOne ==
    ASSUME TypeOK, StageInv, FitInv, OnceInv, KeywordInv, Rerank(TRUE), keyword # {}
    PROVE  \E e \in results' : e.id \in keyword /\ e.src # "extra"
<1>0. PICK top \in Best(Limit, results) : \E T \in Rescued(top, TRUE) :
        results' = Survivors(AgentsOwn(T))
  BY DEF Rerank
<1>1. PICK T \in Rescued(top, TRUE) : results' = Survivors(AgentsOwn(T))
  BY <1>0
<1>2. at = "rerank" BY DEF Rerank
<1>3. \E e \in T : e \in results /\ e.id \in keyword
  <2>1. CASE Missing(top) = {}
    <3>1. PICK m \in keyword : TRUE OBVIOUS
    <3>2. PICK e \in results : e.id = m BY <1>2, <3>1 DEF KeywordInv
    <3>3. e \in top BY <2>1, <3>2 DEF Missing
    <3>4. T = top BY <1>1, <2>1 DEF Rescued
    <3>. QED BY <3>2, <3>3, <3>4
  <2>2. CASE Missing(top) # {}
    <3>1. T \in Rescue(top) BY <1>1, <2>2 DEF Rescued
    <3>2. T # {} BY <2>2, <3>1, BestNotEmpty, RecallBounds DEF Rescue
    <3>3. \E e \in T : e \in Missing(top) BY <2>2, <3>1, <3>2 DEF Rescue
    <3>. QED BY <3>3 DEF Missing
  <2>. QED BY <2>1, <2>2
<1>4. PICK e \in T : e \in results /\ e.id \in keyword BY <1>3
<1>5. e \in Survivors(AgentsOwn({e})) /\ e.src = "search" BY <1>2, <1>4, HitPassesFilters
<1>6. e \in results' BY <1>1, <1>4, <1>5 DEF Survivors, AgentsOwn
<1>. QED BY <1>4, <1>5, <1>6

LEMMA NextKeywordInv ==
    ASSUME TypeOK, StageInv, FitInv, OnceInv, KeywordInv, Next
    PROVE  KeywordInv'
<1>. USE DEF KeywordInv, Quiet, Read, Cut, Standard, Extras
<1>1. CASE \E agent, insights, multi \in BOOLEAN : Start(agent, insights, multi)
  BY <1>1 DEF Start
<1>2. CASE Search
  <2>1. CASE \E found \in SUBSET Memory : VectorSearch(found) \/ KeywordSearch(found)
    BY <2>1 DEF VectorSearch, KeywordSearch, NextSearch
  <2>2. CASE \E found \in SUBSET Memory : TemporalPass(found)
    BY <2>2 DEF TemporalPass, StageInv
  <2>3. CASE TakeTemporalPath \/ FullTextFails \/ TemporalScores
    BY <2>3 DEF TakeTemporalPath, FullTextFails, TemporalScores, StageInv
  <2>4. CASE Fetch
    <3>1. ASSUME NEW m \in keyword' PROVE \E e \in results' : e.id = m /\ e.src = "search"
      <4>1. Read(m, "search") \in results' BY <2>4, <3>1 DEF Fetch
      <4>. QED BY <4>1
    <3>2. at' = "graph" BY <2>4 DEF Fetch
    <3>. QED BY <3>1, <3>2
  <2>. QED BY <1>2, <2>1, <2>2, <2>3, <2>4 DEF Search
<1>3. CASE Merge
  <2>1. CASE \E m \in Memory : GraphRead(m) \/ Anticipate(m)
    BY <2>1 DEF GraphRead, Anticipate
  <2>2. CASE \E found \in SUBSET Memory : SurfaceInsights(found)
    BY <2>2 DEF SurfaceInsights
  <2>3. CASE MergeGraph
    BY <2>3 DEF MergeGraph, Best, UpTo, Survivors
  <2>4. CASE AppendExtras
    BY <2>4 DEF AppendExtras, StageInv, FitInv, UpTo, Survivors, IdsOf
  <2>5. CASE \E answers \in BOOLEAN : Rerank(answers)
    <3>1. PICK answers \in BOOLEAN : Rerank(answers) BY <2>5
    <3>2. CASE answers
      BY <3>1, <3>2, CutKeepsOne DEF Rerank
    <3>3. CASE ~answers
      BY <3>1, <3>3 DEF Rerank
    <3>. QED BY <3>2, <3>3
  <2>. QED BY <1>3, <2>1, <2>2, <2>3, <2>4, <2>5 DEF Merge
<1>4. CASE Fails \/ Reply
  BY <1>4 DEF Fails, Reply, Clear
<1>5. CASE Others
  BY <1>5, OthersWrite DEF Write
<1>. QED BY <1>1, <1>2, <1>3, <1>4, <1>5 DEF Next

-----------------------------------------------------------------------------
LEMMA EntryFinite == IsFiniteSet(Entry)
<1>. DEFINE P == (Memory \X Source) \X Mark
            f == [p \in P |-> [id |-> p[1][1], src |-> p[1][2], mark |-> p[2]]]
<1>1. IsFiniteSet(Source) /\ IsFiniteSet(Mark)
  <2>1. Source = ((({} \cup {"search"}) \cup {"graph"}) \cup {"insight"}) \cup {"extra"}
    BY DEF Source
  <2>2. Mark = ((({} \cup {"live"}) \cup {"duplicate"}) \cup {"linked"}) \cup {"deleted"}
    BY DEF Mark
  <2>. QED BY <2>1, <2>2, FS_EmptySet, FS_AddElement, Zenon
<1>2. IsFiniteSet(Memory \X Source) BY <1>1, RecallFinite, FS_Product
<1>3. IsFiniteSet(P) BY <1>1, <1>2, FS_Product
<1>4. f \in Surjection(P, Entry)
  <2>1. f \in [P -> Entry] BY DEF Entry
  <2>2. ASSUME NEW e \in Entry PROVE \E p \in P : f[p] = e
    <3>1. <<<<e.id, e.src>>, e.mark>> \in P BY DEF Entry
    <3>2. f[<<<<e.id, e.src>>, e.mark>>] = e BY <3>1 DEF Entry
    <3>. QED BY <3>1, <3>2
  <2>. QED BY <2>1, <2>2 DEF Surjection
<1>. QED BY <1>3, <1>4, FS_Surjection

\* A sublist of a list of entries that keeps to a bound keeps to it.
LEMMA BoundedSublist ==
    ASSUME NEW n, NEW S \in SUBSET Entry, NEW T \in UpTo(n, S), NEW R \in SUBSET T, n \in Nat
    PROVE  Cardinality(R) <= n
<1>1. IsFiniteSet(T) BY EntryFinite, FS_Subset DEF UpTo
<1>2. Cardinality(R) <= Cardinality(T) /\ Cardinality(R) \in Nat /\ Cardinality(T) \in Nat
  BY <1>1, FS_Subset, FS_CardinalityType
<1>3. Cardinality(T) <= n BY DEF UpTo
<1>. QED BY <1>2, <1>3

\* Nothing anticipated is among the results before it is appended.
LEMMA NoExtras ==
    ASSUME StageInv, at # "answered"
    PROVE  Cardinality(Extras) = 0 /\ Extras = {}
BY FS_EmptySet DEF StageInv, Extras

LEMMA NextLimitInv ==
    ASSUME TypeOK, StageInv, StageInv', LimitInv, Next
    PROVE  LimitInv'
<1>1. CASE AppendExtras
  <2>1. PICK S \in UpTo(MaxExtra, reads) : results' = Survivors(results \cup S)
    BY <1>1 DEF AppendExtras
  <2>2. at = "extras" BY <1>1 DEF AppendExtras
  <2>3. Extras' \in SUBSET S BY <2>1, <2>2 DEF StageInv, Extras, Survivors
  <2>4. Cardinality(Extras') <= MaxExtra
    BY <2>3, BoundedSublist, RecallBounds DEF TypeOK
  <2>5. Standard = results BY <2>2, NoExtras DEF Standard
  <2>6. Standard' \in SUBSET Standard
    BY <2>1, <2>2, <2>5 DEF StageInv, Standard, Extras, Survivors, UpTo
  <2>7. IsFiniteSet(Standard) BY <2>5, EntryFinite, FS_Subset DEF TypeOK
  <2>8. Cardinality(Standard') <= Cardinality(Standard) BY <2>6, <2>7, FS_Subset
  <2>9. Cardinality(Standard) <= Limit BY <2>2 DEF LimitInv, Cut
  <2>10. Cardinality(Standard') \in Nat /\ Cardinality(Standard) \in Nat
    BY <2>6, <2>7, FS_Subset, FS_CardinalityType
  <2>11. Cardinality(Standard') <= Limit BY <2>8, <2>9, <2>10, RecallBounds
  <2>. QED BY <2>4, <2>11 DEF LimitInv
<1>2. CASE \E answers \in BOOLEAN : Rerank(answers)
  <2>1. PICK T \in UpTo(Limit, results) : results' \subseteq T BY <1>2, AfterCut
  <2>2. Extras' = {} BY <1>2, AfterCut DEF StageInv, Extras
  <2>3. Standard' \in SUBSET T BY <2>1, <2>2 DEF Standard
  <2>4. Cardinality(Standard') <= Limit BY <2>3, BoundedSublist, RecallBounds DEF TypeOK
  <2>. QED BY <2>2, <2>4, FS_EmptySet, RecallBounds DEF LimitInv
<1>3. CASE Others \/ \E m \in Memory : Anticipate(m)
  BY <1>3, OthersWrite DEF Write, Anticipate, LimitInv, Standard, Extras, Quiet
<1>4. CASE at' \notin Cut
  <2>1. Extras' = {} BY <1>4 DEF StageInv, Extras, Cut
  <2>. QED BY <1>4, <2>1, FS_EmptySet, RecallBounds DEF LimitInv
<1>5. at' \notin Cut \/ AppendExtras \/ (\E answers \in BOOLEAN : Rerank(answers)) \/ Others
      \/ \E m \in Memory : Anticipate(m)
  BY DEF Next, Search, Merge, Start, VectorSearch, KeywordSearch, NextSearch, TemporalPass,
     TakeTemporalPath, FullTextFails, Fetch, TemporalScores, GraphRead, SurfaceInsights,
     MergeGraph, Fails, Reply, Clear, Cut
<1>. QED BY <1>1, <1>2, <1>3, <1>4, <1>5

-----------------------------------------------------------------------------
LEMMA NextIInv == IInv /\ [Next]_vars => IInv'
<1>1. CASE Next
  <2>. SUFFICES ASSUME IInv PROVE IInv' BY <1>1
  <2>1. TypeOK' /\ StageInv' BY <1>1, NextTypeOK, NextStageInv DEF IInv
  <2>. QED BY <1>1, <2>1, NextSeenInv, NextFitInv, NextOnceInv, NextKeywordInv, NextLimitInv DEF IInv
<1>2. CASE UNCHANGED vars
  <2>. SUFFICES ASSUME IInv PROVE IInv' OBVIOUS
  <2>1. TypeOK' /\ SeenInv' BY <1>2 DEF IInv, vars, TypeOK, SeenInv, Live
  <2>2. StageInv' /\ FitInv' /\ OnceInv' /\ KeywordInv' /\ LimitInv'
    BY <1>2 DEF IInv, vars, StageInv, FitInv, ByItsAgent, OnceInv, KeywordInv, LimitInv,
       Standard, Extras, IdsOf
  <2>. QED BY <2>1, <2>2 DEF IInv
<1>. QED BY <1>1, <1>2

LEMMA IInvImplies ==
    IInv => TypeOK /\ ReturnedWasLive /\ NoTwice /\ LimitKept /\ AnswerFits /\ KeywordHitReturned
<1>. SUFFICES ASSUME IInv PROVE ReturnedWasLive /\ NoTwice /\ LimitKept /\ AnswerFits /\ KeywordHitReturned
  BY DEF IInv
<1>1. ReturnedWasLive BY DEF IInv, ReturnedWasLive, SeenInv, FitInv, Answered, Cut
<1>2. NoTwice BY DEF IInv, NoTwice, OnceInv, Extras
<1>3. LimitKept BY DEF IInv, LimitKept, LimitInv, Answered, Cut
<1>4. AnswerFits
  <2>1. SUFFICES ASSUME Answered, NEW e \in Standard
                 PROVE  /\ ByItsAgent(e.id)
                        /\ (e.src = "search" \/ (e.src = "insight" /\ ~req.multi)) =>
                               e.id \in InScope
    BY DEF AnswerFits
  <2>2. e \in results /\ e.src # "extra" BY DEF Standard, Extras
  <2>3. e.src \in Source BY <2>2 DEF IInv, TypeOK, Entry
  <2>. QED BY <2>1, <2>2, <2>3 DEF IInv, FitInv, Answered, Cut, Source
<1>5. KeywordHitReturned BY DEF IInv, KeywordHitReturned, KeywordInv, Answered, Cut
<1>. QED BY <1>1, <1>2, <1>3, <1>4, <1>5

\* Every variable keeps its type.
THEOREM TypeCorrect == Spec => []TypeOK
BY InitIInv, NextIInv, IInvImplies, PTL DEF Spec

\* recall never answers with a memory that was deleted, superseded or a duplicate all
\* through the request, whichever source found it and whatever others wrote meanwhile.
THEOREM AnswersWereLive == Spec => []ReturnedWasLive
BY InitIInv, NextIInv, IInvImplies, PTL DEF Spec

\* mergeGraphResults, surfaceInsights, the keyword rescue and the anticipated memories
\* never repeat a memory of the standard list.
THEOREM AnswersAreDistinct == Spec => []NoTwice
BY InitIInv, NextIInv, IInvImplies, PTL DEF Spec

\* The list is never longer than the limit, rescued hits included.
THEOREM AnswersKeepToTheLimit == Spec => []LimitKept
BY InitIInv, NextIInv, IInvImplies, PTL DEF Spec

\* filterAgentId holds for every standard result, and the other filters for what the
\* search and the insights contribute.
THEOREM AnswersFitTheFilters == Spec => []AnswerFits
BY InitIInv, NextIInv, IInvImplies, PTL DEF Spec

\* After a cross-encoder ranking, at least one exact keyword hit is in the answer.
THEOREM KeywordHitsSurvive == Spec => []KeywordHitReturned
BY InitIInv, NextIInv, IInvImplies, PTL DEF Spec
=============================================================================
