------------------------------- MODULE Recall -------------------------------
(***************************************************************************)
(* One recall request: MemoryQueryService.recall collects memories from    *)
(* the vector index, from keyword searches, from the knowledge graph and   *)
(* from recent insights, ranks them, cuts the list to the limit and may    *)
(* add anticipated ones, while other requests and workers write the rows.  *)
(*                                                                         *)
(* No transaction spans the reads.  A result is the row as it was read,    *)
(* and each source reads it at another time and under other filters: that  *)
(* is what this module keeps.  Scores are left out.  A ranking is any      *)
(* order, except where the code fixes who comes first; the usage weights,  *)
(* the boosts, the access counters and the log change no set of results.   *)
(***************************************************************************)
EXTENDS Naturals, FiniteSets

CONSTANTS
    Memory,      \* memories of one user
    InScope,     \* those the request's subject, visibility, tag and session filters match
    InRange,     \* those between its explicit dates (after, before)
    ByAgent,     \* those written by the agent it may filter by
    Insight,     \* those of the layer INSIGHT
    Limit,       \* results asked for (10)
    MaxExtra,    \* anticipated memories added (AnticipatoryConfig.maxResults)
    MaxWrites    \* bound: writes by others during one request

ASSUME RecallSets ==
    InScope \subseteq Memory /\ InRange \subseteq Memory /\ ByAgent \subseteq Memory
    /\ Insight \subseteq Memory
ASSUME RecallFinite == IsFiniteSet(Memory)
ASSUME RecallBounds == Limit \in Nat \ {0} /\ MaxExtra \in Nat /\ MaxWrites \in Nat

VARIABLES
    row,       \* Postgres: what filters see of each memory
    writes,    \* writes by others since the request began
    seen,      \* history: memories that were live at some time since it began
    req,       \* the request's parameters
    at,        \* where recall is
    keyword,   \* ids found by a keyword search; from the fetch on, those it returned
    ids,       \* ids the vector search found
    reads,     \* rows read for the graph merge, later the extras
    results    \* the list of results

vars == <<row, writes, seen, req, at, keyword, ids, reads, results>>

\* "duplicate": status DUPLICATE or not searchable; "linked": isDuplicateOf is set while
\* the status is not DUPLICATE; "deleted": deleted, superseded or not yet written.
Mark == {"live", "duplicate", "linked", "deleted"}
Source == {"search", "graph", "insight", "extra"}
Entry == [id: Memory, src: Source, mark: Mark]
Request == [agent: BOOLEAN, insights: BOOLEAN, multi: BOOLEAN]
Place == {"idle", "embed", "fts", "ilike", "identity", "fetch", "window", "widen",
          "scores", "graph", "insight", "rerank", "extras", "answered"}

IdsOf(S) == {e.id : e \in S}

\* Variant: the result does not tell its source.
ReadUntagged(m, s) == [id |-> m, mark |-> row[m]]
Read(m, s) == [id |-> m, src |-> s, mark |-> row[m]]
Live == {m \in Memory : row[m] = "live"}

\* Variant: the filter forgets isDuplicateOf.
SurvivorsByStatus(S) == {e \in S : e.mark \notin {"deleted", "duplicate"}}
Survivors(S) == {e \in S : e.mark = "live"}

\* The agent filter and the dates are read on the single-query path alone.
ByItsAgent(m) == (req.agent /\ ~req.multi) => m \in ByAgent
Matching == {m \in Live \cap InScope : ByItsAgent(m)}
InItsRange == IF req.multi THEN Memory ELSE InRange
UpTo(n, S) == {T \in SUBSET S : Cardinality(T) <= n}
Best(n, S) == {T \in UpTo(n, S) : Cardinality(T) = n \/ T = S}

Init ==
    /\ row \in [Memory -> Mark]
    /\ writes = 0
    /\ seen = {}
    /\ req = [agent |-> FALSE, insights |-> FALSE, multi |-> FALSE]
    /\ at = "idle"
    /\ keyword = {}
    /\ ids = {}
    /\ reads = {}
    /\ results = {}

Quiet == UNCHANGED <<row, writes, seen, req>>

-----------------------------------------------------------------------------
\* A request may name an agent to filter by, leave insights out by its layers, and ask
\* several variants of its query.
Start(agent, insights, multi) ==
    /\ at = "idle"
    /\ at' = "embed"
    /\ req' = [agent |-> agent, insights |-> insights, multi |-> multi]
    /\ seen' = Live
    /\ writes' = 0
    /\ UNCHANGED <<row, keyword, ids, reads, results>>

\* The query is embedded.  The index returns any ids: it may be behind the rows, and of
\* the marks its own filter looks at neither isDuplicateOf nor what changed since.
\* Fused answers to several queries are such ids, and no keyword search follows them.
VectorSearch(found) ==
    /\ at = "embed"
    /\ ids' = found
    /\ at' = IF req.multi THEN "fetch" ELSE "fts"
    /\ UNCHANGED <<keyword, reads, results>> /\ Quiet

\* A time expression in the query takes the other path, without a keyword search and
\* with a single query.
TakeTemporalPath ==
    /\ at = "embed"
    /\ at' = "window"
    /\ req' = [req EXCEPT !.multi = FALSE]
    /\ UNCHANGED <<row, writes, seen, keyword, ids, reads, results>>

NextSearch(p) == IF p = "fts" THEN "ilike" ELSE IF p = "ilike" THEN "identity" ELSE "fetch"

\* Full text, then words, then identity questions: each finds live rows, of any scope.
KeywordSearch(found) ==
    /\ at \in {"fts", "ilike", "identity"}
    /\ found \subseteq Live
    /\ keyword' = keyword \cup found
    /\ at' = NextSearch(at)
    /\ UNCHANGED <<ids, reads, results>> /\ Quiet

\* When the full text search fails, the other two are skipped with it.
FullTextFails ==
    /\ at = "fts"
    /\ at' = "fetch"
    /\ UNCHANGED <<keyword, ids, reads, results>> /\ Quiet

\* The rows are read again, under every filter except the layers.
Fetch ==
    LET found == (ids \cup keyword) \cap Matching \cap InItsRange
    IN  /\ at = "fetch"
        /\ results' = {Read(m, "search") : m \in found}
        /\ keyword' = keyword \cap found
        /\ ids' = {}
        /\ at' = "graph"
        /\ UNCHANGED reads /\ Quiet

\* One pass over a window of time.  Only the first keeps to the explicit dates; a later
\* one is wider and replaces what the pass before it found.
TemporalPass(found) ==
    /\ at \in {"window", "widen"}
    /\ found \subseteq Matching
    /\ at = "window" => found \subseteq InRange
    /\ results' = {Read(m, "search") : m \in found}
    /\ at' \in {"widen", "scores"}
    /\ UNCHANGED <<keyword, ids, reads>> /\ Quiet

\* The vector search only scores what the window holds.
TemporalScores ==
    /\ at = "scores"
    /\ at' = "graph"
    /\ UNCHANGED <<keyword, ids, reads, results>> /\ Quiet

\* One memory of an entity is read, without any filter; the first read of it counts.
GraphRead(m) ==
    /\ at = "graph"
    /\ m \notin IdsOf(reads)
    /\ reads' = reads \cup {Read(m, "graph")}
    /\ UNCHANGED <<keyword, ids, results, at>> /\ Quiet

\* Variant: memories already in the list are pushed again.
MergeGraphBlindly ==
    /\ at = "graph"
    /\ \E S \in Best(Limit, reads) \cup {{}} : results' = results \cup Survivors(S)
    /\ reads' = {}
    /\ at' = "insight"
    /\ UNCHANGED <<keyword, ids>> /\ Quiet

\* At most Limit of them are merged; on an error or after three seconds, none.
MergeGraph ==
    /\ at = "graph"
    /\ \E S \in Best(Limit, reads) \cup {{}} :
           results' = results \cup {e \in Survivors(S) : e.id \notin IdsOf(results)}
    /\ reads' = {}
    /\ at' = "insight"
    /\ UNCHANGED <<keyword, ids>> /\ Quiet

\* Several queries surface insights whatever the request's layers and filters are.
Surfaced ==
    IF req.multi THEN Live \cap Insight
    ELSE IF req.insights THEN Matching \cap InRange \cap Insight ELSE {}

\* Recent insights the index finds close to the query; an error leaves the list alone.
SurfaceInsights(found) ==
    /\ at = "insight"
    /\ found \subseteq Surfaced
    /\ results' = results \cup {Read(m, "insight") : m \in found \ IdsOf(results)}
    /\ at' = "rerank"
    /\ UNCHANGED <<keyword, ids, reads>> /\ Quiet

\* The keyword hits a cut has dropped.
Missing(top) == {e \in results : e.id \in keyword} \ top

\* Variants: the list is not cut again; the rescued hits are put at its end.
RescueUncut(top) == {Missing(top) \cup top}
RescueLast(top) == {T \in Best(Limit, Missing(top) \cup top) : T \subseteq top \/ top \subseteq T}

\* The dropped hits come back with a score of 1.1 or more, before all that the
\* cross-encoder has scored (1 at most), and the list is cut again.
Rescue(top) ==
    {T \in Best(Limit, Missing(top) \cup top) : T \subseteq Missing(top) \/ Missing(top) \subseteq T}
RescueAnyOrder(top) == Best(Limit, Missing(top) \cup top)
Rescued(top, answers) ==
    IF Missing(top) = {} THEN {top} ELSE IF answers THEN Rescue(top) ELSE RescueAnyOrder(top)

\* Variant: the agent is only checked where rows are fetched.
EveryAgents(S) == S
AgentsOwn(S) == {e \in S : ByItsAgent(e.id)}

\* The cross-encoder's order, or the blend of scores when it does not answer; then the
\* rescue, the agent filter and the filter of survivors.
Rerank(answers) ==
    /\ at = "rerank"
    /\ \E top \in Best(Limit, results) : \E T \in Rescued(top, answers) :
           results' = Survivors(AgentsOwn(T))
    /\ keyword' = IF answers THEN keyword ELSE {}     \* from here on only history
    /\ at' \in {"extras", "answered"}
    /\ UNCHANGED <<ids, reads>> /\ Quiet

\* A strategy reads a memory that is not deleted and not among the results.
Anticipate(m) ==
    /\ at = "extras"
    /\ m \notin IdsOf(results) /\ row[m] # "deleted"
    /\ reads' = reads \cup {Read(m, "extra")}
    /\ UNCHANGED <<keyword, ids, results, at>> /\ Quiet

\* The best of them are appended, and the list filtered once more.
AppendExtras ==
    /\ at = "extras"
    /\ \E S \in UpTo(MaxExtra, reads) : results' = Survivors(results \cup S)
    /\ reads' = {}
    /\ at' = "answered"
    /\ UNCHANGED <<keyword, ids>> /\ Quiet

Clear ==
    keyword' = {} /\ ids' = {} /\ reads' = {} /\ results' = {} /\ seen' = {} /\ at' = "idle"

\* The embedding, the vector search or a query outside the guarded parts rejects; so
\* does the lookup of chains, after the ranking.
Fails ==
    /\ at \in {"embed", "fetch", "window", "widen", "scores", "rerank"}
    /\ Clear
    /\ UNCHANGED <<row, writes, req>>

Reply ==
    /\ at = "answered"
    /\ Clear
    /\ UNCHANGED <<row, writes, req>>

-----------------------------------------------------------------------------
\* Other requests and workers.
Write(m, mark) ==
    /\ at # "idle" /\ writes < MaxWrites
    /\ row' = [row EXCEPT ![m] = mark]
    /\ writes' = writes + 1
    /\ seen' = IF mark = "live" THEN seen \cup {m} ELSE seen
    /\ UNCHANGED <<req, at, keyword, ids, reads, results>>

Delete(m) == row[m] # "deleted" /\ Write(m, "deleted")
MarkDuplicate(m) == row[m] \in {"live", "linked"} /\ Write(m, "duplicate")
\* A duplicate is embedded after all: the status changes, the link stays.
CompleteDuplicate(m) == row[m] = "duplicate" /\ Write(m, "linked")
\* The merge that hid a memory is rolled back, or a memory is first written.
Restore(m, mark) == row[m] = "deleted" /\ mark # "deleted" /\ Write(m, mark)

Search ==
    \/ \E found \in SUBSET Memory :
        VectorSearch(found) \/ KeywordSearch(found) \/ TemporalPass(found)
    \/ TakeTemporalPath \/ FullTextFails \/ Fetch \/ TemporalScores

Merge ==
    \/ \E m \in Memory : GraphRead(m) \/ Anticipate(m)
    \/ \E found \in SUBSET Memory : SurfaceInsights(found)
    \/ MergeGraph \/ AppendExtras
    \/ \E answers \in BOOLEAN : Rerank(answers)

Others ==
    \E m \in Memory :
        \/ Delete(m) \/ MarkDuplicate(m) \/ CompleteDuplicate(m)
        \/ \E mark \in Mark : Restore(m, mark)

Next ==
    \/ \E agent, insights, multi \in BOOLEAN : Start(agent, insights, multi)
    \/ Search \/ Merge \/ Fails \/ Reply \/ Others

Spec == Init /\ [][Next]_vars

-----------------------------------------------------------------------------
(* Properties                                                              *)

\* Every variable stays in its type.
TypeOK ==
    /\ row \in [Memory -> Mark]
    /\ writes \in 0..MaxWrites
    /\ seen \in SUBSET Memory
    /\ req \in Request
    /\ at \in Place
    /\ keyword \in SUBSET Memory
    /\ ids \in SUBSET Memory
    /\ reads \in SUBSET Entry
    /\ results \in SUBSET Entry

Answered == at = "answered"
Extras == {e \in results : e.src = "extra"}
Standard == results \ Extras

\* Whatever is returned, from whichever source, was live at some moment since the
\* request began: neither deleted nor a duplicate, by status or by link.
ReturnedWasLive ==
    Answered => \A e \in results : e.mark = "live" /\ e.id \in seen

\* No memory is returned twice by the standard search, and none comes again among
\* the anticipated ones.
NoTwice ==
    Answered => \A e, f \in results : e.id = f.id => e = f \/ {e, f} \subseteq Extras

\* The rescue of keyword hits does not make the list longer than asked for.
LimitKept ==
    Answered => Cardinality(Standard) <= Limit /\ Cardinality(Extras) <= MaxExtra

\* With a filter by agent every standard result of a single query is that agent's, the
\* graph's included; and what the search contributes, and for a single query the
\* insights too, is in the request's scope.
AnswerFits ==
    Answered => \A e \in Standard :
        /\ ByItsAgent(e.id)
        /\ (e.src = "search" \/ (e.src = "insight" /\ ~req.multi)) => e.id \in InScope

\* The cross-encoder cannot drop all exact hits: if the keyword searches found any that
\* the fetch kept, one of them is returned.
KeywordHitReturned ==
    (Answered /\ keyword # {}) => \E e \in Standard : e.id \in keyword
=============================================================================
