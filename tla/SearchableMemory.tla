-------------------------- MODULE SearchableMemory --------------------------
(***************************************************************************)
(* What the memory store promises its callers about search, without queue, *)
(* workers, sweeps or restarts: an accepted memory may be indexed; it is   *)
(* reported complete only once it is; it may be reopened by a failure; it  *)
(* is hidden only behind another memory that search can reach through the  *)
(* index.  An index entry is never lost and a deletion never undone.       *)
(* EmbeddingPipeline is shown to implement this specification.             *)
(***************************************************************************)
CONSTANTS Memory, NoMemory

VARIABLES
    state,    \* what the API reports of each memory
    indexed,  \* memories that have a vector
    behind,   \* the memory a hidden one was folded into
    deleted   \* memories their owner removed

vars == <<state, indexed, behind, deleted>>

Accepted(m) == state[m] # "absent"

Init ==
    /\ state = [m \in Memory |-> "absent"]
    /\ indexed = {}
    /\ behind = [m \in Memory |-> NoMemory]
    /\ deleted = {}

Accept(m) ==
    /\ ~Accepted(m)
    /\ state' = [state EXCEPT ![m] = "pending"]
    /\ UNCHANGED <<indexed, behind, deleted>>

Index(m) ==
    /\ Accepted(m)
    /\ indexed' = indexed \cup {m}
    /\ UNCHANGED <<state, behind, deleted>>

Complete(m) ==
    /\ Accepted(m) /\ m \in indexed
    /\ state' = [state EXCEPT ![m] = "complete"]
    /\ UNCHANGED <<indexed, behind, deleted>>

Reopen(m) ==
    /\ Accepted(m)
    /\ state' = [state EXCEPT ![m] = "pending"]
    /\ UNCHANGED <<indexed, behind, deleted>>

Hide(m, n) ==
    /\ Accepted(m)
    /\ n \in indexed \ {m}
    /\ state' = [state EXCEPT ![m] = "hidden"]
    /\ behind' = [behind EXCEPT ![m] = n]
    /\ UNCHANGED <<indexed, deleted>>

Remove(m) ==
    /\ Accepted(m)
    /\ deleted' = deleted \cup {m}
    /\ UNCHANGED <<state, indexed, behind>>

Next ==
    \E m \in Memory :
        \/ Accept(m) \/ Index(m) \/ Complete(m) \/ Reopen(m) \/ Remove(m)
        \/ \E n \in Memory : Hide(m, n)

Spec == Init /\ [][Next]_vars
=============================================================================
