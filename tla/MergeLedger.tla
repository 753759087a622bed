----------------------------- MODULE MergeLedger -----------------------------
(***************************************************************************)
(* What merging promises the owner of the memories, without requests,      *)
(* candidates, batches or the order of calls: an entry of the ledger comes *)
(* first and never changes but for its cancellation; memories are hidden   *)
(* all at once and exactly as an entry says; they come back one by one     *)
(* with the text an entry kept; and a survivor is rewritten only with the  *)
(* text of an entry, or taken back where an entry says it was rewritten.   *)
(* MemoryMerge is shown to implement this specification.                   *)
(***************************************************************************)
CONSTANTS Memory, Event, Text, None, NoText

VARIABLES
    entry,  \* the ledger
    into,   \* the memory that stands for each memory, None for itself
    text    \* what each memory says

vars == <<entry, into, text>>

Entry == [state: {"done"}, survivor: Memory, originals: [Memory -> Text \cup {NoText}],
          merged: Text, changed: BOOLEAN]

Entered(e) == entry[e].state # "none"
Absorbed(e) == {m \in Memory : entry[e].originals[m] # NoText}

Init ==
    /\ \A e \in Event : ~Entered(e)
    /\ into = [m \in Memory |-> None]
    /\ text \in [Memory -> Text]

\* An entry says who survives, what the others said, and is of two memories or more.
Enter(e) ==
    /\ ~Entered(e)
    /\ \E x \in Entry :
          /\ x.originals[x.survivor] = NoText
          /\ \E m \in Memory : x.originals[m] # NoText
          /\ entry' = [entry EXCEPT ![e] = x]
    /\ UNCHANGED <<into, text>>

Hide(e) ==
    /\ Entered(e)
    /\ into' = [m \in Memory |-> IF m \in Absorbed(e) THEN entry[e].survivor ELSE into[m]]
    /\ UNCHANGED <<entry, text>>

Rewrite(e) ==
    /\ Entered(e)
    /\ text' = [text EXCEPT ![entry[e].survivor] = entry[e].merged]
    /\ UNCHANGED <<entry, into>>

Return(e, m) ==
    /\ Entered(e) /\ m \in Absorbed(e)
    /\ into' = [into EXCEPT ![m] = None]
    /\ text' = [text EXCEPT ![m] = entry[e].originals[m]]
    /\ UNCHANGED entry

\* Which text comes back is left open.
TakeBack(e) ==
    /\ Entered(e) /\ entry[e].changed
    /\ \E t \in Text : text' = [text EXCEPT ![entry[e].survivor] = t]
    /\ UNCHANGED <<entry, into>>

Cancel(e) ==
    /\ Entered(e)
    /\ entry' = [entry EXCEPT ![e].state = "undone"]
    /\ UNCHANGED <<into, text>>

Next ==
    \E e \in Event :
        \/ Enter(e) \/ Hide(e) \/ Rewrite(e) \/ TakeBack(e) \/ Cancel(e)
        \/ \E m \in Memory : Return(e, m)

Spec == Init /\ [][Next]_vars
=============================================================================
