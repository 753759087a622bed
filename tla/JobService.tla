------------------------------ MODULE JobService ------------------------------
(***************************************************************************)
(* What a queue of jobs promises those who submit them, without lists,     *)
(* loops, timers or callbacks: a job runs in one of the slots, at most     *)
(* Tries times; it fails only when its tries are used up; what it came to  *)
(* is final; and once the service closes no job is started or put back.    *)
(* MemoryJobQueue is shown to implement this specification.                *)
(***************************************************************************)
EXTENDS Naturals

CONSTANTS Job, Slots, Tries

VARIABLES
    state,   \* where each job is
    busy,    \* slots taken
    tries,   \* how often it was started
    closed   \* the service takes up no job any more

vars == <<state, busy, tries, closed>>

Init ==
    /\ state = [j \in Job |-> "new"]
    /\ busy = 0
    /\ tries = [j \in Job |-> 0]
    /\ closed = FALSE

Submit(S) ==
    /\ \A j \in S : state[j] = "new"
    /\ state' = [j \in Job |-> IF j \in S THEN "waiting" ELSE state[j]]
    /\ UNCHANGED <<busy, tries, closed>>

Start(j) ==
    /\ ~closed /\ state[j] = "waiting"
    /\ busy < Slots /\ tries[j] < Tries
    /\ state' = [state EXCEPT ![j] = "running"]
    /\ busy' = busy + 1
    /\ tries' = [tries EXCEPT ![j] = @ + 1]
    /\ UNCHANGED closed

\* A running job comes to its end, or is put back for another try; a service that
\* has closed drops it instead.
Outcome(j, s) ==
    /\ state[j] = "running"
    /\ s = "waiting" => ~closed /\ tries[j] < Tries
    /\ s = "dropped" => closed
    /\ s = "failed"  => tries[j] = Tries
    /\ state' = [state EXCEPT ![j] = s]
    /\ busy' = busy - 1
    /\ UNCHANGED <<tries, closed>>

Close ==
    /\ closed' = TRUE
    /\ UNCHANGED <<state, busy, tries>>

Next ==
    \/ \E S \in SUBSET Job : Submit(S)
    \/ \E j \in Job :
          \/ Start(j)
          \/ \E s \in {"waiting", "dropped", "completed", "failed"} : Outcome(j, s)
    \/ Close

Spec == Init /\ [][Next]_vars
=============================================================================
