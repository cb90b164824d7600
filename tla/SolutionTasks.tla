---------------------------- MODULE SolutionTasks ----------------------------
(***************************************************************************)
(* What RunSolutionTasks (internal/compile/solution_scheduler.go) promises *)
(* its caller, with no workers in sight: every task's callback is called   *)
(* once, after the callbacks of all the task's barriers have returned, and *)
(* the call returns when every callback has.                               *)
(***************************************************************************)
CONSTANT Tasks          \* the indices of the tasks

VARIABLES
    barriers,           \* barriers[t]: the tasks t has to wait for
    status,             \* status[t]: how far the callback of t has come
    returned            \* whether the call has returned

vars == <<barriers, status, returned>>

Outcome == {"ok", "err"}

Finished(t) == status[t] \in Outcome

Init ==
    /\ barriers \in [Tasks -> SUBSET Tasks]
    /\ status = [t \in Tasks |-> "pending"]
    /\ returned = FALSE

\* The callback of t is called.
Start(t) ==
    /\ status[t] = "pending"
    /\ \A b \in barriers[t] : Finished(b)
    /\ status' = [status EXCEPT ![t] = "running"]
    /\ UNCHANGED <<barriers, returned>>

\* The callback of t has returned, with or without an error; an error stops
\* no other task.
Finish(t) ==
    /\ status[t] = "running"
    /\ \E o \in Outcome : status' = [status EXCEPT ![t] = o]
    /\ UNCHANGED <<barriers, returned>>

Return ==
    /\ ~returned
    /\ \A t \in Tasks : Finished(t)
    /\ returned' = TRUE
    /\ UNCHANGED <<barriers, status>>

Next == Return \/ \E t \in Tasks : Start(t) \/ Finish(t)

SafeSpec == Init /\ [][Next]_vars

Fairness == WF_vars(Return) /\ \A t \in Tasks : WF_vars(Start(t)) /\ WF_vars(Finish(t))

Spec == SafeSpec /\ Fairness
==============================================================================
