-------------------------- MODULE SolutionScheduler --------------------------
(***************************************************************************)
(* RunSolutionTasks of internal/compile/solution_scheduler.go: a fixed     *)
(* pool of goroutines takes the tasks of a solution build in the order of  *)
(* the slice, each one waiting on the channels of its task's barriers      *)
(* before it calls the callback.  A worker that waits keeps its task, so   *)
(* whether the pool can run dry depends on the order of the slice.         *)
(*                                                                         *)
(* Tasks are named by their position, which is what SolutionCoordinator.   *)
(* Drain builds them with (index = position), and the caller's graph is in *)
(* post-order, so a barrier is always at a smaller position.               *)
(***************************************************************************)
EXTENDS Integers, FiniteSets

CONSTANTS
    N,              \* len(tasks)
    Builders        \* the builders argument; anything below 1 means 4

ASSUME NAssumption == N \in Nat

ASSUME BuildersAssumption == Builders \in Int

VARIABLES
    predecessors,   \* tasks[p].predecessors
    waitOnly,       \* tasks[p].waitOnly
    next,           \* the next position to be claimed
    pc,             \* pc[w]: where worker w is
    position,       \* position[w]: the task worker w claimed last, 0 before
    executed,       \* the positions whose executed flag is set
    outcomes,       \* outcomes[p]: what the callback of p returned
    done,           \* the positions whose done channel is closed
    main            \* where the caller is

vars == <<predecessors, waitOnly, next, pc, position, executed, outcomes, done, main>>

input == <<predecessors, waitOnly>>

Positions == 1..N

EffectiveBuilders == IF Builders <= 0 THEN 4 ELSE Builders

Workers == 1..EffectiveBuilders

Outcome == {"ok", "err"}

Barriers(p) == predecessors[p] \cup waitOnly[p]

\* What Drain builds for each task: the positions of other tasks.
TaskEdges == [Positions -> SUBSET Positions]

\* Every barrier sits at a smaller position: the projects are in post-order
\* and a wait-only edge goes from a later project to an earlier one.
InitInput ==
    /\ predecessors \in TaskEdges
    /\ waitOnly \in TaskEdges
    /\ \A p \in Positions : \A b \in Barriers(p) : b < p

Init ==
    /\ InitInput
    /\ next = 1
    /\ pc = [w \in Workers |-> "claim"]
    /\ position = [w \in Workers |-> 0]
    /\ executed = {}
    /\ outcomes = [p \in Positions |-> "none"]
    /\ done = {}
    /\ main = "join"
------------------------------------------------------------------------------
\* Plausible mistakes in the code below; none of them is part of the model.

\* executed[position] is never set.
ClaimUnmarked(w) ==
    /\ pc[w] = "claim"
    /\ next <= N
    /\ next' = next + 1
    /\ position' = [position EXCEPT ![w] = next]
    /\ pc' = [pc EXCEPT ![w] = "await"]
    /\ UNCHANGED <<input, executed, outcomes, done, main>>

\* The loop over task.waitOnly is missing.
AwaitPredecessorsOnly(w) ==
    /\ pc[w] = "await"
    /\ predecessors[position[w]] \subseteq done
    /\ pc' = [pc EXCEPT ![w] = "run"]
    /\ UNCHANGED <<input, next, position, executed, outcomes, done, main>>

\* The channel is closed before the callback is called.
CloseBeforeRun(w) ==
    /\ pc[w] = "await"
    /\ Barriers(position[w]) \subseteq done
    /\ done' = done \cup {position[w]}
    /\ pc' = [pc EXCEPT ![w] = "run"]
    /\ UNCHANGED <<input, next, position, executed, outcomes, main>>

\* A failed task goes on to the next one without closing its channel.
CloseOnSuccess(w) ==
    /\ pc[w] = "close"
    /\ done' = IF outcomes[position[w]] = "ok" THEN done \cup {position[w]} ELSE done
    /\ pc' = [pc EXCEPT ![w] = "claim"]
    /\ UNCHANGED <<input, next, position, executed, outcomes, main>>
------------------------------------------------------------------------------
\* position := next.Add(1) - 1, in range.  The executed flag is read only
\* after every worker has left, so storing it is part of the claim.
ClaimTask(w) ==
    /\ pc[w] = "claim"
    /\ next <= N
    /\ next' = next + 1
    /\ position' = [position EXCEPT ![w] = next]
    /\ executed' = executed \cup {next}
    /\ pc' = [pc EXCEPT ![w] = "await"]
    /\ UNCHANGED <<input, outcomes, done, main>>

\* position := next.Add(1) - 1, past the end: the worker leaves.
ClaimNothing(w) ==
    /\ pc[w] = "claim"
    /\ next > N
    /\ next' = next + 1
    /\ pc' = [pc EXCEPT ![w] = "left"]
    /\ UNCHANGED <<input, position, executed, outcomes, done, main>>

\* The receives on the barriers' channels.  A closed channel stays closed, so
\* receiving from them one after the other is waiting until all are closed.
Await(w) ==
    /\ pc[w] = "await"
    /\ Barriers(position[w]) \subseteq done
    /\ pc' = [pc EXCEPT ![w] = "run"]
    /\ UNCHANGED <<input, next, position, executed, outcomes, done, main>>

\* The callback returns and its error is stored.
Run(w) ==
    /\ pc[w] = "run"
    /\ \E o \in Outcome : outcomes' = [outcomes EXCEPT ![position[w]] = o]
    /\ pc' = [pc EXCEPT ![w] = "close"]
    /\ UNCHANGED <<input, next, position, executed, done, main>>

Close(w) ==
    /\ pc[w] = "close"
    /\ done' = done \cup {position[w]}
    /\ pc' = [pc EXCEPT ![w] = "claim"]
    /\ UNCHANGED <<input, next, position, executed, outcomes, main>>

\* workers.Wait() returns.
Join ==
    /\ main = "join"
    /\ \A w \in Workers : pc[w] = "left"
    /\ main' = "sweep"
    /\ UNCHANGED <<input, next, pc, position, executed, outcomes, done>>

\* The channels of the tasks no worker took are closed, and the call returns.
Sweep ==
    /\ main = "sweep"
    /\ done' = done \cup (Positions \ executed)
    /\ main' = "returned"
    /\ UNCHANGED <<input, next, pc, position, executed, outcomes>>

Returned ==
    /\ main = "returned"
    /\ UNCHANGED vars

WorkerStep(w) == ClaimTask(w) \/ ClaimNothing(w) \/ Await(w) \/ Run(w) \/ Close(w)

Next == Join \/ Sweep \/ Returned \/ \E w \in Workers : WorkerStep(w)

SafeSpec == Init /\ [][Next]_vars

\* Goroutines are scheduled fairly, and a project build ends.
Fairness == WF_vars(Join) /\ WF_vars(Sweep) /\ \A w \in Workers : WF_vars(WorkerStep(w))

Spec == SafeSpec /\ Fairness
------------------------------------------------------------------------------
TypeOK ==
    /\ predecessors \in TaskEdges
    /\ waitOnly \in TaskEdges
    /\ next \in Nat \ {0}
    /\ pc \in [Workers -> {"claim", "await", "run", "close", "left"}]
    /\ position \in [Workers -> Nat]
    /\ executed \subseteq Positions
    /\ outcomes \in [Positions -> Outcome \cup {"none"}]
    /\ done \subseteq Positions
    /\ main \in {"join", "sweep", "returned"}

\* A worker holds the task it claimed until it has closed the task's channel.
Holds(w, p) == position[w] = p /\ pc[w] \in {"await", "run", "close"}

\* While a callback runs, the outcome of every barrier of its task is stored:
\* the callback of Drain reads outcomes[predecessor] with no lock.
BarriersSettled ==
    \A w \in Workers : pc[w] \in {"run", "close"} =>
        \A b \in Barriers(position[w]) : outcomes[b] \in Outcome

\* No channel is closed twice, which would panic: not by two workers, and not
\* by the sweep after a worker.
ClosesOnce ==
    /\ \A w \in Workers : pc[w] = "close" => position[w] \notin done
    /\ \A v, w \in Workers : pc[v] = "close" /\ pc[w] = "close" /\ position[v] = position[w] => v = w
    /\ main = "sweep" => (Positions \ executed) \cap done = {}

\* The pool never runs dry: until the call has returned, the caller can go on
\* or some worker is not blocked on a channel.
SomeoneCanStep ==
    \/ main \in {"sweep", "returned"}
    \/ \A w \in Workers : pc[w] = "left"
    \/ \E w \in Workers :
        \/ pc[w] \in {"claim", "run", "close"}
        \/ pc[w] = "await" /\ Barriers(position[w]) \subseteq done

Status(p) ==
    IF p \in done THEN outcomes[p]
    ELSE IF \E w \in Workers : position[w] = p /\ pc[w] \in {"run", "close"}
         THEN "running"
         ELSE "pending"

Promise == INSTANCE SolutionTasks WITH
    Tasks    <- Positions,
    barriers <- [p \in Positions |-> Barriers(p)],
    status   <- [p \in Positions |-> Status(p)],
    returned <- main = "returned"

\* The pool of workers implements what RunSolutionTasks promises: every
\* callback is called once, after those of all its barriers, and the call
\* returns: no interleaving of the workers leaves it waiting.
KeepsPromise == Promise!Spec
==============================================================================
