----------------------- MODULE SolutionSchedulerProofs -----------------------
(***************************************************************************)
(* The scheduler of solution builds, for any number of tasks, any barriers *)
(* at smaller positions and any pool size.                                 *)
(***************************************************************************)
EXTENDS SolutionScheduler, WellFoundedInduction, TLAPS

Holding == {"await", "run", "close"}

\* Barriers come from smaller positions.
Ordered == \A p \in Positions : \A b \in Barriers(p) : b < p

\* A held task was claimed and its channel is open.
HeldIsOpen ==
    \A w \in Workers : pc[w] \in Holding =>
        /\ position[w] \in Positions
        /\ position[w] < next
        /\ position[w] \notin done

\* No task is held twice.
Exclusive ==
    \A v, w \in Workers :
        pc[v] \in Holding /\ pc[w] \in Holding /\ position[v] = position[w] => v = w

\* A claimed task is held until its channel is closed.
Accounted ==
    \A p \in Positions : p < next => p \in done \/ \E w \in Workers : Holds(w, p)

\* What has been claimed is what is marked, and nothing else is closed.
Marked ==
    /\ \A p \in Positions : p \in executed <=> p < next
    /\ done \subseteq executed

\* A stored outcome precedes the close.
Stored ==
    /\ \A p \in done : outcomes[p] \in Outcome
    /\ \A w \in Workers : pc[w] = "close" => outcomes[position[w]] \in Outcome

\* A running callback's barriers are closed.
RunsAfterBarriers ==
    \A w \in Workers : pc[w] \in {"run", "close"} => Barriers(position[w]) \subseteq done

\* A worker leaves, and the caller goes on, only when nothing is left to claim.
LeavesAtTheEnd ==
    /\ \A w \in Workers : pc[w] = "left" => next > N
    /\ main # "join" => \A w \in Workers : pc[w] = "left"

IInv ==
    /\ TypeOK
    /\ Ordered
    /\ HeldIsOpen
    /\ Exclusive
    /\ Accounted
    /\ Marked
    /\ Stored
    /\ RunsAfterBarriers
    /\ LeavesAtTheEnd

\* A nonempty set of naturals has a least element.
LEMMA LeastNatural ==
    ASSUME NEW T, T \subseteq Nat, T # {}
    PROVE  \E x \in T : \A y \in T : x <= y
<1> DEFINE LT == {ss \in Nat \X Nat : ss[1] < ss[2]}
<1>1. IsWellFoundedOn(LT, Nat)
    BY NatLessThanWellFounded DEF OpToRel
<1>2. \A x, y \in Nat : y < x => <<y, x>> \in LT
    OBVIOUS
<1> HIDE DEF LT
<1>3. \E x \in T : \A y \in T : ~(<<y, x>> \in LT)
    BY <1>1, WFMin, ZenonT(60)
<1>4. \A x, y \in Nat : ~(y < x) => x <= y
    OBVIOUS
<1> QED
    BY <1>2, <1>3, <1>4, ZenonT(60)

\* There is at least one worker.
LEMMA WorkersNonempty == EffectiveBuilders \in Nat /\ 1 \in Workers /\ Workers \subseteq Nat
    BY BuildersAssumption DEF EffectiveBuilders, Workers

\* The initial states satisfy the invariant.
LEMMA InitInv == Init => IInv
<1> SUFFICES ASSUME Init PROVE IInv
    OBVIOUS
<1> USE DEF Init, InitInput, Positions
<1>1. TypeOK
    BY DEF TypeOK, Outcome
<1>2. Ordered
    BY DEF Ordered
<1>3. HeldIsOpen /\ Exclusive /\ Stored /\ RunsAfterBarriers /\ LeavesAtTheEnd
    BY DEF HeldIsOpen, Exclusive, Stored, RunsAfterBarriers, LeavesAtTheEnd, Holding
<1>4. Accounted /\ Marked
    BY NAssumption, SMTT(60) DEF Accounted, Marked
<1> QED
    BY <1>1, <1>2, <1>3, <1>4 DEF IInv

\* Every step of a worker and of the caller preserves it.
LEMMA NextInv == IInv /\ [Next]_vars => IInv'
<1> SUFFICES ASSUME IInv, [Next]_vars PROVE IInv'
    OBVIOUS
<1> USE NAssumption
<1> USE DEF IInv, TypeOK, TaskEdges, Positions, Outcome
<1>1. ASSUME NEW w \in Workers, ClaimTask(w) PROVE IInv'
    <2> USE <1>1 DEF ClaimTask, input
    <2>1. TypeOK'
        OBVIOUS
    <2>2. Ordered' /\ Stored'
        BY DEF Ordered, Stored, Barriers
    <2>3. HeldIsOpen'
        BY DEF HeldIsOpen, Holding, Marked
    <2>4. Exclusive'
        BY DEF Exclusive, HeldIsOpen, Holding
    <2>5. Accounted'
        BY SMTT(60) DEF Accounted, Holds
    <2>6. Marked'
        BY DEF Marked
    <2>7. RunsAfterBarriers' /\ LeavesAtTheEnd'
        BY DEF RunsAfterBarriers, LeavesAtTheEnd, Barriers
    <2> QED
        BY <2>1, <2>2, <2>3, <2>4, <2>5, <2>6, <2>7
<1>2. ASSUME NEW w \in Workers, ClaimNothing(w) PROVE IInv'
    <2> USE <1>2 DEF ClaimNothing, input
    <2>1. TypeOK' /\ Ordered' /\ Stored' /\ HeldIsOpen' /\ Exclusive'
        BY DEF Ordered, Stored, Barriers, HeldIsOpen, Exclusive, Holding
    <2>2. \A p \in Positions : p < next /\ p < next'
        OBVIOUS
    <2>3. Accounted'
        BY <2>2, ZenonT(60) DEF Accounted, Holds
    <2>4. Marked'
        BY <2>2 DEF Marked
    <2>5. RunsAfterBarriers' /\ LeavesAtTheEnd'
        BY DEF RunsAfterBarriers, LeavesAtTheEnd, Barriers
    <2> QED
        BY <2>1, <2>3, <2>4, <2>5
<1>3. ASSUME NEW w \in Workers, Await(w) PROVE IInv'
    <2> USE <1>3 DEF Await, input
    <2>1. TypeOK' /\ Ordered' /\ Stored' /\ HeldIsOpen' /\ Exclusive'
        BY DEF Ordered, Stored, Barriers, HeldIsOpen, Exclusive, Holding
    <2>2. Accounted' /\ Marked'
        BY DEF Accounted, Marked, Holds
    <2>3. RunsAfterBarriers' /\ LeavesAtTheEnd'
        BY DEF RunsAfterBarriers, LeavesAtTheEnd, Barriers
    <2> QED
        BY <2>1, <2>2, <2>3
<1>4. ASSUME NEW w \in Workers, Run(w) PROVE IInv'
    <2> USE <1>4 DEF Run, input
    <2>0. position[w] \in Positions
        BY DEF HeldIsOpen, Holding
    <2>1. TypeOK' /\ Ordered' /\ HeldIsOpen' /\ Exclusive'
        BY DEF Ordered, Barriers, HeldIsOpen, Exclusive, Holding
    <2>2. Accounted' /\ Marked'
        BY DEF Accounted, Marked, Holds
    <2>3. Stored'
        BY <2>0 DEF Stored, HeldIsOpen, Exclusive, Holding
    <2>4. RunsAfterBarriers' /\ LeavesAtTheEnd'
        BY DEF RunsAfterBarriers, LeavesAtTheEnd, Barriers
    <2> QED
        BY <2>1, <2>2, <2>3, <2>4
<1>5. ASSUME NEW w \in Workers, Close(w) PROVE IInv'
    <2> USE <1>5 DEF Close, input
    <2>0. position[w] \in Positions
        BY DEF HeldIsOpen, Holding
    <2>1. TypeOK' /\ Ordered' /\ Stored'
        BY <2>0, ZenonT(60) DEF Ordered, Barriers, Stored
    <2>2. HeldIsOpen' /\ Exclusive'
        BY DEF HeldIsOpen, Exclusive, Holding
    <2>3. Accounted'
        BY DEF Accounted, Holds
    <2>4. Marked'
        BY <2>0, ZenonT(60) DEF Marked, HeldIsOpen, Holding
    <2>5. RunsAfterBarriers' /\ LeavesAtTheEnd'
        BY DEF RunsAfterBarriers, LeavesAtTheEnd, Barriers
    <2> QED
        BY <2>1, <2>2, <2>3, <2>4, <2>5
<1>6. CASE Join
    BY <1>6 DEF Join, input, Ordered, Barriers, HeldIsOpen, Exclusive, Accounted, Holds,
        Marked, Stored, RunsAfterBarriers, LeavesAtTheEnd
<1>7. CASE Sweep
    <2> USE <1>7 DEF Sweep, input
    <2>1. \A w \in Workers : pc[w] = "left"
        BY DEF LeavesAtTheEnd
    <2>2. next > N
        BY <2>1, WorkersNonempty DEF LeavesAtTheEnd
    <2>3. executed = Positions
        <3>1. \A p \in Positions : p < next
            BY <2>2
        <3> QED
            BY <3>1, ZenonT(60) DEF Marked
    <2>4. done' = done
        BY <2>3
    <2> QED
        BY <2>4, ZenonT(60) DEF Ordered, Barriers, HeldIsOpen, Exclusive, Accounted, Holds,
            Marked, Stored, RunsAfterBarriers, LeavesAtTheEnd
<1>8. CASE UNCHANGED vars
    BY <1>8 DEF vars, Ordered, Barriers, HeldIsOpen, Exclusive, Accounted, Holds,
        Marked, Stored, RunsAfterBarriers, LeavesAtTheEnd
<1> QED
    BY <1>1, <1>2, <1>3, <1>4, <1>5, <1>6, <1>7, <1>8, ZenonT(60) DEF Next, WorkerStep, Returned

\* The invariant holds in every reachable state.
LEMMA Invariance == SafeSpec => []IInv
    BY InitInv, NextInv, PTL DEF SafeSpec

\* RunSolutionTasks keeps its variables in range for any number of tasks and
\* any pool size.
THEOREM TypeCorrect == SafeSpec => []TypeOK
<1>1. IInv => TypeOK
    BY DEF IInv
<1> QED
    BY <1>1, Invariance, PTL

\* A callback that runs can read the outcomes of all its barriers.
THEOREM BarriersAreSettled == SafeSpec => []BarriersSettled
<1>1. IInv => BarriersSettled
    BY DEF IInv, BarriersSettled, RunsAfterBarriers, Stored
<1> QED
    BY <1>1, Invariance, PTL

\* No done channel is closed twice.
THEOREM ChannelsCloseOnce == SafeSpec => []ClosesOnce
<1> SUFFICES ASSUME IInv PROVE ClosesOnce
    BY Invariance, PTL
<1> USE DEF IInv
<1>1. \A w \in Workers : pc[w] = "close" => position[w] \notin done
    BY DEF HeldIsOpen, Holding
<1>2. \A v, w \in Workers : pc[v] = "close" /\ pc[w] = "close" /\ position[v] = position[w] => v = w
    BY DEF Exclusive, Holding
<1>3. main = "sweep" => (Positions \ executed) \cap done = {}
    BY DEF Marked
<1> QED
    BY <1>1, <1>2, <1>3 DEF ClosesOnce

\* The worker that holds the task at the least position of all held tasks is
\* not blocked, because everything before that position is closed.
LEMMA LeastHeldCanStep == IInv => SomeoneCanStep
<1> SUFFICES ASSUME IInv PROVE SomeoneCanStep
    OBVIOUS
<1> USE DEF IInv
<1> DEFINE Held == {p \in Positions : \E w \in Workers : Holds(w, p)}
<1>1. CASE Held = {}
    <2>1. \A w \in Workers : pc[w] \notin Holding
        BY <1>1 DEF HeldIsOpen, Holds, Holding
    <2> QED
        BY <2>1 DEF SomeoneCanStep, Holding, TypeOK
<1>2. CASE Held # {}
    <2>1. PICK p \in Held : \A q \in Held : p <= q
        <3>1. Held \subseteq Nat
            BY DEF Positions
        <3> HIDE DEF Held
        <3> QED
            BY <1>2, <3>1, LeastNatural, ZenonT(60)
    <2>2. PICK w \in Workers : Holds(w, p)
        OBVIOUS
    <2>3. p \in Positions /\ p < next
        BY <2>2 DEF HeldIsOpen, Holds, Holding
    <2>4. ASSUME NEW b \in Barriers(p) PROVE b \in done
        <3>1. b \in Positions /\ b < p
            BY <2>3 DEF Ordered, Barriers, TypeOK, TaskEdges
        <3>2. b \notin Held
            BY <2>1, <3>1, <2>3, NAssumption DEF Positions
        <3>3. b < next
            BY <2>3, <3>1, NAssumption DEF TypeOK, Positions
        <3> QED
            BY <3>1, <3>2, <3>3 DEF Accounted
    <2>5. Barriers(position[w]) \subseteq done
        BY <2>2, <2>4 DEF Holds
    <2> QED
        BY <2>2, <2>5 DEF SomeoneCanStep, Holds
<1> QED
    BY <1>1, <1>2

\* The pool of workers never runs dry, whatever its size: until the call has
\* returned, some goroutine of RunSolutionTasks is not blocked on a channel.
THEOREM PoolNeverRunsDry == SafeSpec => []SomeoneCanStep
    BY LeastHeldCanStep, Invariance, PTL

\* A step that leaves the status of every task alone, and is not the return,
\* is invisible to the caller.
LEMMA InvisibleStep ==
    ASSUME UNCHANGED input,
           \A p \in Positions : Status(p)' = Status(p),
           (main' = "returned") <=> (main = "returned")
    PROVE  UNCHANGED Promise!vars
<1>1. [p \in Positions |-> Status(p)]' = [p \in Positions |-> Status(p)]
    OBVIOUS
<1>2. [p \in Positions |-> Barriers(p)]' = [p \in Positions |-> Barriers(p)]
    BY DEF Barriers, input
<1> QED
    BY <1>1, <1>2 DEF Promise!vars

\* Every step of the pool is a step of the promise or invisible.
LEMMA StepKeepsPromise == IInv /\ [Next]_vars => [Promise!Next]_(Promise!vars)
<1> SUFFICES ASSUME IInv, [Next]_vars PROVE Promise!Next \/ UNCHANGED Promise!vars
    OBVIOUS
<1> DEFINE B == [p \in Positions |-> Barriers(p)]
           S == [p \in Positions |-> Status(p)]
<1> USE DEF IInv
<1>0. \A p \in Positions : Barriers(p) \subseteq Positions
    BY DEF TypeOK, TaskEdges, Barriers
<1>1. ASSUME NEW w \in Workers, ClaimTask(w) \/ ClaimNothing(w) PROVE UNCHANGED Promise!vars
    <2>1. UNCHANGED <<input, done, outcomes, main>> /\ pc[w] = "claim" /\ pc'[w] \in {"await", "left"}
          /\ \A v \in Workers : v # w => pc'[v] = pc[v] /\ position'[v] = position[v]
        BY <1>1 DEF ClaimTask, ClaimNothing, TypeOK
    <2>2. \A p \in Positions : Status(p)' = Status(p)
        BY <2>1 DEF Status
    <2> QED
        BY <2>1, <2>2, InvisibleStep
<1>2. ASSUME NEW w \in Workers, Await(w) PROVE Promise!Start(position[w])
    <2>1. PICK p \in Positions : p = position[w] /\ p \notin done
        BY <1>2 DEF Await, HeldIsOpen, Holding
    <2>2. S[p] = "pending"
        <3>1. \A v \in Workers : position[v] = p => pc[v] \notin {"run", "close"}
            BY <1>2, <2>1 DEF Await, Exclusive, Holding
        <3> QED
            BY <2>1, <3>1 DEF Status
    <2>3. \A b \in B[p] : S[b] \in Outcome
        BY <2>1, <1>0, <1>2 DEF Await, Status, Stored
    <2>4. S' = [S EXCEPT ![p] = "running"]
        <3>1. Status(p)' = "running"
            BY <1>2, <2>1 DEF Await, Status, TypeOK
        <3>2. \A q \in Positions : q # p => Status(q)' = Status(q)
            BY <1>2, <2>1 DEF Await, Status, TypeOK
        <3> QED
            BY <2>1, <3>1, <3>2, ZenonT(60)
    <2>5. B' = B /\ UNCHANGED main
        BY <1>2 DEF Await, input, Barriers
    <2> QED
        BY <2>1, <2>2, <2>3, <2>4, <2>5
        DEF Promise!Start, Promise!Finished, Promise!Outcome, Outcome
<1>3. ASSUME NEW w \in Workers, Run(w) PROVE UNCHANGED Promise!vars
    <2>1. position[w] \in Positions /\ position[w] \notin done
        BY <1>3 DEF Run, HeldIsOpen, Holding
    <2>2. \A p \in Positions : Status(p)' = Status(p)
        BY <1>3, <2>1 DEF Run, Status, TypeOK
    <2> QED
        BY <1>3, <2>2, InvisibleStep DEF Run
<1>4. ASSUME NEW w \in Workers, Close(w) PROVE Promise!Finish(position[w])
    <2>1. PICK p \in Positions : p = position[w] /\ p \notin done
        BY <1>4 DEF Close, HeldIsOpen, Holding
    <2>2. S[p] = "running"
        BY <1>4, <2>1 DEF Close, Status
    <2>3. outcomes[p] \in Outcome
        BY <1>4, <2>1 DEF Close, Stored
    <2>4. S' = [S EXCEPT ![p] = outcomes[p]]
        <3>1. Status(p)' = outcomes[p]
            BY <1>4, <2>1 DEF Close, Status
        <3>2. \A q \in Positions : q # p => Status(q)' = Status(q)
            BY <1>4, <2>1 DEF Close, Status, TypeOK
        <3> QED
            BY <2>1, <3>1, <3>2, ZenonT(60)
    <2>5. B' = B /\ UNCHANGED main
        BY <1>4 DEF Close, input, Barriers
    <2> QED
        BY ZenonT(60), <2>1, <2>2, <2>3, <2>4, <2>5
        DEF Promise!Finish, Promise!Outcome, Outcome
<1>5. CASE Join
    BY <1>5, InvisibleStep DEF Join, Status
<1>6. CASE Sweep
    <2>1. \A p \in Positions : p < next
        BY <1>6, WorkersNonempty, NAssumption DEF Sweep, LeavesAtTheEnd, TypeOK, Positions
    <2>2. \A p \in Positions : p \in done
        BY <1>6, <2>1 DEF Sweep, LeavesAtTheEnd, Accounted, Holds
    <2>3. done' = done
        BY <1>6, <2>2 DEF Sweep, TypeOK
    <2>4. S' = S /\ B' = B
        BY <1>6, <2>3 DEF Sweep, Status, Barriers, input
    <2>5. \A p \in Positions : S[p] \in Outcome
        BY <2>2 DEF Status, Stored
    <2>6. Promise!Return
        BY <1>6, <2>4, <2>5
        DEF Sweep, Promise!Return, Promise!Finished, Promise!Outcome, Outcome
    <2> QED
        BY <2>6 DEF Promise!Next
<1>7. CASE UNCHANGED vars
    BY <1>7, InvisibleStep DEF vars, input, Status
<1>8. \A w \in Workers : pc[w] \in Holding => position[w] \in Positions
    BY DEF HeldIsOpen
<1> QED
    BY <1>1, <1>2, <1>3, <1>4, <1>5, <1>6, <1>7, <1>8
    DEF Next, WorkerStep, Returned, Promise!Next, Await, Close, Holding

\* RunSolutionTasks implements its promise: each callback is called once and
\* after the callbacks of all its barriers, and the call returns only when all
\* of them have returned.
THEOREM SchedulerKeepsPromise == SafeSpec => Promise!SafeSpec
<1>1. Init => Promise!Init
    <2> SUFFICES ASSUME Init PROVE Promise!Init
        OBVIOUS
    <2>1. \A p \in Positions : Status(p) = "pending"
        BY DEF Init, Status
    <2>2. \A p \in Positions : Barriers(p) \in SUBSET Positions
        BY DEF Init, InitInput, TaskEdges, Barriers
    <2> QED
        BY <2>1, <2>2 DEF Promise!Init, Init
<1> QED
    BY <1>1, StepKeepsPromise, Invariance, PTL DEF SafeSpec, Promise!SafeSpec
------------------------------------------------------------------------------
\* A worker's way from one claim to the next, and to its end.
Stage(c) == CASE c = "await" -> 1 [] c = "run" -> 2 [] c = "close" -> 3 [] c = "claim" -> 4 [] c = "left" -> 5

\* A task is claimed; or a channel is closed; or one worker goes on and the others
\* stay where they are; or the caller does, once all workers have left.
Nearer ==
    \/ executed \subseteq executed' /\ executed' # executed
    \/ executed' = executed /\ done \subseteq done' /\ done' # done
    \/ /\ executed' = executed /\ done' = done
       /\ \E w \in Workers : Stage(pc'[w]) > Stage(pc[w]) /\ \A v \in Workers \ {w} : pc'[v] = pc[v]
    \/ /\ executed' = executed /\ done' = done /\ pc' = pc
       /\ <<main, main'>> \in {<<"join", "sweep">>, <<"sweep", "returned">>}

\* Every step of RunSolutionTasks comes nearer to its return, whichever worker
\* takes it: no task is claimed twice, no channel closed again, and between the
\* two a worker only goes forward.  With finitely many tasks and workers there are
\* finitely many steps, and by PoolNeverRunsDry they do not end before the return.
THEOREM PoolAdvances == SafeSpec => [][Nearer]_vars
<1>1. /\ Stage("run") > Stage("await") /\ Stage("close") > Stage("run") /\ Stage("left") > Stage("claim")
    BY DEF Stage
<1>2. ASSUME IInv, NEW w \in Workers, ClaimTask(w) PROVE Nearer
    <2>1. next \in Positions /\ ~(next < next)
        BY <1>2, NAssumption DEF ClaimTask, IInv, TypeOK, Positions
    <2>2. next \notin executed /\ executed' = executed \cup {next}
        BY <1>2, <2>1, ZenonT(60) DEF ClaimTask, IInv, Marked
    <2> QED
        BY <2>2, ZenonT(60) DEF Nearer
<1>3. ASSUME IInv, NEW w \in Workers, Close(w) PROVE Nearer
    <2>1. position[w] \notin done /\ done' = done \cup {position[w]} /\ executed' = executed
        BY <1>3, ZenonT(60) DEF Close, IInv, HeldIsOpen, Holding
    <2> QED
        BY <2>1, ZenonT(60) DEF Nearer
<1>4. ASSUME IInv, NEW w \in Workers, ClaimNothing(w) \/ Await(w) \/ Run(w) PROVE Nearer
    <2>1. executed' = executed /\ done' = done
        BY <1>4, ZenonT(60) DEF ClaimNothing, Await, Run
    <2>2. \A v \in Workers \ {w} : pc'[v] = pc[v]
        BY <1>4, ZenonT(60) DEF ClaimNothing, Await, Run, IInv, TypeOK
    <2>3. \/ pc[w] = "claim" /\ pc'[w] = "left"
          \/ pc[w] = "await" /\ pc'[w] = "run"
          \/ pc[w] = "run" /\ pc'[w] = "close"
        BY <1>4, ZenonT(60) DEF ClaimNothing, Await, Run, IInv, TypeOK
    <2>4. Stage(pc'[w]) > Stage(pc[w])
        BY <1>1, <2>3, ZenonT(60)
    <2> QED
        BY <2>1, <2>2, <2>4, ZenonT(60) DEF Nearer
<1>5. ASSUME Join PROVE Nearer
    <2>1. executed' = executed /\ pc' = pc /\ main = "join" /\ main' = "sweep" /\ done' = done
        BY <1>5, ZenonT(60) DEF Join
    <2> QED
        BY <2>1, ZenonT(60) DEF Nearer
<1>6. ASSUME IInv, Sweep PROVE Nearer
    <2>1. executed' = executed /\ pc' = pc /\ main = "sweep" /\ main' = "returned" /\ done \subseteq done'
        BY <1>6, ZenonT(60) DEF Sweep
    <2> QED
        BY <2>1, ZenonT(60) DEF Nearer
<1>7. IInv /\ [Next]_vars => [Nearer]_vars
    BY <1>2, <1>3, <1>4, <1>5, <1>6, ZenonT(60) DEF Next, WorkerStep, Returned
<1> QED
    BY <1>7, Invariance, PTL DEF SafeSpec
==============================================================================
