---------------------- MODULE SolutionCoordinatorProofs ----------------------
(***************************************************************************)
(* Proofs about SolutionCoordinator, for any projects, references, texts,  *)
(* compiler and faults: builds read outputs that stand still, projects     *)
(* that write to the same places are built one after the other, what       *)
(* counts as up to date is closed under references, and its output is the  *)
(* one its inputs compile to, unless a history variable excuses it; what   *)
(* is not up to date has an error to show, and no drain gets stuck.        *)
(*                                                                         *)
(* EventuallySettled is only model-checked; ErrorsAloneHoldUp,             *)
(* DrainNeverStuck and DrainAdvances are what it rests on.                 *)
(***************************************************************************)
EXTENDS SolutionCoordinator, FiniteSetTheorems, TLAPS

TaskStates == {"none", "todo", "building", "built", "failed", "blocked", "skipped"}

\* Types.  TypeOK says nothing of the contents of outputs and manifests.
Types ==
    /\ source \in [Projects -> UNION {Texts(p) : p \in Projects}]
    /\ refs \in [Projects -> (UNION {RefSets(p) : p \in Projects}) \cup {Broken}]
    /\ graph \in [Projects -> UNION {RefSets(p) : p \in Projects}]
    /\ DOMAIN output = Projects
    /\ DOMAIN loaded = Projects
    /\ TypeOK

\* The callbacks.  A settled callback stays settled, so that what a build has
\* found of its barriers and read of its references holds while it runs.
CallbackInv ==
    \A p \in Projects :
        /\ phase = "drain" => task[p] # "none"
        /\ task[p] = "skipped" => upToDate[p]
        /\ task[p] = "building" =>
            /\ \A q \in Barriers(p) : Settled(q)
            /\ loaded[p].input.deps = [d \in graph[p] |-> output[d]]
        /\ task[p] \in {"building", "built"} =>
            \A d \in graph[p] : task[d] \in {"built", "skipped", "none"}

\* A project outside configs and lost has the references that were loaded, and
\* what counts as up to date is closed under references at all times.
GraphInv ==
    /\ phase = "off" => \A p \in Projects : ~upToDate[p]
    /\ phase # "off" => \A p \in Projects \ (configs \cup lost) : refs[p] = graph[p]
    /\ \A p \in Projects \ lost : upToDate[p] => \A d \in graph[p] : upToDate[d]

Inv == Types /\ CallbackInv /\ GraphInv

\* The deferred persists are a sequence of persists of projects.
PersistsType ==
    /\ persists \in Seq(ElementsOf(persists))
    /\ \A i \in DOMAIN persists : persists[i].project \in Projects
-------------------------------------------------------------------------------
\* References are earlier projects.
LEMMA ReferencesAreEarlier ==
    ASSUME NEW g, NEW p \in Projects, g[p] \in RefSets(p), NEW d \in g[p]
    PROVE  d \in Projects /\ d # p
<1>1. d \in Projects /\ Position[d] < Position[p]
  BY RefSetsAssumption
<1> QED
  BY <1>1, PositionAssumption

\* Dependents is closed: what references a dependent, or p itself, depends on p.
LEMMA DependentsClosed ==
    ASSUME NEW g, NEW p \in Projects, NEW q \in Projects, q # p,
           NEW d \in g[q], d = p \/ d \in Dependents(g, p)
    PROVE  q \in Dependents(g, p)
<1> SUFFICES ASSUME NEW S \in SUBSET Projects, p \in S,
                    \A r \in Projects : g[r] \cap S # {} => r \in S
             PROVE  q \in S
  BY DEF Dependents
<1>1. d \in S
  BY DEF Dependents
<1> QED
  BY <1>1
\* A nonempty set of naturals has a least element.
LEMMA LeastNatural ==
    ASSUME NEW T, T \subseteq Nat, T # {}
    PROVE  \E x \in T : \A y \in T : x <= y
<1> DEFINE LT == {ss \in Nat \X Nat : ss[1] < ss[2]}
<1>1. IsWellFoundedOn(LT, Nat)
  BY NatLessThanWellFounded DEF OpToRel
<1>2. \A x, y \in Nat : y < x => <<y, x>> \in LT
  OBVIOUS
<1> HIDE DEF LT
<1>3. \E x \in T : \A y \in T : ~(<<y, x>> \in LT)
  BY <1>1, WFMin, ZenonT(60)
<1>4. \A x, y \in Nat : ~(y < x) => x <= y
  OBVIOUS
<1> QED
  BY <1>2, <1>3, <1>4, ZenonT(60)
-------------------------------------------------------------------------------
USE DEF TaskStates

LEMMA InvInit == Init => Inv
<1> SUFFICES ASSUME Init PROVE Inv
  OBVIOUS
<1> USE DEF Init
<1>1. Types
  <2>1. \A p \in Projects : RefSets(p) \subseteq UNION {RefSets(q) : q \in Projects}
    OBVIOUS
  <2>2. TypeOK
    BY DEF TypeOK, All
  <2> QED
    BY <2>1, <2>2 DEF Types, All
<1>2. CallbackInv
  BY DEF CallbackInv, All
<1>3. GraphInv
  BY DEF GraphInv, All
<1> QED
  BY <1>1, <1>2, <1>3 DEF Inv

\* The user's steps.
LEMMA EditInv ==
    ASSUME Inv, NEW p \in Projects, Edit(p) \/ EditConfig(p)
    PROVE  Inv'
<1> USE DEF states, history
<1>1. CASE Edit(p)
  <2> USE <1>1 DEF Edit
  <2>1. PICK t \in Texts(p) : source' = [source EXCEPT ![p] = t]
    BY ZenonT(60)
  <2>2. source' \in [Projects -> UNION {Texts(q) : q \in Projects}]
    <3>1. t \in UNION {Texts(q) : q \in Projects}
      OBVIOUS
    <3> QED
      BY <2>1, <3>1 DEF Inv, Types
  <2>5. Types'
    BY <2>1, <2>2, SMTT(60) DEF Inv, Types, TypeOK, All
  <2>3. CallbackInv'
    BY DEF Inv, CallbackInv, Barriers, Settled
  <2>4. GraphInv'
    BY DEF Inv, GraphInv
  <2> QED
    BY <2>3, <2>4, <2>5 DEF Inv
<1>2. CASE EditConfig(p)
  <2>1. PICK R \in RefSets(p) \cup {Broken} : refs' = [refs EXCEPT ![p] = R]
    BY <1>2, ZenonT(60) DEF EditConfig, Inv, Types, TypeOK
  <2>2. /\ UNCHANGED <<source, output, phase, graph, upToDate, force, projects, task, loaded>>
        /\ UNCHANGED <<unsaved, behind, overtaken, exposed, lost>>
        /\ configs' \in SUBSET Projects
        /\ phase # "off" => configs' = configs \cup {p}
    BY <1>2 DEF EditConfig, Inv, Types, TypeOK
  <2>3. refs' \in [Projects -> (UNION {RefSets(q) : q \in Projects}) \cup {Broken}]
    <3> DEFINE T == (UNION {RefSets(q) : q \in Projects}) \cup {Broken}
    <3>1. R \in T
      BY <2>1
    <3>2. refs \in [Projects -> T]
      BY DEF Inv, Types
    <3> QED
      BY <2>1, <3>1, <3>2
  <2>4. TypeOK'
    BY <2>1, <2>2, <2>3, ZenonT(60) DEF Inv, Types, TypeOK, All
  <2>5. CallbackInv'
    BY <2>2 DEF Inv, CallbackInv, Barriers, Settled
  <2>6. GraphInv'
    BY <2>1, <2>2 DEF Inv, GraphInv, Types
  <2> QED
    BY <2>2, <2>3, <2>4, <2>5, <2>6 DEF Inv, Types
<1> QED
  BY <1>1, <1>2

\* A new drain: the callbacks are all to do, whatever the references are.
LEMMA BeginDrainInv ==
    ASSUME BeginDrain
    PROVE  /\ CallbackInv'
           /\ task' = All("todo")
           /\ DOMAIN loaded' = Projects
BY DEF BeginDrain, CallbackInv, All

\* Invalidate leaves a closed set up to date: a project with an invalidated
\* reference is invalidated itself.
LEMMA InvalidateClosed ==
    ASSUME NEW g, NEW S \in SUBSET Projects, Invalidate(g, S),
           NEW p \in Projects, g[p] \in RefSets(p), upToDate'[p],
           \A d \in g[p] : upToDate[d]
    PROVE  \A d \in g[p] : upToDate'[d]
<1> DEFINE downstream == UNION {Dependents(g, q) : q \in S}
<1>1. p \notin S /\ p \notin downstream
  BY ZenonT(60) DEF Invalidate
<1> SUFFICES ASSUME NEW d \in g[p], d \in S \/ d \in downstream PROVE FALSE
  BY ReferencesAreEarlier, ZenonT(60) DEF Invalidate
<1>2. PICK s \in S : d = s \/ d \in Dependents(g, s)
  OBVIOUS
<1>3. p \in Dependents(g, s)
  BY <1>1, <1>2, DependentsClosed
<1> QED
  BY <1>1, <1>3

-------------------------------------------------------------------------------
\* The loaded references are well formed.
LEMMA LoadableRefs ==
    ASSUME Inv, Loadable
    PROVE  /\ refs \in [Projects -> UNION {RefSets(p) : p \in Projects}]
           /\ \A p \in Projects : refs[p] \in RefSets(p)
BY DEF Inv, Types, TypeOK, Loadable

LEMMA StartInv ==
    ASSUME Inv, StartOnce \/ StartWatch
    PROVE  Inv'
<1>1. NewCoordinator /\ LoadGraph /\ Loadable /\ UNCHANGED <<source, refs, output, unsaved, behind, exposed>>
  BY ZenonT(60) DEF StartOnce, StartWatch, NewCoordinator, disk
<1>2. projects' \subseteq Projects /\ configs' \subseteq Projects
  BY DEF StartOnce, StartWatch, Inv, Types, TypeOK
<1>3. /\ CallbackInv'
      /\ task' \in [Projects -> TaskStates]
      /\ phase' # "drain" => task' = All("none")
      /\ phase' \in {"idle", "drain"}
      /\ DOMAIN loaded' = Projects
  <2>1. CASE StartOnce
    BY <2>1, BeginDrainInv DEF StartOnce, BeginDrain, All
  <2>2. CASE StartWatch
    <3>1. task = All("none") /\ task' = task /\ phase' = "idle" /\ loaded' = loaded
      BY <2>2 DEF StartWatch, Inv, Types, TypeOK
    <3> QED
      BY <3>1 DEF CallbackInv, All, Inv, Types
  <2> QED
    BY <2>1, <2>2
<1>4. TypeOK'
  BY <1>1, <1>2, <1>3, LoadableRefs, ZenonT(60) DEF NewCoordinator, LoadGraph, All, TypeOK, Inv, Types
<1>5. Types'
  BY <1>1, <1>3, <1>4, LoadableRefs DEF NewCoordinator, LoadGraph, Inv, Types
<1>6. GraphInv'
  BY <1>1, <1>3 DEF NewCoordinator, LoadGraph, All, GraphInv
<1> QED
  BY <1>3, <1>5, <1>6 DEF Inv

LEMMA CycleInv ==
    ASSUME Inv, Cycle \/ CycleReload \/ CycleReloadFails
    PROVE  Inv'
<1> USE DEF disk, states, history
<1>1. CASE Cycle
  <2>1. upToDate' \in [Projects -> BOOLEAN] /\ force' \in [Projects -> BOOLEAN]
    BY <1>1 DEF Cycle, Invalidate, Inv, Types, TypeOK
  <2>2. Types'
    BY <1>1, <2>1, BeginDrainInv DEF Cycle, BeginDrain, Inv, Types, TypeOK, All
  <2>3. CallbackInv'
    BY <1>1, BeginDrainInv DEF Cycle
  <2>4. ASSUME NEW p \in Projects \ lost, upToDate'[p]
        PROVE  \A d \in graph[p] : upToDate'[d]
    <3>1. upToDate[p]
      BY <1>1, <2>4, ZenonT(60) DEF Cycle, Invalidate
    <3>2. \A d \in graph[p] : upToDate[d]
      BY <3>1 DEF Inv, GraphInv
    <3>3. graph[p] \in RefSets(p) /\ projects \in SUBSET Projects /\ Invalidate(graph, projects)
      BY <1>1, ZenonT(60) DEF Cycle, Inv, Types, TypeOK
    <3> QED
      BY <2>4, <3>2, <3>3, InvalidateClosed
  <2>5. GraphInv'
    BY <1>1, <2>4, ZenonT(60) DEF Cycle, BeginDrain, Inv, GraphInv
  <2> QED
    BY <2>2, <2>3, <2>5 DEF Inv
<1>2. CASE CycleReload
  <2>1. upToDate' \in [Projects -> BOOLEAN] /\ force' \in [Projects -> BOOLEAN]
    BY <1>2 DEF CycleReload, Invalidate, Inv, Types, TypeOK
  <2>2. Types'
    BY <1>2, <2>1, BeginDrainInv, LoadableRefs, ZenonT(60) DEF CycleReload, LoadGraph, BeginDrain, Inv, Types, TypeOK, All
  <2>3. CallbackInv'
    BY <1>2, BeginDrainInv DEF CycleReload
  <2>4. ASSUME NEW p \in Projects \ lost, upToDate'[p]
        PROVE  \A d \in refs[p] : upToDate'[d]
    <3>1. upToDate[p] /\ p \notin configs
      BY <1>2, <2>4, ZenonT(60) DEF CycleReload, Invalidate
    <3>2. refs[p] = graph[p]
      BY <1>2, <3>1 DEF CycleReload, Inv, GraphInv
    <3>3. \A d \in refs[p] : upToDate[d]
      BY <3>1, <3>2 DEF Inv, GraphInv
    <3>4. /\ refs[p] \in RefSets(p) /\ projects \cup configs \in SUBSET Projects
          /\ Invalidate(refs, projects \cup configs)
      BY <1>2, LoadableRefs, ZenonT(60) DEF CycleReload, Inv, Types, TypeOK
    <3> QED
      BY <2>4, <3>3, <3>4, InvalidateClosed
  <2>5. GraphInv'
    BY <1>2, <2>4 DEF CycleReload, LoadGraph, BeginDrain, Inv, GraphInv
  <2> QED
    BY <2>2, <2>3, <2>5 DEF Inv
<1>3. CASE CycleReloadFails
  <2> USE <1>3 DEF CycleReloadFails
  <2>1. Types'
    BY ZenonT(60) DEF Inv, Types, TypeOK, All
  <2>2. CallbackInv'
    BY DEF Inv, CallbackInv, Barriers, Settled
  <2>3. GraphInv'
    BY DEF Inv, GraphInv
  <2> QED
    BY <2>1, <2>2, <2>3, ZenonT(60) DEF Inv
<1> QED
  BY <1>1, <1>2, <1>3

-------------------------------------------------------------------------------
\* A callback that ends: nothing but its task and its own output change, and
\* it had not settled before.
LEMMA CallbackEnds ==
    ASSUME Inv, NEW p \in Projects,
           NEW o \in {"built", "failed", "blocked", "skipped"},
           task[p] \in {"todo", "building"},
           task' = [task EXCEPT ![p] = o],
           UNCHANGED <<phase, graph, upToDate, loaded>>,
           \A q \in Projects \ {p} : output'[q] = output[q],
           o = "built" => task[p] = "building",
           o = "skipped" => upToDate[p]
    PROVE  CallbackInv'
<1> USE DEF Inv, Types, TypeOK
<1>1. p \in Projects /\ task'[p] = o /\ \A q \in Projects \ {p} : task'[q] = task[q]
  OBVIOUS
<1>2. \A q \in Projects : Settled(q) => Settled(q)'
  BY <1>1 DEF Settled
<1> SUFFICES ASSUME NEW q \in Projects
             PROVE  /\ (phase = "drain" => task[q] # "none")'
                    /\ (task[q] = "skipped" => upToDate[q])'
                    /\ (task[q] = "building" =>
                          /\ \A r \in Barriers(q) : Settled(r)
                          /\ loaded[q].input.deps = [d \in graph[q] |-> output[d]])'
                    /\ (task[q] \in {"building", "built"} =>
                          \A d \in graph[q] : task[d] \in {"built", "skipped", "none"})'
  BY ZenonT(60) DEF CallbackInv
<1>3. graph[q] \subseteq Projects /\ Barriers(q) \subseteq Projects
  BY RefSetsAssumption, ZenonT(60) DEF Barriers
<1>4. task'[q] # "none" \/ phase' # "drain"
  BY <1>1, ZenonT(60) DEF CallbackInv
<1>5. task'[q] = "skipped" => upToDate'[q]
  BY <1>1, ZenonT(60) DEF CallbackInv
<1>6. ASSUME task'[q] = "building"
      PROVE  /\ \A r \in Barriers(q)' : Settled(r)'
             /\ loaded'[q].input.deps = [d \in graph'[q] |-> output'[d]]
  <2>1. q # p /\ task[q] = "building"
    BY <1>1, <1>6, ZenonT(60)
  <2>2. /\ \A r \in Barriers(q) : Settled(r)
        /\ loaded[q].input.deps = [d \in graph[q] |-> output[d]]
    BY <2>1, ZenonT(60) DEF CallbackInv
  <2>3. p \notin graph[q]
    BY <2>2, ZenonT(60) DEF Barriers, Settled
  <2>4. [d \in graph[q] |-> output[d]] = [d \in graph[q] |-> output'[d]]
    BY <1>3, <2>3, ZenonT(60)
  <2>5. Barriers(q)' = Barriers(q)
    BY DEF Barriers
  <2> QED
    BY <1>2, <1>3, <2>2, <2>4, <2>5, ZenonT(60)
<1>7. ASSUME task'[q] \in {"building", "built"}
      PROVE  \A d \in graph'[q] : task'[d] \in {"built", "skipped", "none"}
  <2>1. task[q] \in {"building", "built"}
    BY <1>1, <1>7, ZenonT(60)
  <2>2. \A d \in graph[q] : task[d] \in {"built", "skipped", "none"}
    BY <2>1, ZenonT(60) DEF CallbackInv
  <2> QED
    BY <1>1, <1>3, <2>2, ZenonT(60)
<1> QED
  BY <1>4, <1>5, <1>6, <1>7

LEMMA StartBuildInv ==
    ASSUME Inv, NEW p \in Projects, StartBuild(p)
    PROVE  CallbackInv'
<1> USE DEF Inv, Types, TypeOK, StartBuild, MayRun, disk, states
<1>1. /\ task'[p] = "building" /\ task[p] = "todo"
      /\ \A q \in Projects \ {p} : task'[q] = task[q] /\ loaded'[q] = loaded[q]
  OBVIOUS
<1>2. \A q \in Projects : Settled(q) => Settled(q)'
  BY <1>1 DEF Settled
<1>3. \A q \in Projects : graph[q] \subseteq Projects /\ Barriers(q) \subseteq Projects
  BY RefSetsAssumption, ZenonT(60) DEF Barriers
<1>4. \A q \in Projects : Barriers(q)' = Barriers(q)
  BY DEF Barriers
<1>5. /\ \A q \in Barriers(p) : Settled(q)'
      /\ loaded'[p].input.deps = [d \in graph[p] |-> output[d]]
  BY <1>2, <1>3 DEF Input
<1>6. \A d \in graph[p] : d # p /\ task[d] \in {"built", "skipped", "none"}
  <2> SUFFICES ASSUME NEW d \in graph[p] PROVE d # p /\ task[d] \in {"built", "skipped", "none"}
    OBVIOUS
  <2>1. Settled(d) /\ d \in Projects
    BY <1>3, ZenonT(60) DEF Barriers
  <2>2. task[d] \notin {"failed", "blocked"}
    BY ZenonT(60) DEF Failed
  <2> QED
    BY <1>1, <2>1, <2>2 DEF Settled
<1> SUFFICES ASSUME NEW q \in Projects
             PROVE  /\ (phase = "drain" => task[q] # "none")'
                    /\ (task[q] = "skipped" => upToDate[q])'
                    /\ (task[q] = "building" =>
                          /\ \A r \in Barriers(q) : Settled(r)
                          /\ loaded[q].input.deps = [d \in graph[q] |-> output[d]])'
                    /\ (task[q] \in {"building", "built"} =>
                          \A d \in graph[q] : task[d] \in {"built", "skipped", "none"})'
  BY ZenonT(60) DEF CallbackInv
<1>7. CASE q = p
  <2>1. \A r \in Barriers(p)' : Settled(r)'
    BY <1>4, <1>5, ZenonT(60)
  <2>2. graph' = graph /\ output' = output
    OBVIOUS
  <2>3. loaded'[p].input.deps = [d \in graph'[p] |-> output'[d]]
    BY <1>5, <2>2, ZenonT(60)
  <2>4. \A d \in graph'[p] : task'[d] \in {"built", "skipped", "none"}
    BY <1>1, <1>3, <1>6, <2>2, ZenonT(60)
  <2> QED
    BY <1>1, <1>7, <2>1, <2>3, <2>4, ZenonT(60)
<1>8. CASE q # p
  <2>1. task'[q] = task[q] /\ loaded'[q] = loaded[q]
    BY <1>1, <1>8
  <2>2. task[q] \in {"building", "built"} => p \notin graph[q]
    BY <1>1, ZenonT(60) DEF CallbackInv
  <2>3. task[q] = "building" => \A r \in Barriers(q) : Settled(r)'
    BY <1>2, <1>3, ZenonT(60) DEF CallbackInv
  <2>4. task[q] \in {"building", "built"} => \A d \in graph[q] : task'[d] = task[d]
    BY <1>1, <1>3, <2>2
  <2>5. /\ phase' = "drain" => task'[q] # "none"
        /\ task'[q] = "skipped" => upToDate'[q]
    BY <2>1, ZenonT(60) DEF CallbackInv
  <2>6. ASSUME task'[q] = "building"
        PROVE  /\ \A r \in Barriers(q)' : Settled(r)'
               /\ loaded'[q].input.deps = [d \in graph'[q] |-> output'[d]]
    <3>1. task[q] = "building"
      BY <2>1, <2>6
    <3>2. loaded[q].input.deps = [d \in graph[q] |-> output[d]]
      BY <3>1, ZenonT(60) DEF CallbackInv
    <3>3. graph' = graph /\ output' = output
      OBVIOUS
    <3>4. [d \in graph'[q] |-> output'[d]] = [d \in graph[q] |-> output[d]]
      BY ONLY <3>3
    <3> QED
      BY <1>4, <2>1, <2>3, <3>1, <3>2, <3>4, ZenonT(60)
  <2>7. ASSUME task'[q] \in {"building", "built"}
        PROVE  \A d \in graph'[q] : task'[d] \in {"built", "skipped", "none"}
    BY <2>1, <2>4, <2>7, ZenonT(60) DEF CallbackInv
  <2> QED
    BY <2>5, <2>6, <2>7, ZenonT(60)
<1> QED
  BY <1>7, <1>8

LEMMA CallbackStepInv ==
    ASSUME Inv, NEW p \in Projects, Callback(p)
    PROVE  Inv'
<1> USE DEF disk, states, events, history
<1>1. /\ UNCHANGED <<source, refs, phase, graph, upToDate, force, projects, configs, lost>>
      /\ task[p] \in {"todo", "building"}
      /\ \E o \in TaskStates : task' = [task EXCEPT ![p] = o]
      /\ DOMAIN output' = Projects /\ DOMAIN loaded' = Projects
      /\ unsaved' \subseteq Projects /\ behind' \subseteq Projects /\ overtaken' \subseteq Projects /\ exposed' \subseteq Projects
  BY ZenonT(60) DEF Callback, MarkWrite, Skip, Block, StartBuild, FinishBuild, RejectBuild, FailBuild, MayRun, WriteOutput,
         Inv, Types, TypeOK
<1>2. phase = "drain"
  <2>1. task # All("none")
    BY <1>1 DEF All
  <2> QED
    BY <2>1 DEF Inv, Types, TypeOK
<1>3. Types'
  <2>1. task' \in [Projects -> TaskStates]
    BY <1>1 DEF Inv, Types, TypeOK
  <2> QED
    BY <1>1, <1>2, <2>1 DEF Inv, Types, TypeOK
<1>4. CallbackInv'
  <2>1. CASE StartBuild(p)
    BY <2>1, StartBuildInv
  <2>2. CASE Skip(p)
    <3>1. /\ task[p] = "todo" /\ upToDate[p]
          /\ task' = [task EXCEPT ![p] = "skipped"]
          /\ UNCHANGED <<phase, graph, upToDate, loaded, output>>
      BY <2>2 DEF Skip, MayRun
    <3> QED
      BY <3>1, CallbackEnds, ZenonT(60)
  <2>3. CASE Block(p)
    BY <2>3, CallbackEnds, ZenonT(60) DEF Block, MayRun
  <2>4. CASE RejectBuild(p)
    BY <2>4, CallbackEnds, ZenonT(60) DEF RejectBuild
  <2>5. ASSUME WriteOutput(p) PROVE \A q \in Projects \ {p} : output'[q] = output[q]
    BY <2>5 DEF WriteOutput
  <2>6. CASE FinishBuild(p)
    BY <2>5, <2>6, CallbackEnds, ZenonT(60) DEF FinishBuild
  <2>7. CASE FailBuild(p)
    BY <2>5, <2>7, CallbackEnds, ZenonT(60) DEF FailBuild
  <2> QED
    BY <2>1, <2>2, <2>3, <2>4, <2>6, <2>7 DEF Callback
<1>5. GraphInv'
  BY <1>1, ZenonT(60) DEF Inv, GraphInv
<1> QED
  BY <1>3, <1>4, <1>5 DEF Inv

\* The merge: the references of a project that was built were built or skipped.
LEMMA MergeInv ==
    ASSUME Inv, Merge
    PROVE  Inv'
<1> USE DEF Merge, disk, events, history
<1>1. /\ phase' \in {"idle", "done", "persist"}
      /\ task' = All("none")
      /\ DOMAIN loaded' = Projects
      /\ upToDate' \in [Projects -> BOOLEAN] /\ force' \in [Projects -> BOOLEAN]
  BY DEF Rest, All, Inv, Types, TypeOK
<1>2. Types'
  BY <1>1, ZenonT(60) DEF Inv, Types, TypeOK, All
<1>3. CallbackInv'
  BY <1>1 DEF CallbackInv, All
<1>4. ASSUME NEW p \in Projects \ lost, upToDate'[p], NEW d \in graph[p]
      PROVE  upToDate'[d]
  <2>1. d \in Projects
    BY ReferencesAreEarlier DEF Inv, Types, TypeOK
  <2>2. CASE upToDate[p]
    BY <2>1, <2>2, ZenonT(60) DEF Inv, GraphInv
  <2>3. CASE p \in Built
    <3>1. task[d] \in {"built", "skipped", "none"} /\ task[d] # "none"
      BY <2>1, <2>3, ZenonT(60) DEF Built, Inv, CallbackInv
    <3>2. task[d] = "skipped" => upToDate[d]
      BY <2>1, ZenonT(60) DEF Inv, CallbackInv
    <3> QED
      BY <2>1, <3>1, <3>2, ZenonT(60) DEF Built
  <2> QED
    BY <1>4, <2>2, <2>3, ZenonT(60)
<1>5. GraphInv'
  BY <1>1, <1>4, ZenonT(60) DEF Inv, GraphInv
<1> QED
  BY <1>2, <1>3, <1>5, ZenonT(60) DEF Inv

\* The deferred persists.
LEMMA SeqOfElements ==
    ASSUME NEW S, NEW s \in Seq(S)
    PROVE  s \in Seq(ElementsOf(s))
BY DEF ElementsOf

\* The first of the deferred persists, and the others.
LEMMA HeadAndTail ==
    ASSUME PersistsType, persists # <<>>
    PROVE  /\ 1 \in DOMAIN persists /\ Head(persists) = persists[1]
           /\ Tail(persists) \in Seq(ElementsOf(Tail(persists)))
           /\ \A i \in DOMAIN Tail(persists) :
                i \in Nat /\ i + 1 \in DOMAIN persists /\ Tail(persists)[i] = persists[i + 1]
           /\ \A j \in DOMAIN persists :
                j \in Nat /\ (j > 1 => j - 1 \in DOMAIN Tail(persists) /\ Tail(persists)[j - 1] = persists[j])
<1>1. persists \in Seq(ElementsOf(persists))
  BY DEF PersistsType
<1> DEFINE E == ElementsOf(persists)
           tail == Tail(persists)
<1> HIDE DEF E
<1>2. /\ 1 \in DOMAIN persists /\ Head(persists) = persists[1]
      /\ tail \in Seq(E) /\ Len(persists) \in Nat /\ DOMAIN persists = 1 .. Len(persists)
      /\ DOMAIN tail = 1 .. Len(persists) - 1
      /\ \A i \in 1 .. Len(persists) - 1 : tail[i] = persists[i + 1]
  BY <1>1 DEF E
<1>3. tail \in Seq(ElementsOf(tail))
  BY <1>2, SeqOfElements, ZenonT(60)
<1> HIDE DEF tail
<1>4. /\ \A i \in DOMAIN tail : i \in Nat /\ i + 1 \in DOMAIN persists /\ tail[i] = persists[i + 1]
      /\ \A j \in DOMAIN persists : j \in Nat /\ (j > 1 => j - 1 \in DOMAIN tail /\ tail[j - 1] = persists[j])
  BY <1>2
<1> QED
  BY <1>2, <1>3, <1>4 DEF tail

\* The m persists of a drain come behind the n that were deferred.
Merged(s, n, m) ==
    /\ NewPersists(s) /\ n \in Nat /\ m \in Nat
    /\ persists' \in Seq(ElementsOf(persists)')
    /\ DOMAIN persists = 1 .. n /\ DOMAIN s = 1 .. m /\ DOMAIN persists' = 1 .. n + m
    /\ \A i \in 1 .. n : persists'[i] = persists[i]
    /\ \A i \in 1 .. m : persists'[n + i] = s[i] /\ \E p \in Built : s[i] = PersistOf(p)

LEMMA MergedPersists ==
    ASSUME PersistsType, Merge
    PROVE  \E s, n, m : Merged(s, n, m)
<1> DEFINE New == {PersistOf(p) : p \in Built}
<1>1. PICK s \in [1 .. Cardinality(Built) -> New] : NewPersists(s) /\ persists' = persists \o s
  BY ZenonT(60) DEF Merge
<1>2. Cardinality(Built) \in Nat
  <2>1. Built \subseteq Projects
    BY DEF Built
  <2> QED
    BY <2>1, FS_Subset, FS_CardinalityType, PositionAssumption
<1> DEFINE E == ElementsOf(persists)
<1>3. persists \in Seq(E)
  BY DEF PersistsType
<1>4. \A i \in 1 .. Cardinality(Built) : \E p \in Built : s[i] = PersistOf(p)
  OBVIOUS
<1> HIDE DEF New, E
<1>5. s \in Seq(New) /\ Len(s) = Cardinality(Built)
  BY <1>2
<1>6. persists \in Seq(E \cup New) /\ s \in Seq(E \cup New)
  BY <1>3, <1>5
<1>7. /\ persists \o s \in Seq(E \cup New)
      /\ Len(persists) \in Nat /\ DOMAIN persists = 1 .. Len(persists) /\ DOMAIN s = 1 .. Len(s)
      /\ DOMAIN (persists \o s) = 1 .. Len(persists) + Len(s)
      /\ \A i \in 1 .. Len(persists) : (persists \o s)[i] = persists[i]
      /\ \A i \in 1 .. Len(s) : (persists \o s)[Len(persists) + i] = s[i]
  BY <1>6
<1>8. persists' \in Seq(ElementsOf(persists'))
  BY <1>1, <1>7, SeqOfElements, ZenonT(60)
<1>9. persists' \in Seq(ElementsOf(persists)')
  BY <1>8, ZenonT(60) DEF ElementsOf
<1>10. Len(s) \in Nat
  BY <1>2, <1>5
<1>11. \A i \in 1 .. Len(s) : persists'[Len(persists) + i] = s[i] /\ \E p \in Built : s[i] = PersistOf(p)
  BY <1>1, <1>4, <1>5, <1>7, ZenonT(60)
<1>12. Merged(s, Len(persists), Len(s))
  BY <1>1, <1>7, <1>9, <1>10, <1>11, ZenonT(60) DEF Merged
<1> QED
  BY <1>12

LEMMA PersistsTypeInit == Init => PersistsType
BY DEF Init, PersistsType, ElementsOf

LEMMA PersistsTypeNext == PersistsType /\ [Next]_vars => PersistsType'
<1> SUFFICES ASSUME PersistsType, [Next]_vars PROVE PersistsType'
  OBVIOUS
<1>1. CASE persists' = persists
  BY <1>1, ZenonT(60) DEF PersistsType, ElementsOf
<1>2. CASE persists' = <<>>
  BY <1>2 DEF PersistsType, ElementsOf
<1>3. CASE Merge
  <2>1. PICK s, n, m : Merged(s, n, m)
    BY <1>3, MergedPersists, ZenonT(60)
  <2>2. ASSUME NEW i \in DOMAIN persists' PROVE persists'[i].project \in Projects
    <3>1. CASE i \in 1 .. n
      BY <2>1, <3>1, ZenonT(60) DEF PersistsType, Merged
    <3>2. CASE i \notin 1 .. n
      <4>1. i - n \in 1 .. m /\ n + (i - n) = i
        BY <2>1, <2>2, <3>2 DEF Merged
      <4>2. PICK p \in Built : persists'[i] = PersistOf(p)
        BY <2>1, <4>1, ZenonT(60) DEF Merged
      <4> QED
        BY <4>2 DEF PersistOf, Built
    <3> QED
      BY <3>1, <3>2
  <2> QED
    BY <2>1, <2>2, ZenonT(60) DEF PersistsType, Merged
<1>4. CASE Persist
  <2>1. persists # <<>> /\ persists' = Tail(persists)
    BY <1>4, ZenonT(60) DEF Persist
  <2> QED
    BY <2>1, HeadAndTail, ZenonT(60) DEF PersistsType, ElementsOf
<1> QED
  <2>1. CASE Next
    <3>1. CASE \E p \in Projects : Callback(p) \/ Edit(p) \/ EditConfig(p)
      BY <1>1, <3>1, ZenonT(60) DEF Callback, Skip, Block, StartBuild, FinishBuild, RejectBuild, FailBuild, Edit, EditConfig
    <3>2. CASE StartOnce \/ StartWatch \/ CycleReload \/ Crash
      BY <1>2, <3>2, ZenonT(60) DEF StartOnce, StartWatch, NewCoordinator, CycleReload, Crash
    <3>3. CASE Cycle \/ CycleReloadFails \/ PersistFails \/ EndDrain
      BY <1>1, <3>3, ZenonT(60) DEF Cycle, CycleReloadFails, PersistFails, EndDrain
    <3> QED
      BY <1>3, <1>4, <2>1, <3>1, <3>2, <3>3, ZenonT(60) DEF Next, Process
  <2>2. CASE UNCHANGED vars
    BY <1>1, <2>2, ZenonT(60) DEF vars
  <2> QED
    BY <2>1, <2>2

\* The rest of a drain, and the end of the process.
LEMMA PersistInv ==
    ASSUME Inv, PersistsType, Persist \/ PersistFails \/ EndDrain
    PROVE  Inv'
<1>1. /\ UNCHANGED <<source, refs, output, graph, upToDate, force, projects, configs, task, loaded, exposed, lost>>
      /\ phase = "persist" /\ phase' \in {"idle", "done", "persist"}
      /\ unsaved' \subseteq Projects /\ behind' \subseteq Projects /\ overtaken' \subseteq Projects
  <2>1. CASE Persist
    <3>1. Head(persists).project \in Projects
      BY <2>1, HeadAndTail, ZenonT(60) DEF Persist, PersistsType
    <3> QED
      BY <2>1, <3>1, ZenonT(60) DEF Persist, states, events, Inv, Types, TypeOK
  <2>2. CASE PersistFails \/ EndDrain
    BY <2>2, ZenonT(60) DEF PersistFails, EndDrain, Rest, disk, states, events, history, Inv, Types, TypeOK
  <2> QED
    BY <2>1, <2>2, ZenonT(60)
<1>2. Types'
  BY <1>1, ZenonT(60) DEF Inv, Types, TypeOK, All
<1>3. CallbackInv'
  BY <1>1 DEF Inv, CallbackInv, Barriers, Settled
<1>4. GraphInv'
  BY <1>1, ZenonT(60) DEF Inv, GraphInv
<1> QED
  BY <1>2, <1>3, <1>4 DEF Inv

LEMMA CrashInv ==
    ASSUME Inv, Crash
    PROVE  Inv'
<1> USE DEF Crash, disk
<1>1. Types'
  BY DEF Inv, Types, TypeOK, All
<1>2. CallbackInv'
  BY DEF CallbackInv, All
<1>3. GraphInv'
  BY DEF GraphInv, All
<1> QED
  BY <1>1, <1>2, <1>3, ZenonT(60) DEF Inv
-------------------------------------------------------------------------------
LEMMA InvNext == Inv /\ PersistsType /\ [Next]_vars => Inv'
<1> SUFFICES ASSUME Inv, PersistsType, [Next]_vars PROVE Inv'
  OBVIOUS
<1>1. CASE StartOnce \/ StartWatch
  BY <1>1, StartInv
<1>2. CASE Cycle \/ CycleReload \/ CycleReloadFails
  BY <1>2, CycleInv
<1>3. CASE \E p \in Projects : Callback(p)
  BY <1>3, CallbackStepInv
<1>4. CASE Merge
  BY <1>4, MergeInv
<1>5. CASE Persist \/ PersistFails \/ EndDrain
  BY <1>5, PersistInv
<1>6. CASE Crash
  BY <1>6, CrashInv
<1>7. CASE \E p \in Projects : Edit(p) \/ EditConfig(p)
  BY <1>7, EditInv
<1>8. CASE UNCHANGED vars
  <2> USE <1>8 DEF vars, disk, states, events, history
  <2>1. Types'
    BY ZenonT(60) DEF Inv, Types, TypeOK, All
  <2>2. CallbackInv'
    BY SMTT(60) DEF Inv, CallbackInv, Barriers, Settled
  <2>3. GraphInv'
    BY ZenonT(60) DEF Inv, GraphInv
  <2> QED
    BY <2>1, <2>2, <2>3 DEF Inv
<1> QED
  BY <1>1, <1>2, <1>3, <1>4, <1>5, <1>6, <1>7, <1>8, ZenonT(60) DEF Next, Process

(***************************************************************************)
(* Freshness.                                                              *)
(***************************************************************************)

\* What a build that m is the manifest of would read now.
InputOf(m) == [own |-> m.files[1], deps |-> [d \in m.files[2] |-> output[d]]]

\* A build that runs has its own reasons to trust the manifest; one that has
\* ended well has left the right output, unless it is exposed.
BuildRight(p) ==
    /\ task[p] = "building" =>
        /\ ~upToDate[p]
        /\ force[p] => loaded[p].selected
        /\ ~loaded[p].selected =>
            manifest[p] # NoManifest /\ manifest[p].files = <<loaded[p].input.own, graph[p]>>
    /\ task[p] \in {"building", "built"} =>
        /\ loaded[p].input = [own |-> loaded[p].input.own, deps |-> [d \in graph[p] |-> output[d]]]
        /\ p \in projects \/ loaded[p].input.own = source[p]
    /\ task[p] = "built" => p \in overtaken
    /\ task[p] = "built" /\ p \notin exposed =>
        /\ output[p] = Emit(p, loaded[p].input)
        /\ ~loaded[p].selected => manifest[p].output = output[p]

BuildInv == \A p \in Projects : BuildRight(p)

\* What a manifest vouches for.
ManifestInv ==
    /\ DOMAIN manifest = Projects
    /\ \A p \in Projects : manifest[p] # NoManifest =>
        /\ manifest[p].files[2] \subseteq Projects
        /\ p \notin overtaken => manifest[p].files[2] = graph[p]
        /\ p \notin exposed \cup unsaved =>
            /\ manifest[p].output = output[p]
            /\ p \notin behind => manifest[p].output = Emit(p, InputOf(manifest[p]))

LastAt(i) == \A j \in DOMAIN persists : j > i => persists[j].project # persists[i].project

\* Of the deferred persists of a project that counts as up to date, the last one
\* is right.
PersistsInv ==
    /\ phase = "persist" => \A p \in Projects : upToDate[p]
    /\ \A i \in DOMAIN persists :
        /\ persists[i].project \in Projects
        /\ persists[i].current.files[2] = graph[persists[i].project]
        /\ upToDate[persists[i].project] =>
            /\ \A d \in graph[persists[i].project] : upToDate[d]
            /\ LastAt(i) /\ persists[i].project \notin exposed =>
                /\ persists[i].current.output = output[persists[i].project]
                /\ output[persists[i].project] = Emit(persists[i].project, InputOf(persists[i].current))

\* In a watch, a project whose manifest is behind, or that references one to be
\* built, has the force flag, or will have it in the first cycle.
ForceInv ==
    /\ \A p \in behind \ overtaken : graph[p] # {}
    /\ mode.watch /\ phase # "off" =>
        \A p \in Projects \ (overtaken \cup lost) :
            \/ force[p]
            \/ phase = "idle" /\ projects = Projects
            \/ p \notin behind /\ \A d \in graph[p] : upToDate[d]

FreshInv ==
    \A p \in Projects \ (exposed \cup projects \cup configs \cup lost) : upToDate[p] => Fresh(p)

FInv == BuildInv /\ ManifestInv /\ PersistsInv /\ ForceInv /\ FreshInv

-------------------------------------------------------------------------------
\* Frames: what a step that leaves a part alone keeps.
LEMMA BuildNone ==
    ASSUME \A p \in Projects : task'[p] \notin {"building", "built"}
    PROVE  BuildInv'
BY ZenonT(60) DEF BuildInv, BuildRight

LEMMA BuildKept ==
    ASSUME Inv, BuildInv,
           UNCHANGED <<loaded, graph, output, manifest, upToDate, force, overtaken, exposed>>,
           \A p \in Projects : task'[p] \in {"building", "built"} => task'[p] = task[p],
           projects \subseteq projects',
           \A p \in Projects : task[p] # "none" => p \in projects' \/ source'[p] = source[p]
    PROVE  BuildInv'
<1> SUFFICES ASSUME NEW p \in Projects PROVE BuildRight(p)'
  BY ZenonT(60) DEF BuildInv
<1>1. CASE task'[p] \notin {"building", "built"}
  BY <1>1, ZenonT(60) DEF BuildRight
<1>2. CASE task'[p] \in {"building", "built"}
  <2>1. task'[p] = task[p] /\ task[p] # "none"
    BY <1>2, ZenonT(60)
  <2>2. BuildRight(p)
    BY ZenonT(60) DEF BuildInv
  <2> QED
    BY <2>1, <2>2, ZenonT(60) DEF BuildRight
<1> QED
  BY <1>1, <1>2

LEMMA ManifestKept ==
    ASSUME ManifestInv, UNCHANGED <<output, manifest, unsaved, behind, exposed>>,
           overtaken \subseteq overtaken',
           \A p \in Projects : graph'[p] = graph[p] \/ p \in overtaken'
    PROVE  ManifestInv'
BY SMTT(60) DEF ManifestInv, InputOf

LEMMA PersistsKept ==
    ASSUME PersistsInv, UNCHANGED <<output, persists, graph, upToDate, exposed>>,
           phase' = "persist" => phase = "persist"
    PROVE  PersistsInv'
BY SMTT(60) DEF PersistsInv, InputOf, LastAt

LEMMA PersistsNone ==
    ASSUME persists' = <<>>, phase' # "persist"
    PROVE  PersistsInv'
<1>1. DOMAIN persists' = {}
  OBVIOUS
<1> QED
  BY <1>1, ZenonT(60) DEF PersistsInv

LEMMA FreshKept ==
    ASSUME FreshInv, output' = output,
           \A p \in Projects \ (exposed' \cup projects' \cup configs' \cup lost') :
               upToDate'[p] =>
                   /\ upToDate[p] /\ p \notin exposed \cup projects \cup configs \cup lost
                   /\ graph'[p] = graph[p] /\ source'[p] = source[p]
    PROVE  FreshInv'
BY SMTT(60) DEF FreshInv, Fresh, Input
-------------------------------------------------------------------------------
LEMMA FreshnessInit == Init => FInv
<1> SUFFICES ASSUME Init PROVE FInv
  OBVIOUS
<1> USE DEF Init, All
<1>1. BuildInv
  BY DEF BuildInv, BuildRight
<1>2. ManifestInv
  BY DEF ManifestInv
<1>3. PersistsInv
  BY DEF PersistsInv
<1>4. ForceInv /\ FreshInv
  BY DEF ForceInv, FreshInv
<1> QED
  BY <1>1, <1>2, <1>3, <1>4, ZenonT(60) DEF FInv

LEMMA EditFresh ==
    ASSUME Inv, FInv, mode' = mode, NEW p \in Projects, Edit(p) \/ EditConfig(p)
    PROVE  FInv'
<1>1. /\ UNCHANGED <<output, manifest, phase, graph, upToDate, force, task, loaded, persists>>
      /\ UNCHANGED <<unsaved, behind, overtaken, exposed, lost>>
      /\ projects \subseteq projects' /\ projects' \subseteq Projects /\ configs \subseteq configs'
      /\ phase # "off" => \A q \in Projects : q \in projects' \/ source'[q] = source[q]
  <2>1. CASE Edit(p)
    BY <2>1, ZenonT(60) DEF Edit, states, history, Inv, Types, TypeOK
  <2>2. CASE EditConfig(p)
    BY <2>2 DEF EditConfig, states, history, Inv, Types, TypeOK
  <2> QED
    BY <2>1, <2>2, ZenonT(60)
<1>2. \A q \in Projects : task[q] # "none" \/ upToDate[q] => phase # "off"
  BY DEF Inv, GraphInv, Types, TypeOK, All
<1>3. BuildInv'
  BY <1>1, <1>2, BuildKept, ZenonT(60) DEF FInv
<1>4. ManifestInv' /\ PersistsInv'
  BY <1>1, ManifestKept, PersistsKept, ZenonT(60) DEF FInv
<1>5. ForceInv'
  BY <1>1, ZenonT(60) DEF FInv, ForceInv
<1>6. FreshInv'
  BY <1>1, <1>2, FreshKept, ZenonT(60) DEF FInv
<1> QED
  BY <1>3, <1>4, <1>5, <1>6, ZenonT(60) DEF FInv

LEMMA StartFresh ==
    ASSUME Inv, FInv, mode' = mode, StartOnce \/ StartWatch
    PROVE  FInv'
<1>1. /\ UNCHANGED <<output, manifest, unsaved, behind, exposed>>
      /\ overtaken' = overtaken \cup {p \in Projects : refs[p] # graph[p]} /\ graph' = refs
      /\ \A p \in Projects : ~upToDate'[p] /\ task'[p] \notin {"building", "built"}
      /\ persists' = <<>> /\ phase' \in {"idle", "drain"}
      /\ mode.watch => phase' = "idle" /\ projects' = Projects
  BY ZenonT(60) DEF StartOnce, StartWatch, NewCoordinator, LoadGraph, BeginDrain, All, disk, Inv, Types, TypeOK
<1>2. BuildInv' /\ PersistsInv'
  BY <1>1, BuildNone, PersistsNone
<1>3. ManifestInv'
  BY <1>1, ManifestKept, ZenonT(60) DEF FInv
<1>4. ForceInv'
  BY <1>1, ZenonT(60) DEF FInv, ForceInv, Inv, Types, TypeOK
<1>5. FreshInv'
  BY <1>1 DEF FreshInv
<1> QED
  BY <1>2, <1>3, <1>4, <1>5, ZenonT(60) DEF FInv

\* What depends on p comes later.
LEMMA DependentsLater ==
    ASSUME NEW g, NEW p \in Projects, NEW q \in Dependents(g, p),
           \A r \in Projects : g[r] \in RefSets(r)
    PROVE  Position[p] < Position[q]
<1> DEFINE S == {p} \cup {r \in Projects : Position[p] < Position[r]}
<1>1. \A r \in Projects : g[r] \cap S # {} => r \in S
  BY RefSetsAssumption, PositionAssumption
<1>2. S \in SUBSET Projects /\ p \in S
  OBVIOUS
<1> HIDE DEF S
<1>3. q \in Projects \ {p} /\ q \in S
  BY <1>1, <1>2, ZenonT(60) DEF Dependents
<1> QED
  BY <1>3 DEF S

\* Whoever references an invalidated project is forced.
LEMMA InvalidateForces ==
    ASSUME NEW g, \A r \in Projects : g[r] \in RefSets(r),
           NEW S \in SUBSET Projects, Invalidate(g, S),
           NEW p \in Projects, NEW d \in g[p], upToDate[d] \/ d \in S, ~upToDate'[d]
    PROVE  force'[p]
<1> DEFINE downstream == UNION {Dependents(g, s) : s \in S}
<1>1. d \in Projects /\ d # p /\ Position[d] < Position[p]
  BY RefSetsAssumption, ReferencesAreEarlier
<1>2. PICK s \in S : d = s \/ d \in Dependents(g, s)
  BY <1>1, ZenonT(60) DEF Invalidate
<1>3. p # s
  BY <1>1, <1>2, DependentsLater, PositionAssumption
<1>4. p \in Dependents(g, s)
  BY <1>2, <1>3, DependentsClosed
<1> QED
  BY <1>4, ZenonT(60) DEF Invalidate

\* A cycle that drains, with the references g.
LEMMA InvalidateFresh ==
    ASSUME Inv, FInv, mode' = mode, phase = "idle",
           NEW g, \A r \in Projects : g[r] \in RefSets(r), graph' = g,
           NEW S \in SUBSET Projects, projects \subseteq S, configs \subseteq S, Invalidate(g, S),
           BeginDrain, projects' = {},
           UNCHANGED <<source, output, manifest, unsaved, behind, exposed, lost>>,
           overtaken \subseteq overtaken',
           \A p \in Projects : g[p] = graph[p] \/ (p \in overtaken' /\ p \in S \cup lost),
           persists' = <<>> \/ (persists' = persists /\ g = graph)
    PROVE  FInv'
<1>1. /\ phase' = "drain"
      /\ \A p \in Projects : task'[p] \notin {"building", "built"}
      /\ \A p \in Projects : upToDate'[p] => upToDate[p] /\ p \notin S
      /\ \A p \in Projects : force[p] => force'[p]
  BY ZenonT(60) DEF BeginDrain, All, Invalidate
<1>2. BuildInv'
  BY <1>1, BuildNone
<1>3. ManifestInv'
  BY ManifestKept, ZenonT(60) DEF FInv
<1>4. PersistsInv'
  <2>1. CASE persists' = <<>>
    BY ZenonT(60), <1>1, <2>1, PersistsNone
  <2>2. CASE persists' = persists /\ g = graph
    <3>1. ASSUME NEW i \in DOMAIN persists, upToDate'[persists[i].project]
          PROVE  \A d \in graph[persists[i].project] : upToDate'[d]
      <4>1. /\ persists[i].project \in Projects
            /\ \A d \in graph[persists[i].project] : upToDate[d]
        BY <1>1, <3>1, ZenonT(60) DEF FInv, PersistsInv
      <4> QED
        BY <2>2, <3>1, <4>1, InvalidateClosed, ZenonT(60)
    <3>2. \A i \in DOMAIN persists : upToDate'[persists[i].project] => upToDate[persists[i].project]
      BY <1>1, ZenonT(60) DEF FInv, PersistsInv
    <3> QED
      BY <1>1, <2>2, <3>1, <3>2, SMTT(60) DEF FInv, PersistsInv, InputOf, LastAt
  <2> QED
    BY ZenonT(60), <2>1, <2>2
<1>5. ForceInv'
  <2>1. ASSUME NEW p \in behind' \ overtaken' PROVE g[p] # {}
    BY <2>1, ZenonT(60) DEF FInv, ForceInv, Inv, Types, TypeOK
  <2>2. ASSUME mode.watch, NEW p \in Projects \ (overtaken' \cup lost'), ~force'[p]
        PROVE  p \notin behind /\ \A d \in g[p] : upToDate'[d]
    <3>1. g[p] = graph[p] /\ p \notin overtaken \cup lost /\ ~force[p]
      BY <1>1, <2>2, ZenonT(60)
    <3>2. CASE projects = Projects
      <4>1. S = Projects
        BY <3>2, ZenonT(60)
      <4>2. g[p] = {}
        <5> SUFFICES ASSUME NEW d \in g[p] PROVE FALSE
          OBVIOUS
        <5>1. d \in Projects /\ d \in S
          BY ZenonT(60), <4>1, ReferencesAreEarlier
        <5>2. ~upToDate'[d]
          BY ZenonT(60), <1>1, <5>1
        <5> QED
          BY ZenonT(60), <2>2, <5>1, <5>2, InvalidateForces
      <4> QED
        BY <2>1, <2>2, <4>2
    <3>3. CASE projects # Projects
      <4>1. p \notin behind /\ \A d \in graph[p] : upToDate[d]
        BY <2>2, <3>1, <3>3, ZenonT(60) DEF FInv, ForceInv
      <4> QED
        BY <2>2, <3>1, <4>1, InvalidateForces
    <3> QED
      BY <3>2, <3>3
  <2> QED
    BY <2>1, <2>2, ZenonT(60) DEF ForceInv
<1>6. FreshInv'
  BY <1>1, FreshKept, ZenonT(60) DEF FInv
<1> QED
  BY <1>2, <1>3, <1>4, <1>5, <1>6, ZenonT(60) DEF FInv

LEMMA CycleFresh ==
    ASSUME Inv, FInv, mode' = mode, Cycle \/ CycleReload \/ CycleReloadFails
    PROVE  FInv'
<1> USE DEF disk, states, history
<1>1. projects \in SUBSET Projects /\ configs \in SUBSET Projects /\ \A p \in Projects : graph[p] \in RefSets(p)
  BY DEF Inv, Types, TypeOK
<1>2. CASE Cycle
  <2>1. /\ phase = "idle" /\ graph' = graph /\ configs \subseteq projects
        /\ Invalidate(graph, projects) /\ BeginDrain /\ projects' = {}
        /\ UNCHANGED <<source, output, manifest, unsaved, behind, exposed, lost, overtaken, persists>>
    BY <1>2, ZenonT(60) DEF Cycle
  <2> QED
    BY <1>1, <2>1, InvalidateFresh, ZenonT(60)
<1>3. CASE CycleReload
  <2>1. /\ phase = "idle" /\ graph' = refs /\ persists' = <<>>
        /\ Invalidate(refs, projects \cup configs) /\ BeginDrain /\ projects' = {}
        /\ UNCHANGED <<source, output, manifest, unsaved, behind, exposed, lost>>
        /\ overtaken' = overtaken \cup {p \in Projects : refs[p] # graph[p]}
        /\ Loadable
    BY <1>3, ZenonT(60) DEF CycleReload, LoadGraph
  <2>2. \A p \in Projects : refs[p] = graph[p] \/ (p \in overtaken' /\ p \in (projects \cup configs) \cup lost)
    BY <2>1 DEF Inv, GraphInv
  <2>3. projects \cup configs \in SUBSET Projects /\ \A p \in Projects : refs[p] \in RefSets(p)
    BY <1>1, <2>1, LoadableRefs
  <2> QED
    BY <2>1, <2>2, <2>3, InvalidateFresh, ZenonT(60)
<1>4. CASE CycleReloadFails
  <2>1. /\ phase = "idle" /\ projects' = {} /\ configs' = {} /\ lost' = lost \cup projects \cup configs
        /\ UNCHANGED <<source, output, manifest, phase, graph, upToDate, force, task, loaded, persists>>
        /\ UNCHANGED <<unsaved, behind, overtaken, exposed>>
    BY <1>4, ZenonT(60) DEF CycleReloadFails
  <2>2. BuildInv'
    BY <2>1, BuildNone DEF Inv, Types, TypeOK, All
  <2>3. ManifestInv' /\ PersistsInv'
    BY <2>1, ManifestKept, PersistsKept, ZenonT(60) DEF FInv
  <2>4. ForceInv'
    BY <2>1, ZenonT(60) DEF FInv, ForceInv
  <2>5. FreshInv'
    BY <2>1, FreshKept, ZenonT(60) DEF FInv
  <2> QED
    BY <2>2, <2>3, <2>4, <2>5, ZenonT(60) DEF FInv
<1> QED
  BY <1>2, <1>3, <1>4, ZenonT(60)

\* A build that begins.
LEMMA StartBuildFresh ==
    ASSUME Inv, FInv, NEW p \in Projects, StartBuild(p)
    PROVE  BuildInv'
<1>1. /\ task'[p] = "building" /\ loaded'[p] = [selected |-> Selected(p), input |-> Input(p)] /\ ~upToDate[p]
      /\ \A q \in Projects \ {p} : task'[q] = task[q] /\ loaded'[q] = loaded[q]
      /\ UNCHANGED <<source, output, manifest, graph, upToDate, force, projects, overtaken, exposed>>
  BY ZenonT(60) DEF StartBuild, disk, states, events, history, Inv, Types, TypeOK
<1>2. loaded'[p].selected = Selected(p) /\ loaded'[p].input = Input(p)
  BY <1>1
<1>3. Input(p).own = source[p] /\ Input(p) = [own |-> source[p], deps |-> [d \in graph[p] |-> output[d]]]
  BY DEF Input
<1>4. /\ force[p] => Selected(p)
      /\ ~Selected(p) => manifest[p] # NoManifest /\ manifest[p].files = <<source[p], graph[p]>>
  BY ZenonT(60) DEF Selected, Files
<1>5. BuildRight(p)'
  <2>1. task'[p] # "built"
    BY <1>1
  <2> QED
    BY <1>1, <1>2, <1>3, <1>4, <2>1, ZenonT(60) DEF BuildRight
<1>6. ASSUME NEW q \in Projects \ {p} PROVE BuildRight(q)'
  <2>1. BuildRight(q)
    BY ZenonT(60) DEF FInv, BuildInv
  <2>2. task'[q] = task[q] /\ loaded'[q] = loaded[q]
    BY ZenonT(60), <1>1
  <2> QED
    BY <1>1, <2>1, <2>2, ZenonT(60) DEF BuildRight
<1> QED
  BY <1>5, <1>6, ZenonT(60) DEF BuildInv

\* A build that writes, and what is marked with it.
LEMMA WriteFresh ==
    ASSUME Inv, FInv, mode' = mode, NEW p \in Projects, task[p] = "building",
           WriteOutput(p), MarkWrite(p),
           UNCHANGED <<phase, graph, upToDate, force, projects, configs, persists, lost>>,
           overtaken \subseteq overtaken',
           \A q \in Projects : q \in exposed => q \in exposed' \/ (q = p /\ Writes(p))
    PROVE  ManifestInv' /\ PersistsInv' /\ ForceInv' /\ FreshInv'
<1> USE DEF Inv, Types, TypeOK
<1>1. /\ \A q \in Projects \ {p} : output'[q] = output[q]
      /\ ~Writes(p) => output' = output
      /\ manifest' = manifest /\ source' = source
      /\ unsaved \subseteq unsaved' /\ behind \subseteq behind'
      /\ Writes(p) => p \in unsaved'
      /\ \A q \in Projects : Writes(p) /\ manifest[q] # NoManifest /\ p \in manifest[q].files[2] => q \in behind'
      /\ \A q \in behind' \ behind : manifest[q] # NoManifest /\ p \in manifest[q].files[2]
      /\ behind' \subseteq Projects
  BY ZenonT(60) DEF WriteOutput, MarkWrite
<1>2. ~upToDate[p] /\ phase = "drain"
  BY ZenonT(60) DEF FInv, BuildInv, BuildRight, All
<1>3. ASSUME NEW R \in SUBSET Projects, p \notin R \/ ~Writes(p)
      PROVE  [d \in R |-> output'[d]] = [d \in R |-> output[d]]
  BY <1>1, <1>3, ZenonT(60)
<1>4. ManifestInv'
  <2> SUFFICES ASSUME NEW q \in Projects, manifest[q] # NoManifest
               PROVE  /\ manifest[q].files[2] \subseteq Projects
                      /\ q \notin overtaken' => manifest[q].files[2] = graph[q]
                      /\ q \notin exposed' \cup unsaved' =>
                          /\ manifest[q].output = output'[q]
                          /\ q \notin behind' => manifest[q].output = Emit(q, InputOf(manifest[q])')
    BY <1>1, ZenonT(60) DEF FInv, ManifestInv, InputOf
  <2>1. /\ manifest[q].files[2] \subseteq Projects
        /\ q \notin overtaken' => manifest[q].files[2] = graph[q]
    BY ZenonT(60) DEF FInv, ManifestInv
  <2>2. ASSUME q \notin exposed' \cup unsaved'
        PROVE  /\ q \notin exposed \cup unsaved /\ output'[q] = output[q]
               /\ q \notin behind' => q \notin behind /\ InputOf(manifest[q])' = InputOf(manifest[q])
    BY <1>1, <1>3, <2>1, <2>2, ZenonT(60) DEF InputOf
  <2> QED
    BY <2>1, <2>2, ZenonT(60) DEF FInv, ManifestInv
<1>5. PersistsInv'
  <2>1. ASSUME NEW i \in DOMAIN persists, upToDate[persists[i].project]
        PROVE  /\ output'[persists[i].project] = output[persists[i].project]
               /\ persists[i].project \in exposed => persists[i].project \in exposed'
               /\ InputOf(persists[i].current)' = InputOf(persists[i].current)
    <3>1. /\ persists[i].project \in Projects \ {p}
          /\ persists[i].current.files[2] = graph[persists[i].project]
          /\ p \notin graph[persists[i].project]
      BY <1>2, <2>1, ZenonT(60) DEF FInv, PersistsInv
    <3>2. graph[persists[i].project] \subseteq Projects
      BY <3>1, RefSetsAssumption, ZenonT(60)
    <3> QED
      BY <1>1, <1>3, <3>1, <3>2, ZenonT(60) DEF InputOf
  <2> QED
    BY <1>2, <2>1, SMTT(60) DEF FInv, PersistsInv, LastAt
<1>6. ForceInv'
  <2>1. \A q \in behind' \ behind : q \notin overtaken => p \in graph[q]
    BY <1>1, ZenonT(60) DEF FInv, ManifestInv
  <2> QED
    BY <1>1, <1>2, <2>1, ZenonT(60) DEF FInv, ForceInv
<1>7. FreshInv'
  <2> SUFFICES ASSUME NEW q \in Projects, q \notin exposed' \cup projects \cup configs \cup lost, upToDate[q]
               PROVE  Fresh(q)'
    BY ZenonT(60) DEF FreshInv
  <2>1. q # p /\ q \notin exposed /\ p \notin graph[q]
    BY <1>2, ZenonT(60) DEF GraphInv
  <2>2. graph[q] \subseteq Projects
    BY RefSetsAssumption
  <2>3. output'[q] = output[q] /\ [d \in graph[q] |-> output'[d]] = [d \in graph[q] |-> output[d]]
    BY <1>1, <1>3, <2>1, <2>2, ZenonT(60)
  <2>4. Input(q)' = Input(q)
    BY <1>1, <2>3, ZenonT(60) DEF Input
  <2> QED
    BY <2>1, <2>3, <2>4, ZenonT(60) DEF FInv, FreshInv, Fresh
<1> QED
  BY <1>4, <1>5, <1>6, <1>7

\* The other builds, when p writes: they do not read its output.
LEMMA WriteOthers ==
    ASSUME Inv, FInv, NEW p \in Projects, task[p] = "building", WriteOutput(p),
           NEW q \in Projects, task[q] \in {"building", "built"}
    PROVE  [d \in graph[q] |-> output'[d]] = [d \in graph[q] |-> output[d]]
<1>1. graph[q] \subseteq Projects
  BY RefSetsAssumption DEF Inv, Types, TypeOK
<1>2. p \notin graph[q]
  BY ZenonT(60) DEF Inv, CallbackInv
<1>3. \A d \in Projects \ {p} : output'[d] = output[d]
  BY DEF WriteOutput, Inv, Types
<1> QED
  BY <1>1, <1>2, <1>3, ZenonT(60)

\* A build that ends well and is not exposed leaves the right output.
LEMMA FinishRight ==
    ASSUME Inv, FInv, NEW p \in Projects, FinishBuild(p), p \notin exposed'
    PROVE  /\ output'[p] = Emit(p, loaded[p].input)
           /\ ~loaded[p].selected => manifest[p].output = output'[p]
<1>1. CASE Writes(p)
  BY <1>1, ZenonT(60) DEF FinishBuild, WriteOutput, Writes, Emitted, Inv, Types
<1>2. CASE ~Writes(p)
  <2>1. output' = output /\ p \notin exposed \cup unsaved \cup Outdated(p)
    BY <1>2, ZenonT(60) DEF FinishBuild, WriteOutput
  <2>2. CASE loaded[p].selected
    <3>1. manifest[p] # NoManifest /\ manifest[p].output = Emit(p, loaded[p].input)
      BY <1>2, <2>2, ZenonT(60) DEF Writes, Emitted
    <3> QED
      BY <2>1, <2>2, <3>1, ZenonT(60) DEF FInv, ManifestInv
  <2>3. CASE ~loaded[p].selected
    <3>1. /\ ~force[p] /\ manifest[p] # NoManifest /\ manifest[p].files = <<loaded[p].input.own, graph[p]>>
          /\ loaded[p].input = [own |-> loaded[p].input.own, deps |-> [d \in graph[p] |-> output[d]]]
          /\ ~upToDate[p]
      BY <2>3, ZenonT(60) DEF FInv, BuildInv, BuildRight, FinishBuild
    <3>2. phase = "drain"
      BY ZenonT(60) DEF FinishBuild, Inv, Types, TypeOK, All
    <3>3. p \notin behind
      <4>1. CASE mode.watch /\ p \in behind
        <5>1. p \notin overtaken \cup lost
          BY <2>1, <2>3, <4>1, ZenonT(60) DEF Outdated
        <5> QED
          BY <3>1, <3>2, <4>1, <5>1, ZenonT(60) DEF FInv, ForceInv
      <4>2. CASE ~mode.watch
        BY <2>1, <2>3, <4>2, ZenonT(60) DEF Outdated
      <4> QED
        BY <4>1, <4>2
    <3>4. manifest[p].output = output[p] /\ manifest[p].output = Emit(p, InputOf(manifest[p]))
      BY <2>1, <3>1, <3>3, ZenonT(60) DEF FInv, ManifestInv
    <3>5. InputOf(manifest[p]) = loaded[p].input
      BY <3>1 DEF InputOf
    <3> QED
      BY <2>1, <3>4, <3>5
  <2> QED
    BY <2>2, <2>3
<1> QED
  BY <1>1, <1>2, ZenonT(60)

\* A build that ends.
LEMMA EndBuildFresh ==
    ASSUME Inv, FInv, mode' = mode, NEW p \in Projects, FinishBuild(p) \/ FailBuild(p)
    PROVE  FInv'
<1> USE DEF states, events
<1>1. /\ task[p] = "building" /\ WriteOutput(p) /\ MarkWrite(p)
      /\ UNCHANGED <<phase, graph, upToDate, force, projects, configs, loaded, persists, lost>>
      /\ source' = source /\ manifest' = manifest
      /\ \A q \in Projects \ {p} : task'[q] = task[q] /\ output'[q] = output[q]
      /\ overtaken \subseteq overtaken'
      /\ \A q \in Projects : q \in exposed => q \in exposed' \/ (q = p /\ Writes(p))
      /\ task'[p] # "building" /\ (task'[p] = "built" => FinishBuild(p) /\ p \in overtaken')
  BY ZenonT(60) DEF FinishBuild, FailBuild, WriteOutput, Inv, Types, TypeOK
<1>2. ManifestInv' /\ PersistsInv' /\ ForceInv' /\ FreshInv'
  BY <1>1, WriteFresh, ZenonT(60)
<1>3. BuildInv'
  <2>1. ASSUME NEW q \in Projects, task'[q] \in {"building", "built"}
        PROVE  /\ task[q] \in {"building", "built"}
               /\ [d \in graph[q] |-> output'[d]] = [d \in graph[q] |-> output[d]]
    <3>1. task[q] \in {"building", "built"}
      BY <1>1, <2>1, ZenonT(60)
    <3> QED
      BY <1>1, <3>1, WriteOthers, ZenonT(60)
  <2>2. p \notin exposed' /\ task'[p] = "built" =>
            /\ output'[p] = Emit(p, loaded[p].input)
            /\ ~loaded[p].selected => manifest[p].output = output'[p]
    BY <1>1, FinishRight, ZenonT(60)
  <2> SUFFICES ASSUME NEW q \in Projects PROVE BuildRight(q)'
    BY ZenonT(60) DEF BuildInv
  <2>3. BuildRight(q)
    BY ZenonT(60) DEF FInv, BuildInv
  <2>4. CASE q = p
    BY <1>1, <2>1, <2>2, <2>3, <2>4, ZenonT(60) DEF BuildRight
  <2>5. CASE q # p
    BY <1>1, <2>1, <2>3, <2>5, ZenonT(60) DEF BuildRight
  <2> QED
    BY <2>4, <2>5
<1> QED
  BY <1>2, <1>3, ZenonT(60) DEF FInv

LEMMA CallbackFresh ==
    ASSUME Inv, FInv, mode' = mode, NEW p \in Projects, Callback(p)
    PROVE  FInv'
<1>1. CASE FinishBuild(p) \/ FailBuild(p)
  BY <1>1, EndBuildFresh
<1>2. CASE Skip(p) \/ Block(p) \/ RejectBuild(p) \/ StartBuild(p)
  <2>1. /\ UNCHANGED <<source, output, manifest, phase, graph, upToDate, force, projects, configs, persists>>
        /\ UNCHANGED <<unsaved, behind, overtaken, exposed, lost>>
    BY <1>2, ZenonT(60) DEF Skip, Block, RejectBuild, StartBuild, disk, states, events, history
  <2>2. ManifestInv' /\ PersistsInv'
    BY <2>1, ManifestKept, PersistsKept, ZenonT(60) DEF FInv
  <2>3. ForceInv' /\ FreshInv'
    BY <2>1, FreshKept, ZenonT(60) DEF FInv, ForceInv
  <2>4. BuildInv'
    <3>1. CASE StartBuild(p)
      BY <3>1, StartBuildFresh
    <3>2. CASE ~StartBuild(p)
      <4>1. /\ loaded' = loaded
            /\ \A q \in Projects : task'[q] \in {"building", "built"} => task'[q] = task[q]
        BY <1>2, <3>2, ZenonT(60) DEF Skip, Block, RejectBuild, Inv, Types, TypeOK
      <4> QED
        BY <2>1, <4>1, BuildKept, ZenonT(60) DEF FInv
    <3> QED
      BY <3>1, <3>2
  <2> QED
    BY <2>2, <2>3, <2>4 DEF FInv
<1> QED
  BY <1>1, <1>2 DEF Callback

\* What a build that has ended well leaves to store.
LEMMA BuiltPersist ==
    ASSUME Inv, FInv, phase = "drain", NEW p \in Built
    PROVE  /\ PersistOf(p).project = p
           /\ PersistOf(p).current.files[2] = graph[p]
           /\ \A d \in graph[p] : d \in Built \/ upToDate[d]
           /\ p \notin exposed =>
                /\ PersistOf(p).current.output = output[p]
                /\ output[p] = Emit(p, InputOf(PersistOf(p).current))
                /\ p \notin projects => Fresh(p)
<1>1. p \in Projects /\ task[p] = "built"
  BY ZenonT(60) DEF Built
<1>2. /\ PersistOf(p).project = p
      /\ PersistOf(p).current.files[1] = loaded[p].input.own
      /\ PersistOf(p).current.files[2] = graph[p]
      /\ PersistOf(p).current.output = IF loaded[p].selected THEN Emit(p, loaded[p].input) ELSE manifest[p].output
  BY DEF PersistOf, Emitted
<1>3. /\ loaded[p].input = [own |-> loaded[p].input.own, deps |-> [d \in graph[p] |-> output[d]]]
      /\ p \in projects \/ loaded[p].input.own = source[p]
      /\ p \notin exposed =>
            /\ output[p] = Emit(p, loaded[p].input)
            /\ ~loaded[p].selected => manifest[p].output = output[p]
  BY <1>1, ZenonT(60) DEF FInv, BuildInv, BuildRight
<1>4. InputOf(PersistOf(p).current) = loaded[p].input
  BY <1>2, <1>3, ZenonT(60) DEF InputOf
<1>5. p \notin projects => Input(p) = loaded[p].input
  BY <1>3 DEF Input
<1>6. ASSUME NEW d \in graph[p] PROVE d \in Built \/ upToDate[d]
  <2>1. d \in Projects
    BY <1>1, ReferencesAreEarlier DEF Inv, Types, TypeOK
  <2> QED
    BY <1>1, <2>1, ZenonT(60) DEF Inv, CallbackInv, Built
<1> QED
  BY <1>2, <1>3, <1>4, <1>5, <1>6 DEF Fresh

LEMMA MergeFresh ==
    ASSUME Inv, FInv, PersistsType, mode' = mode, Merge
    PROVE  FInv'
<1>1. /\ phase = "drain" /\ \A p \in Projects : Settled(p)
      /\ upToDate' = [p \in Projects |-> upToDate[p] \/ p \in Built]
      /\ force' = [p \in Projects |-> force[p] /\ p \notin Built]
      /\ phase' = IF \E p \in Projects : task[p] \in {"failed", "blocked"} THEN Rest ELSE "persist"
      /\ UNCHANGED <<source, output, manifest, graph, projects, configs>>
      /\ UNCHANGED <<unsaved, behind, overtaken, exposed, lost>>
      /\ \A p \in Projects : task'[p] = "none"
  BY ZenonT(60) DEF Merge, disk, events, history, All
<1>2. BuildInv' /\ ManifestInv'
  BY <1>1, BuildNone, ManifestKept, ZenonT(60) DEF FInv
<1>3. \A p \in Projects : upToDate'[p] <=> upToDate[p] \/ p \in Built
  BY <1>1, ZenonT(60)
<1>4. PersistsInv'
  <2>1. PICK s, n, m : Merged(s, n, m)
    BY MergedPersists, ZenonT(60)
  <2> USE DEF Merged
  <2>6. phase' = "persist" => \A p \in Projects : upToDate'[p]
    <3>1. phase' = "persist" => \A p \in Projects : task[p] \notin {"failed", "blocked"}
      BY <1>1, ZenonT(60) DEF Rest
    <3>2. \A p \in Projects : task[p] \in {"built", "skipped", "failed", "blocked"}
      BY <1>1, ZenonT(60) DEF Settled, Inv, CallbackInv, Types, TypeOK
    <3>3. \A p \in Projects : task[p] \in {"built", "skipped"} => upToDate'[p]
      BY <1>3, ZenonT(60) DEF Inv, CallbackInv, Built
    <3> QED
      BY <3>1, <3>2, <3>3, ZenonT(60)
  <2>7. ASSUME NEW i \in DOMAIN persists'
        PROVE  /\ persists'[i].project \in Projects
               /\ persists'[i].current.files[2] = graph[persists'[i].project]
               /\ upToDate'[persists'[i].project] =>
                    /\ \A d \in graph[persists'[i].project] : upToDate'[d]
                    /\ LastAt(i)' /\ persists'[i].project \notin exposed =>
                        /\ persists'[i].current.output = output[persists'[i].project]
                        /\ output[persists'[i].project] = Emit(persists'[i].project, InputOf(persists'[i].current))
    <3> DEFINE p == persists'[i].project
    <3>1. ASSUME NEW q \in Built
          PROVE  q \in Projects /\ \A d \in graph[q] : upToDate'[d]
      <4>1. q \in Projects
        BY DEF Built
      <4>2. \A d \in graph[q] : d \in Projects
        BY <4>1, ReferencesAreEarlier DEF Inv, Types, TypeOK
      <4> QED
        BY <1>1, <1>3, <4>1, <4>2, BuiltPersist, ZenonT(60)
    <3>2. CASE i \notin 1 .. n
      <4>1. i - n \in 1 .. m /\ n + (i - n) = i
        BY <2>1, <2>7, <3>2
      <4>2. PICK q \in Built : persists'[i] = PersistOf(q)
        BY <2>1, <4>1, ZenonT(60)
      <4>3. p = q
        BY <4>2 DEF PersistOf
      <4> HIDE DEF p
      <4> QED
        BY <1>1, <3>1, <4>2, <4>3, BuiltPersist, ZenonT(60) DEF p
    <3>3. CASE i \in 1 .. n
      <4>1. i \in DOMAIN persists /\ persists'[i] = persists[i]
        BY <2>1, <3>3, ZenonT(60)
      <4>2. CASE p \in Built
        <5>1. PICK k \in 1 .. m : s[k] = PersistOf(p)
          BY <2>1, <4>2, ZenonT(60) DEF NewPersists
        <5>2. n + k \in DOMAIN persists' /\ n + k > i /\ persists'[n + k] = PersistOf(p)
          BY <2>1, <3>3, <5>1
        <5>3. PersistOf(p).project = p
          BY DEF PersistOf
        <5>4. ~LastAt(i)'
          BY <5>2, <5>3, ZenonT(60) DEF LastAt
        <5> QED
          BY <3>1, <4>1, <4>2, <5>4, ZenonT(60) DEF FInv, PersistsInv
      <4>3. CASE p \notin Built
        <5>1. LastAt(i)' => LastAt(i)
          <6>1. \A j \in DOMAIN persists : j \in DOMAIN persists' /\ persists'[j] = persists[j]
            BY <2>1
          <6> QED
            BY <4>1, <6>1, ZenonT(60) DEF LastAt
        <5>2. p \in Projects /\ graph[p] \subseteq Projects
          <6>1. p \in Projects
            BY <4>1, ZenonT(60) DEF FInv, PersistsInv
          <6> HIDE DEF p
          <6> QED
            BY <6>1, RefSetsAssumption DEF Inv, Types, TypeOK
        <5> QED
          BY <1>3, <4>1, <4>3, <5>1, <5>2, ZenonT(60) DEF FInv, PersistsInv
      <4> QED
        BY <4>2, <4>3
    <3> QED
      BY <3>2, <3>3
  <2>8. \A c : InputOf(c)' = InputOf(c)
    BY <1>1, ZenonT(60) DEF InputOf
  <2> QED
    BY <1>1, <2>6, <2>7, <2>8, ZenonT(60) DEF PersistsInv
<1>5. ForceInv'
  <2>1. ASSUME NEW p \in Projects \ (overtaken \cup lost) PROVE p \notin Built
    BY <2>1, ZenonT(60) DEF FInv, BuildInv, BuildRight, Built
  <2>2. \A p \in Projects \ (overtaken \cup lost) : force[p] => force'[p]
    BY <1>1, <2>1, ZenonT(60)
  <2>3. \A p \in Projects : graph[p] \subseteq Projects
    BY RefSetsAssumption DEF Inv, Types, TypeOK
  <2>4. \A p \in Projects : (\A d \in graph[p] : upToDate[d]) => \A d \in graph[p] : upToDate'[d]
    BY <1>3, <2>3, ZenonT(60)
  <2> QED
    BY <1>1, <2>2, <2>4, ZenonT(60) DEF FInv, ForceInv
<1>6. FreshInv'
  <2> SUFFICES ASSUME NEW p \in Projects \ (exposed \cup projects \cup configs \cup lost), upToDate'[p]
               PROVE  Fresh(p)'
    BY <1>1, ZenonT(60) DEF FreshInv
  <2>1. Fresh(p)
    BY <1>1, <1>3, BuiltPersist, ZenonT(60) DEF FInv, FreshInv
  <2> QED
    BY <1>1, <2>1, ZenonT(60) DEF Fresh, Input
<1> QED
  BY <1>2, <1>4, <1>5, <1>6 DEF FInv

LEMMA PersistFresh ==
    ASSUME Inv, FInv, PersistsType, mode' = mode, Persist
    PROVE  FInv'
<1> DEFINE e == Head(persists)
           p == e.project
           tail == Tail(persists)
           saved == manifest'[p] = e.current /\ p \notin {later.project : later \in ElementsOf(tail)}
           Mark(S) == IF saved THEN S \ {p} ELSE S \cup {p}
<1>1. /\ phase = "persist" /\ persists # <<>> /\ persists' = tail
      /\ manifest' = (IF e.current = e.previous THEN manifest ELSE [manifest EXCEPT ![p] = e.current])
      /\ unsaved' = Mark(unsaved) /\ behind' = Mark(behind) /\ overtaken' = Mark(overtaken)
      /\ UNCHANGED <<source, output, phase, graph, upToDate, force, projects, configs, task, loaded, exposed, lost>>
  BY ZenonT(60) DEF Persist, states, events
<1>2. 1 \in DOMAIN persists /\ e = persists[1]
  BY <1>1, HeadAndTail
<1>3. /\ \A i \in DOMAIN tail : i \in Nat /\ i + 1 \in DOMAIN persists /\ tail[i] = persists[i + 1]
      /\ \A j \in DOMAIN persists : j \in Nat /\ (j > 1 => j - 1 \in DOMAIN tail /\ tail[j - 1] = persists[j])
  BY <1>1, HeadAndTail, ZenonT(60)
<1>4. \A q \in Projects : upToDate[q]
  BY <1>1 DEF FInv, PersistsInv
<1>5. /\ p \in Projects /\ e.current.files[2] = graph[p] /\ graph[p] \subseteq Projects
      /\ LastAt(1) /\ p \notin exposed =>
            /\ e.current.output = output[p]
            /\ output[p] = Emit(p, InputOf(e.current))
  <2>1. p \in Projects
    BY <1>2, ZenonT(60) DEF FInv, PersistsInv
  <2>2. graph[p] \subseteq Projects
    BY <2>1, RefSetsAssumption, ZenonT(60) DEF Inv, Types, TypeOK
  <2> QED
    BY <1>2, <1>4, <2>1, <2>2, ZenonT(60) DEF FInv, PersistsInv
<1>6. saved => LastAt(1)
  BY <1>2, <1>3, ZenonT(60) DEF LastAt, ElementsOf
<1>7. /\ DOMAIN manifest' = Projects
      /\ \A q \in Projects \ {p} : manifest'[q] = manifest[q]
      /\ manifest'[p] = manifest[p] \/ manifest'[p] = e.current
  BY <1>1, <1>5 DEF FInv, ManifestInv
<1>8. /\ saved => p \notin unsaved' \cup behind' \cup overtaken'
      /\ ~saved => p \in unsaved' /\ p \in overtaken'
      /\ \A q \in Projects \ {p} : /\ q \in unsaved' <=> q \in unsaved
                                   /\ q \in behind' <=> q \in behind
                                   /\ q \in overtaken' <=> q \in overtaken
      /\ behind' \subseteq Projects
  BY <1>1, <1>5, ZenonT(60) DEF Inv, Types, TypeOK
<1>9. \A m : InputOf(m)' = InputOf(m)
  BY <1>1, ZenonT(60) DEF InputOf
<1>10. BuildInv'
  BY <1>1, BuildNone, ZenonT(60) DEF Inv, Types, TypeOK, All
<1>11. ManifestInv'
  <2>4. DOMAIN manifest' = Projects /\ UNCHANGED <<output, graph, exposed>>
    BY <1>1, <1>7, ZenonT(60)
  <2> SUFFICES ASSUME NEW q \in Projects, manifest'[q] # NoManifest
               PROVE  /\ manifest'[q].files[2] \subseteq Projects
                      /\ q \notin overtaken' => manifest'[q].files[2] = graph[q]
                      /\ q \notin exposed \cup unsaved' =>
                          /\ manifest'[q].output = output[q]
                          /\ q \notin behind' => manifest'[q].output = Emit(q, InputOf(manifest'[q]))
    BY <1>9, <2>4, ZenonT(60) DEF ManifestInv
  <2>1. CASE q # p
    BY <1>7, <1>8, <2>1, ZenonT(60) DEF FInv, ManifestInv
  <2>2. CASE q = p /\ saved
    BY <1>5, <1>6, <2>2, ZenonT(60)
  <2>3. CASE q = p /\ ~saved
    BY <1>5, <1>7, <1>8, <2>3, ZenonT(60) DEF FInv, ManifestInv
  <2> QED
    BY ZenonT(60), <2>1, <2>2, <2>3
<1>12. PersistsInv'
  <2> HIDE DEF tail, e, p
  <2>1. ASSUME NEW i \in DOMAIN tail
        PROVE  i + 1 \in DOMAIN persists /\ tail[i] = persists[i + 1] /\ (LastAt(i)' => LastAt(i + 1))
    <3> SUFFICES ASSUME LastAt(i)', NEW j \in DOMAIN persists, j > i + 1
                 PROVE  persists[j].project # persists[i + 1].project
      BY <1>3, ZenonT(60) DEF LastAt
    <3>1. i \in Nat /\ j \in Nat /\ tail[i] = persists[i + 1]
      BY ZenonT(60), <1>3
    <3>2. j - 1 \in DOMAIN tail /\ j - 1 > i /\ tail[j - 1] = persists[j]
      BY <1>3, <3>1
    <3> QED
      BY <1>1, <3>1, <3>2, ZenonT(60) DEF LastAt
  <2>2. ASSUME NEW i \in DOMAIN tail
        PROVE  /\ tail[i].project \in Projects
               /\ tail[i].current.files[2] = graph[tail[i].project]
               /\ \A d \in graph[tail[i].project] : upToDate[d]
               /\ LastAt(i)' /\ tail[i].project \notin exposed =>
                    /\ tail[i].current.output = output[tail[i].project]
                    /\ output[tail[i].project] = Emit(tail[i].project, InputOf(tail[i].current))
    <3> DEFINE k == i + 1
    <3>1. k \in DOMAIN persists /\ tail[i] = persists[k] /\ (LastAt(i)' => LastAt(k))
      BY <2>1
    <3> HIDE DEF k
    <3>2. persists[k].project \in Projects
      BY <3>1, ZenonT(60) DEF FInv, PersistsInv
    <3> QED
      BY <1>4, <3>1, <3>2, ZenonT(60) DEF FInv, PersistsInv
  <2> QED
    BY <1>1, <1>4, <1>9, <2>2, ZenonT(60) DEF PersistsInv
<1>13. ForceInv'
  <2>1. \A q \in Projects : \A d \in graph[q] : upToDate[d]
    BY <1>4, RefSetsAssumption DEF Inv, Types, TypeOK
  <2> HIDE DEF saved, p
  <2> QED
    BY <1>1, <1>5, <1>8, <2>1, ZenonT(60) DEF FInv, ForceInv
<1>14. FreshInv'
  BY <1>1, FreshKept, ZenonT(60) DEF FInv
<1> QED
  BY <1>10, <1>11, <1>12, <1>13, <1>14, ZenonT(60) DEF FInv

LEMMA ModeKept == [Next]_vars => mode' = mode
BY ZenonT(60) DEF Next, vars

LEMMA FreshnessNext == Inv /\ PersistsType /\ FInv /\ [Next]_vars => FInv'
<1> SUFFICES ASSUME Inv, PersistsType, FInv, [Next]_vars PROVE FInv'
  OBVIOUS
<1>1. CASE \E p \in Projects : Edit(p) \/ EditConfig(p)
  BY <1>1, EditFresh, ModeKept
<1>2. CASE StartOnce \/ StartWatch
  BY ZenonT(60), <1>2, StartFresh, ModeKept
<1>3. CASE Cycle \/ CycleReload \/ CycleReloadFails
  BY ZenonT(60), <1>3, CycleFresh, ModeKept
<1>4. CASE \E p \in Projects : Callback(p)
  BY <1>4, CallbackFresh, ModeKept
<1>5. CASE Merge
  BY <1>5, MergeFresh, ModeKept
<1>6. CASE Persist
  BY ZenonT(60), <1>6, PersistFresh, ModeKept
<1>7. CASE PersistFails \/ EndDrain
  <2>1. /\ UNCHANGED <<source, output, manifest, graph, upToDate, force, projects, configs, task, loaded, persists>>
        /\ UNCHANGED <<unsaved, behind, overtaken, exposed, lost>>
        /\ phase = "persist" /\ phase' \in {"idle", "done"}
    BY <1>7, ZenonT(60) DEF PersistFails, EndDrain, Rest, disk, states, events, history
  <2>2. ManifestInv' /\ PersistsInv' /\ FreshInv'
    BY <2>1, ManifestKept, PersistsKept, FreshKept, ZenonT(60) DEF FInv
  <2>3. BuildInv'
    BY <2>1, BuildNone DEF Inv, Types, TypeOK, All
  <2>4. ForceInv'
    BY <2>1, ModeKept, ZenonT(60) DEF FInv, ForceInv
  <2> QED
    BY <2>2, <2>3, <2>4 DEF FInv
<1>8. CASE Crash
  <2>1. /\ UNCHANGED <<output, manifest, graph, unsaved, behind, overtaken, exposed>>
        /\ phase' = "off" /\ persists' = <<>>
        /\ \A p \in Projects : ~upToDate'[p] /\ task'[p] = "none"
    BY <1>8 DEF Crash, disk, All
  <2>2. BuildInv' /\ ManifestInv' /\ PersistsInv'
    BY <2>1, BuildNone, ManifestKept, PersistsNone, ZenonT(60) DEF FInv
  <2>3. ForceInv' /\ FreshInv'
    BY <2>1, ZenonT(60) DEF FInv, ForceInv, FreshInv
  <2> QED
    BY <2>2, <2>3, ZenonT(60) DEF FInv
<1>9. CASE UNCHANGED vars
  <2>1. /\ UNCHANGED <<mode, source, output, manifest, phase, graph, upToDate, force, projects, configs>>
        /\ UNCHANGED <<task, loaded, persists, unsaved, behind, overtaken, exposed, lost>>
    BY <1>9, ZenonT(60) DEF vars, disk, states, events, history
  <2>2. BuildInv' /\ ManifestInv' /\ PersistsInv' /\ FreshInv'
    BY <2>1, BuildKept, ManifestKept, PersistsKept, FreshKept, ZenonT(60) DEF FInv
  <2>3. ForceInv'
    BY <2>1, ZenonT(60) DEF FInv, ForceInv
  <2> QED
    BY <2>2, <2>3 DEF FInv
<1> QED
  BY <1>1, <1>2, <1>3, <1>4, <1>5, <1>6, <1>7, <1>8, <1>9, ZenonT(60) DEF Next, Process
-------------------------------------------------------------------------------
(***************************************************************************)
(* What holds a project up.                                                *)
(***************************************************************************)
Reason(d) == ~Quiet(d) \/ Rejects(d, Input(d))

\* A failed callback has its reason and goes on having it, as its references
\* have settled; a blocked one has a failed one upstream.
ErrorInv ==
    "error" \notin mode.events =>
        /\ \A p \in Projects : task[p] = "failed" => Reason(p) /\ \A d \in graph[p] : Settled(d)
        /\ \A p \in Projects : task[p] = "blocked" => \E d \in Upstream(graph, p) : task[d] = "failed"
        /\ phase \in {"idle", "done", "persist"} =>
            \A p \in Projects : upToDate[p] \/ \E d \in {p} \cup Upstream(graph, p) : Reason(d)

\* References are upstream, and so is what is upstream of them.
LEMMA UpstreamOfReference ==
    ASSUME NEW g, \A r \in Projects : g[r] \in RefSets(r), NEW p \in Projects, NEW d \in g[p]
    PROVE  d \in Upstream(g, p) /\ Upstream(g, d) \subseteq Upstream(g, p)
<1>1. d \in Projects /\ d # p
  BY ReferencesAreEarlier
<1>2. d \in Upstream(g, p)
  BY <1>1, DependentsClosed, ZenonT(60) DEF Upstream
<1>3. ASSUME NEW e \in Upstream(g, d) PROVE e \in Upstream(g, p)
  <2>1. e \in Projects /\ d \in Dependents(g, e)
    BY <1>3 DEF Upstream
  <2>2. Position[e] < Position[d]
    BY <2>1, DependentsLater
  <2>3. Position[d] < Position[p]
    BY RefSetsAssumption
  <2>4. e # p
    BY <1>1, <2>1, <2>2, <2>3, PositionAssumption
  <2> QED
    BY <2>1, <2>4, DependentsClosed, ZenonT(60) DEF Upstream
<1> QED
  BY <1>2, <1>3

\* A reason lasts while what the project reads stays or its change is heard of.
LEMMA ReasonKept ==
    ASSUME NEW q \in Projects, Reason(q), graph' = graph,
           \A d \in graph[q] : output'[d] = output[d],
           Quiet(q)' => Quiet(q) /\ source'[q] = source[q]
    PROVE  Reason(q)'
<1>1. [d \in graph'[q] |-> output'[d]] = [d \in graph[q] |-> output[d]]
  BY ZenonT(60)
<1>2. Quiet(q)' => Input(q)' = Input(q)
  BY <1>1, ZenonT(60) DEF Input
<1> QED
  BY <1>2, ZenonT(60) DEF Reason

LEMMA ErrorKept ==
    ASSUME ErrorInv, TypeOK, UNCHANGED <<mode, output, graph, upToDate, task>>,
           phase' \in {"idle", "done", "persist"} => phase \in {"idle", "done", "persist"},
           phase # "off" => \A q \in Projects : Quiet(q)' => Quiet(q) /\ source'[q] = source[q]
    PROVE  ErrorInv'
<1> SUFFICES ASSUME "error" \notin mode.events
             PROVE  /\ \A p \in Projects : task[p] = "failed" => Reason(p)' /\ \A d \in graph[p] : Settled(d)'
                    /\ \A p \in Projects : task[p] = "blocked" => \E d \in Upstream(graph, p)' : task[d] = "failed"
                    /\ phase' \in {"idle", "done", "persist"} =>
                        \A p \in Projects : upToDate[p] \/ \E d \in {p} \cup Upstream(graph, p)' : Reason(d)'
  BY ZenonT(60) DEF ErrorInv
<1>1. \A q \in Projects : task[q] # "none" => phase # "off"
  BY DEF TypeOK, All
<1>2. \A q \in Projects : Reason(q) /\ phase # "off" => Reason(q)'
  BY ReasonKept, ZenonT(60)
<1>3. \A p \in Projects : task[p] = "failed" => Reason(p)' /\ \A d \in graph[p] : Settled(d)'
  BY <1>1, <1>2, ZenonT(60) DEF ErrorInv, Settled
<1>4. \A p \in Projects : Upstream(graph, p)' = Upstream(graph, p) /\ Upstream(graph, p) \subseteq Projects
  BY ZenonT(60) DEF Upstream, Dependents
<1>5. \A p \in Projects : task[p] = "blocked" => \E d \in Upstream(graph, p)' : task[d] = "failed"
  BY <1>4, ZenonT(60) DEF ErrorInv
<1>6. ASSUME phase' \in {"idle", "done", "persist"}, NEW p \in Projects, ~upToDate[p]
      PROVE  \E d \in {p} \cup Upstream(graph, p)' : Reason(d)'
  <2>1. phase \in {"idle", "done", "persist"} /\ phase # "off"
    BY <1>6
  <2>2. PICK d \in {p} \cup Upstream(graph, p) : Reason(d)
    BY <1>6, <2>1, ZenonT(60) DEF ErrorInv
  <2> QED
    BY <1>2, <1>4, <2>1, <2>2, ZenonT(60)
<1> QED
  BY <1>3, <1>5, <1>6, ZenonT(60)

LEMMA ErrorNone ==
    ASSUME \A p \in Projects : task'[p] \notin {"failed", "blocked"},
           phase' \in {"off", "drain"} \/ projects' = Projects
    PROVE  ErrorInv'
BY ZenonT(60) DEF ErrorInv, Reason, Quiet

LEMMA CallbackErrors ==
    ASSUME Inv, FInv, ErrorInv, mode' = mode, NEW p \in Projects, Callback(p)
    PROVE  ErrorInv'
<1> SUFFICES ASSUME "error" \notin mode.events PROVE ErrorInv'
  BY ZenonT(60) DEF ErrorInv
<1> USE DEF disk, states, events, history
<1>1. /\ UNCHANGED <<source, phase, graph, upToDate, projects, configs, lost>>
      /\ task[p] \in {"todo", "building"}
      /\ \A q \in Projects \ {p} : task'[q] = task[q] /\ output'[q] = output[q]
      /\ phase = "drain"
  <2>1. /\ UNCHANGED <<source, phase, graph, upToDate, projects, configs, lost>>
        /\ task[p] \in {"todo", "building"}
        /\ \A q \in Projects \ {p} : task'[q] = task[q] /\ output'[q] = output[q]
    BY ZenonT(60) DEF Callback, Skip, Block, StartBuild, FinishBuild, RejectBuild, FailBuild, MayRun, WriteOutput,
           Inv, Types, TypeOK
  <2> QED
    BY <2>1 DEF Inv, Types, TypeOK, All
<1>2. \A q \in Projects : graph[q] \subseteq Projects /\ graph[q] \in RefSets(q)
  BY RefSetsAssumption, ZenonT(60) DEF Inv, Types, TypeOK
<1>3. \A q \in Projects \ {p} : Settled(q) => Settled(q)'
  BY <1>1 DEF Settled
<1>4. ~Settled(p)
  BY <1>1 DEF Settled
<1>5. ASSUME NEW q \in Projects, Reason(q), \A d \in graph[q] : Settled(d)
      PROVE  Reason(q)' /\ \A d \in graph'[q] : Settled(d)'
  <2>1. \A d \in graph[q] : d \in Projects \ {p}
    BY <1>2, <1>4, <1>5, ZenonT(60)
  <2>2. Quiet(q)' => Quiet(q) /\ source'[q] = source[q]
    BY <1>1, ZenonT(60) DEF Quiet
  <2>3. \A d \in graph[q] : output'[d] = output[d]
    BY <1>1, <2>1, ZenonT(60)
  <2>4. graph' = graph
    BY <1>1
  <2>5. Reason(q)'
    BY <1>5, <2>2, <2>3, <2>4, ReasonKept, ZenonT(60)
  <2> QED
    BY <1>3, <1>5, <2>1, <2>4, <2>5, ZenonT(60)
<1>6. ASSUME NEW q \in Projects, task'[q] = "failed"
      PROVE  Reason(q)' /\ \A d \in graph'[q] : Settled(d)'
  <2>1. CASE q # p
    BY <1>1, <1>5, <1>6, <2>1, ZenonT(60) DEF ErrorInv
  <2>2. CASE q = p
    <3>1. RejectBuild(p)
      BY <1>6, <2>2, ZenonT(60) DEF Callback, Skip, Block, StartBuild, FinishBuild, FailBuild, MayRun, Inv, Types, TypeOK
    <3>2. task[p] = "building" /\ Rejects(p, loaded[p].input)
      BY <3>1, ZenonT(60) DEF RejectBuild, Accepted
    <3>3. \A d \in graph[p] : Settled(d)
      BY <3>2, ZenonT(60) DEF Inv, CallbackInv, Barriers
    <3>4. /\ loaded[p].input = [own |-> loaded[p].input.own, deps |-> [d \in graph[p] |-> output[d]]]
          /\ p \in projects \/ loaded[p].input.own = source[p]
      BY <3>2, ZenonT(60) DEF FInv, BuildInv, BuildRight
    <3>5. Reason(p)
      BY <3>2, <3>4, ZenonT(60) DEF Reason, Quiet, Input
    <3> QED
      BY <1>5, <2>2, <3>3, <3>5, ZenonT(60)
  <2> QED
    BY <2>1, <2>2
<1>7. \A q \in Projects : Upstream(graph, q)' = Upstream(graph, q) /\ Upstream(graph, q) \subseteq Projects
  BY <1>1, ZenonT(60) DEF Upstream, Dependents
<1>8. ASSUME NEW q \in Projects, task[q] = "blocked"
      PROVE  \E d \in Upstream(graph, q) : task'[d] = "failed"
  <2>1. PICK d \in Upstream(graph, q) : task[d] = "failed"
    BY <1>8, ZenonT(60) DEF ErrorInv
  <2> QED
    BY <1>1, <1>7, <2>1, ZenonT(60)
<1>9. ASSUME NEW q \in Projects, task'[q] = "blocked"
      PROVE  \E d \in Upstream(graph, q)' : task'[d] = "failed"
  <2>1. CASE q # p
    BY <1>1, <1>7, <1>8, <1>9, <2>1, ZenonT(60)
  <2>2. CASE q = p
    <3>1. Block(p)
      BY <1>9, <2>2, ZenonT(60) DEF Callback, Skip, RejectBuild, StartBuild, FinishBuild, FailBuild, MayRun, Inv, Types, TypeOK
    <3>2. PICK d \in graph[p] : task[d] \in {"failed", "blocked"}
      BY <3>1, ZenonT(60) DEF Block, Failed
    <3>3. d \in Projects /\ d # p /\ d \in Upstream(graph, p) /\ Upstream(graph, d) \subseteq Upstream(graph, p)
      BY <1>2, UpstreamOfReference, ReferencesAreEarlier, ZenonT(60)
    <3>4. CASE task[d] = "failed"
      BY <1>1, <1>7, <2>2, <3>3, <3>4, ZenonT(60)
    <3>5. CASE task[d] = "blocked"
      BY <1>7, <1>8, <2>2, <3>3, <3>5, ZenonT(60)
    <3> QED
      BY <3>2, <3>4, <3>5, ZenonT(60)
  <2> QED
    BY <2>1, <2>2
<1> QED
  BY <1>1, <1>6, <1>9, ZenonT(60) DEF ErrorInv

\* The merge: what is not up to date has failed or was blocked.
LEMMA MergeErrors ==
    ASSUME Inv, ErrorInv, mode' = mode, Merge
    PROVE  ErrorInv'
<1> SUFFICES ASSUME "error" \notin mode.events PROVE ErrorInv'
  BY ZenonT(60) DEF ErrorInv
<1>1. /\ UNCHANGED <<source, output, graph, projects, configs, lost>>
      /\ phase = "drain" /\ \A p \in Projects : task'[p] = "none"
      /\ \A p \in Projects : upToDate'[p] = (upToDate[p] \/ p \in Built)
      /\ \A p \in Projects : Settled(p)
  BY ZenonT(60) DEF Merge, disk, events, history, All
<1>2. \A q \in Projects : Reason(q) => Reason(q)'
  <2> SUFFICES ASSUME NEW q \in Projects, Reason(q) PROVE Reason(q)'
    OBVIOUS
  <2>1. Quiet(q)' => Quiet(q) /\ source'[q] = source[q]
    BY <1>1, ZenonT(60) DEF Quiet
  <2> QED
    BY <1>1, <2>1, ReasonKept, ZenonT(60)
<1>3. \A p \in Projects : Upstream(graph, p)' = Upstream(graph, p) /\ Upstream(graph, p) \subseteq Projects
  BY <1>1, ZenonT(60) DEF Upstream, Dependents
<1>4. ASSUME NEW p \in Projects, ~upToDate'[p]
      PROVE  \E d \in {p} \cup Upstream(graph, p)' : Reason(d)'
  <2>1. task[p] \in {"failed", "blocked"}
    <3>1. task[p] \in TaskStates /\ task[p] # "none" /\ task[p] # "skipped" /\ task[p] # "built"
      BY <1>1, <1>4, ZenonT(60) DEF Inv, Types, TypeOK, CallbackInv, Built
    <3> QED
      BY <1>1, <3>1 DEF Settled
  <2>2. PICK d \in {p} \cup Upstream(graph, p) : task[d] = "failed"
    BY <2>1, ZenonT(60) DEF ErrorInv
  <2>3. d \in Projects /\ Reason(d)
    BY <1>3, <2>2, ZenonT(60) DEF ErrorInv
  <2> QED
    BY <1>2, <1>3, <2>2, <2>3, ZenonT(60)
<1> QED
  BY <1>1, <1>4, ZenonT(60) DEF ErrorInv

LEMMA ErrorInit == Init => ErrorInv
BY DEF Init, ErrorInv, All

LEMMA ErrorNext == Inv /\ FInv /\ ErrorInv /\ [Next]_vars => ErrorInv'
<1> SUFFICES ASSUME Inv, FInv, ErrorInv, [Next]_vars PROVE ErrorInv'
  OBVIOUS
<1> USE ModeKept DEF disk, states, events, history
<1>1. TypeOK
  BY DEF Inv, Types
<1>2. ASSUME NEW p \in Projects, Edit(p) \/ EditConfig(p) PROVE ErrorInv'
  <2>1. /\ UNCHANGED <<output, phase, graph, upToDate, task, lost>>
        /\ projects \subseteq projects' /\ configs \subseteq configs'
        /\ phase # "off" => \A q \in Projects : q \in projects' \/ source'[q] = source[q]
    <3>1. CASE Edit(p)
      BY <3>1, ZenonT(60) DEF Edit, Inv, Types, TypeOK
    <3>2. CASE EditConfig(p)
      BY <3>2 DEF EditConfig
    <3> QED
      BY <1>2, <3>1, <3>2, ZenonT(60)
  <2>2. phase # "off" => \A q \in Projects : Quiet(q)' => Quiet(q) /\ source'[q] = source[q]
    BY <2>1, ZenonT(60) DEF Quiet
  <2> QED
    BY <1>1, <2>1, <2>2, ErrorKept, ZenonT(60)
<1>3. CASE StartOnce \/ Cycle \/ CycleReload
  <2>1. phase' = "drain" /\ \A p \in Projects : task'[p] = "todo"
    BY <1>3 DEF StartOnce, Cycle, CycleReload, BeginDrain, All
  <2> QED
    BY <2>1, ErrorNone
<1>4. CASE StartWatch
  <2>1. projects' = Projects /\ \A p \in Projects : task'[p] = "none"
    BY <1>1, <1>4 DEF StartWatch, TypeOK, All
  <2> QED
    BY <2>1, ErrorNone
<1>5. CASE CycleReloadFails \/ Persist \/ PersistFails \/ EndDrain
  <2>1. /\ UNCHANGED <<source, output, graph, upToDate, task>>
        /\ phase \in {"idle", "persist"}
        /\ projects \cup configs \cup lost \subseteq projects' \cup configs' \cup lost'
    BY <1>5 DEF CycleReloadFails, Persist, PersistFails, EndDrain
  <2>2. \A q \in Projects : Quiet(q)' => Quiet(q) /\ source'[q] = source[q]
    BY <2>1, ZenonT(60) DEF Quiet
  <2> QED
    BY <1>1, <2>1, <2>2, ErrorKept, ZenonT(60)
<1>6. CASE Crash
  <2>1. phase' = "off" /\ \A p \in Projects : task'[p] = "none"
    BY <1>6 DEF Crash, All
  <2> QED
    BY <2>1, ErrorNone
<1>7. CASE UNCHANGED vars
  <2>1. UNCHANGED <<source, output, graph, upToDate, task, phase, projects, configs, lost>>
    BY <1>7 DEF vars
  <2>2. \A q \in Projects : Quiet(q)' => Quiet(q) /\ source'[q] = source[q]
    BY <2>1, ZenonT(60) DEF Quiet
  <2> QED
    BY <1>1, <2>1, <2>2, ErrorKept, ZenonT(60)
<1>8. CASE \E p \in Projects : Callback(p)
  BY <1>8, CallbackErrors
<1>9. CASE Merge
  BY <1>9, MergeErrors
<1> QED
  BY <1>2, <1>3, <1>4, <1>5, <1>6, <1>7, <1>8, <1>9, ZenonT(60) DEF Next, Process
-------------------------------------------------------------------------------
\* The inductive invariant gives the properties.
LEMMA InvImplies == Inv => TypeOK /\ StableInputs /\ ExclusiveWriters /\ UpToDateClosed
<1> SUFFICES ASSUME Inv PROVE TypeOK /\ StableInputs /\ ExclusiveWriters /\ UpToDateClosed
  BY ZenonT(60)
<1>1. TypeOK
  BY DEF Inv, Types
<1>2. StableInputs
  <2> SUFFICES ASSUME NEW p \in Projects, task[p] = "building", NEW d \in graph[p]
               PROVE  Settled(d) /\ output[d] = loaded[p].input.deps[d]
    BY DEF StableInputs
  <2>1. loaded[p].input.deps = [e \in graph[p] |-> output[e]]
    BY SMTT(60) DEF Inv, CallbackInv
  <2>2. Settled(d)
    BY ZenonT(60) DEF Inv, CallbackInv, Barriers
  <2> QED
    BY <2>1, <2>2
<1>3. ExclusiveWriters
  <2> SUFFICES ASSUME NEW p \in Projects, NEW q \in Projects, p # q, <<p, q>> \in Overlapping,
                      task[p] = "building", task[q] = "building"
               PROVE  FALSE
    BY DEF ExclusiveWriters
  <2>1. <<q, p>> \in Overlapping
    BY OverlappingAssumption
  <2>2. Position[p] < Position[q] \/ Position[q] < Position[p]
    BY PositionAssumption
  <2>3. p \in Barriers(q) \/ q \in Barriers(p)
    BY <2>1, <2>2 DEF Barriers
  <2> QED
    BY <2>3, ZenonT(60) DEF Inv, CallbackInv, Settled
<1>4. UpToDateClosed
  BY DEF Inv, GraphInv, UpToDateClosed
<1> QED
  BY <1>1, <1>2, <1>3, <1>4

\* The coordinator's variables keep their types, and it never works with
\* references that failed to load.
THEOREM TypeCorrect == Spec => []TypeOK
BY InvInit, InvNext, PersistsTypeInit, PersistsTypeNext, InvImplies, PTL DEF Spec

\* A build of Drain reads outputs of its references that no build is writing
\* and that stay as they are until it ends.
THEOREM InputsAreStable == Spec => []StableInputs
BY InvInit, InvNext, PersistsTypeInit, PersistsTypeNext, InvImplies, PTL DEF Spec

\* deriveWaitOnlyDependencies keeps builds with overlapping write roots apart.
THEOREM WritersExclude == Spec => []ExclusiveWriters
BY InvInit, InvNext, PersistsTypeInit, PersistsTypeNext, InvImplies, PTL DEF Spec

\* Between drains the up-to-date states of the coordinator are closed under
\* references: no project counts as up to date above one that has to be built.
THEOREM UpToDateIsClosed == Spec => []UpToDateClosed
BY InvInit, InvNext, PersistsTypeInit, PersistsTypeNext, InvImplies, PTL DEF Spec

\* Between drains of the watch or after a build, a project that counts as up to
\* date has the output of its text and of what it references, for every
\* compiler, unless its change waits or was forgotten or it is exposed.
THEOREM FreshnessHolds == Spec => []FreshUnlessExposed
<1>1. FInv => FreshUnlessExposed
  BY ZenonT(60) DEF FInv, FreshInv, FreshUnlessExposed, Quiet
<1> QED
  BY <1>1, InvInit, InvNext, PersistsTypeInit, PersistsTypeNext, FreshnessInit, FreshnessNext, PTL DEF Spec

\* Between drains, a project that Drain has not brought up to date has an error
\* in its own text or in one upstream, as these are now, unless a change is still
\* to come or was forgotten: the part of EventuallySettled that a proof without
\* fairness can have.
THEOREM ErrorsAloneHoldUp == Spec => []HeldUpByErrors
<1>1. ErrorInv => HeldUpByErrors
  BY ZenonT(60) DEF ErrorInv, HeldUpByErrors, AtRest, Reason
<1> QED
  BY <1>1, InvInit, InvNext, PersistsTypeInit, PersistsTypeNext, FreshnessInit, FreshnessNext, ErrorInit, ErrorNext, PTL DEF Spec

\* Until every callback has settled, one is building or may run.
DrainCanStep ==
    phase = "drain" =>
        \/ \A p \in Projects : Settled(p)
        \/ \E p \in Projects : task[p] = "building" \/ MayRun(p)

\* Drain never gets stuck, whatever the graph and the write roots are: the first
\* project in the order of the graph that has not settled waits for none of the
\* others (deriveWaitOnlyDependencies lets the later project wait).
THEOREM DrainNeverStuck == Spec => []DrainCanStep
<1>1. ASSUME TypeOK, phase = "drain", NEW q \in Projects, ~Settled(q)
      PROVE  \E p \in Projects : task[p] = "building" \/ MayRun(p)
  <2> DEFINE Open == {Position[r] : r \in {t \in Projects : ~Settled(t)}}
  <2>1. Open \subseteq Nat /\ Open # {}
    BY <1>1, PositionAssumption
  <2>2. \E x \in Open : \A y \in Open : x <= y
    <3> HIDE DEF Open
    <3> QED
      BY <2>1, LeastNatural, ZenonT(60)
  <2>3. PICK p \in Projects : ~Settled(p) /\ \A r \in Projects : ~Settled(r) => Position[p] <= Position[r]
    BY <2>2
  <2>4. ASSUME NEW r \in Barriers(p) PROVE Settled(r)
    <3>1. r \in Projects /\ Position[r] < Position[p]
      BY <1>1, RefSetsAssumption DEF Barriers, TypeOK
    <3> QED
      BY <2>3, <3>1, PositionAssumption
  <2>5. task[p] \in {"todo", "building"}
    BY <2>3 DEF Settled
  <2> QED
    BY <1>1, <2>4, <2>5, ZenonT(60) DEF MayRun
<1>2. TypeOK => DrainCanStep
  BY <1>1, ZenonT(60) DEF DrainCanStep
<1> QED
  BY <1>2, TypeCorrect, PTL

Draining == phase \in {"drain", "persist"}

\* A callback's way to its outcome.
Stage(t) == CASE t = "todo" -> 1 [] t = "building" -> 2 [] OTHER -> 3

\* Nearer to the end of the drain: a callback goes on and the others stay, or a
\* deferred persist is carried out, or the drain goes over to its persists or ends.
Nearer ==
    \/ /\ phase = "drain" /\ phase' = phase /\ persists' = persists
       /\ \E p \in Projects : Stage(task'[p]) > Stage(task[p]) /\ \A q \in Projects \ {p} : task'[q] = task[q]
    \/ phase = "persist" /\ phase' = phase /\ persists # <<>> /\ persists' = Tail(persists)
    \/ phase = "drain" /\ phase' = "persist"
    \/ phase' \in {"idle", "done", "off"}

\* Every step of Drain comes nearer to its end, and no edit takes it back: a
\* settled callback is not called again, a failed persist ends the drain, and
\* nothing is deferred while the deferred persists are carried out.  By
\* DrainNeverStuck the callbacks do not end before all have settled.
THEOREM DrainAdvances ==
    Spec => [][Draining => Nearer \/ (~Process /\ UNCHANGED <<phase, task, persists>>)]_vars
<1> DEFINE Advance ==
        Draining => Nearer \/ (~Process /\ UNCHANGED <<phase, task, persists>>)
<1>1. /\ Stage("building") > Stage("todo") /\ Stage("skipped") > Stage("todo") /\ Stage("blocked") > Stage("todo")
      /\ Stage("built") > Stage("building") /\ Stage("failed") > Stage("building")
  BY DEF Stage
<1>2. ASSUME TypeOK, Draining, NEW p \in Projects, Callback(p) PROVE Nearer
  <2>1. task[p] # "none" /\ phase' = phase /\ persists' = persists
    BY <1>2, ZenonT(60) DEF Callback, Skip, Block, StartBuild, FinishBuild, RejectBuild, FailBuild, MayRun
  <2>2. phase = "drain"
    BY <1>2, <2>1, ZenonT(60) DEF TypeOK, All
  <2>3. DOMAIN task = Projects
    BY <1>2, ZenonT(60) DEF TypeOK
  <2>4. \A q \in Projects \ {p} : task'[q] = task[q]
    BY <1>2, <2>3, ZenonT(60) DEF Callback, Skip, Block, StartBuild, FinishBuild, RejectBuild, FailBuild
  <2>5. \/ task[p] = "todo" /\ task'[p] \in {"skipped", "blocked", "building"}
        \/ task[p] = "building" /\ task'[p] \in {"built", "failed"}
    BY <1>2, <2>3, ZenonT(60) DEF Callback, Skip, Block, StartBuild, FinishBuild, RejectBuild, FailBuild, MayRun
  <2>6. Stage(task'[p]) > Stage(task[p])
    BY <1>1, <2>5, ZenonT(60)
  <2> QED
    BY <2>1, <2>2, <2>4, <2>6, ZenonT(60) DEF Nearer
<1>3. ASSUME Merge \/ PersistFails \/ EndDrain \/ Crash PROVE Nearer
  BY <1>3, ZenonT(60) DEF Merge, PersistFails, EndDrain, Crash, Rest, Nearer
<1>4. ASSUME Persist PROVE Nearer
  BY <1>4, ZenonT(60) DEF Persist, Nearer
<1>5. ASSUME StartOnce \/ StartWatch \/ Cycle \/ CycleReload \/ CycleReloadFails
      PROVE  ~Draining
  BY <1>5, ZenonT(60) DEF Draining, StartOnce, StartWatch, Cycle, CycleReload, CycleReloadFails
<1>6. ASSUME NEW p \in Projects, Edit(p) \/ EditConfig(p) PROVE UNCHANGED <<phase, task, persists>>
  BY <1>6, ZenonT(60) DEF Edit, EditConfig
<1>7. ASSUME TypeOK, Next PROVE Advance
  <2> SUFFICES ASSUME Draining
               PROVE  Nearer \/ (~Process /\ UNCHANGED <<phase, task, persists>>)
    BY Zenon
  <2>1. Process => Nearer
    BY <1>2, <1>3, <1>4, <1>5, <1>7, ZenonT(60) DEF Process
  <2>2. ~Process => Nearer \/ UNCHANGED <<phase, task, persists>>
    BY <1>3, <1>6, <1>7, ZenonT(60) DEF Next
  <2> QED
    BY <2>1, <2>2, Zenon
<1>8. TypeOK /\ [Next]_vars => [Advance]_vars
  BY <1>7, ZenonT(60)
<1> HIDE DEF Advance
<1>9. Spec => [][Advance]_vars
  BY <1>8, TypeCorrect, PTL DEF Spec
<1> QED
  BY <1>9, Zenon DEF Advance
===============================================================================
