------------------------- MODULE SolutionCoordinator -------------------------
(***************************************************************************)
(* A solution of projects that reference each other: SolutionCoordinator   *)
(* (internal/compile/solution.go) with its drainer (solution_drain.go), as *)
(* `rotor build --build` runs it once and as the solution watch runs it    *)
(* in cycles (cmd/rotor/solution_watch.go).                                *)
(*                                                                         *)
(* A project is one source text and one output here; IncrementalBuild is   *)
(* about the files within a project.  What a build reads is the project's  *)
(* text and the outputs (the declarations) of the projects it references.  *)
(* The worker pool is what SolutionScheduler shows it to be: each callback *)
(* runs once, after its barriers.                                          *)
(***************************************************************************)
EXTENDS Integers, Sequences, FiniteSets

CONSTANTS
    Projects,
    Position,           \* the post-order of the graph: references come first
    Overlapping,        \* pairs of projects whose write roots overlap
    RefSets(_),         \* RefSets(p): what the references of p may be
    Texts(_),           \* Texts(p): what the source of p may be
    Emit(_, _),         \* Emit(p, i): the output of p when the build reads i
    Rejects(_, _),      \* Rejects(p, i): p has errors when the build reads i
    NoOutput,
    NoManifest,
    Broken,             \* references that cannot be loaded: unreadable or circular
    Modes,              \* see mode
    MaxPersists         \* bound on the deferred persists

ASSUME PositionAssumption ==
    /\ IsFiniteSet(Projects)
    /\ Position \in [Projects -> Nat]
    /\ \A p, q \in Projects : Position[p] = Position[q] => p = q

ASSUME RefSetsAssumption ==
    \A p \in Projects : \A R \in RefSets(p) :
        R \subseteq {d \in Projects : Position[d] < Position[p]}

ASSUME OverlappingAssumption == \A pair \in Overlapping : <<pair[2], pair[1]>> \in Overlapping

VARIABLES
    mode,               \* how the solution is built: by the watch or by one
                        \* process per build, and what else happens: "crash",
                        \* "error", "persist", "relink", "config"
    source, refs,       \* on disk: each project's text and references
    output, manifest,   \* on disk: what builds have written
    phase,              \* what the process does
    graph,              \* the references it has loaded
    upToDate, force,    \* the coordinator's states
    projects, configs,  \* changed since the last cycle of the watch took them
    task,               \* task[p]: how far the callback of p is
    loaded,             \* loaded[p]: what the build of p has read
    persists,           \* the deferred persists
    unsaved,            \* history: outputs written with no manifest stored since
    behind,             \* history: manifests older than an output they rest on
    overtaken,          \* history: built, or references changed, with no manifest
                        \* stored since
    exposed,            \* history: see FreshUnlessExposed
    lost                \* history: changed projects that a failed reload forgot

disk == <<source, refs, output, manifest>>

states == <<graph, upToDate, force>>

events == <<projects, configs>>

history == <<unsaved, behind, overtaken, exposed, lost>>

vars == <<mode, disk, phase, states, events, task, loaded, persists, history>>

All(v) == [p \in Projects |-> v]

ElementsOf(s) == {s[i] : i \in DOMAIN s}

NotLoaded == [selected |-> FALSE]
-------------------------------------------------------------------------------
(***************************************************************************)
(* Plausible mistakes in the code below; none of them is part of the       *)
(* model.                                                                  *)
(***************************************************************************)

\* Only the projects that reference p directly.
DependentsDirect(g, p) == {q \in Projects : p \in g[q]}

\* Projects wait for their references only.
BarriersReferences(p) == graph[p]

\* Nothing is waited for but overlapping write roots.
BarriersWriteRoots(p) == {q \in Projects : Position[q] < Position[p] /\ <<q, p>> \in Overlapping}

\* A project that is waited for blocks like a reference when it fails.
FailedBarriers(p) ==
    {d \in graph[p] \cup BarriersWriteRoots(p) : task[d] \in {"failed", "blocked"}}

\* A build whose reference has failed never settles.
SettledUnblocked(p) == task[p] \notin {"todo", "building", "blocked"}
-------------------------------------------------------------------------------
(***************************************************************************)
(* Invalidate: the projects that depend on p, itself excluded.             *)
(***************************************************************************)
Dependents(g, p) ==
    {q \in Projects \ {p} : \A S \in SUBSET Projects :
        p \in S /\ (\A r \in Projects : g[r] \cap S # {} => r \in S) => q \in S}

\* One call per project of S.  Only a project downstream of another one is
\* forced to build in full, and no call takes the flag back.
Invalidate(g, S) ==
    LET downstream == UNION {Dependents(g, p) : p \in S} IN
    /\ upToDate' = [p \in Projects |-> upToDate[p] /\ p \notin S \cup downstream]
    /\ force' = [p \in Projects |-> force[p] \/ p \in downstream]

BeginDrain ==
    /\ phase' = "drain"
    /\ task' = All("todo")
    /\ loaded' = All(NotLoaded)

\* The graph is read again.
LoadGraph ==
    /\ graph' = refs
    /\ overtaken' = overtaken \cup {p \in Projects : refs[p] # graph[p]}

\* The states of a new coordinator.
NewCoordinator ==
    /\ LoadGraph
    /\ upToDate' = All(FALSE)
    /\ force' = All(FALSE)
    /\ persists' = <<>>
    /\ lost' = {}

Init ==
    /\ mode \in Modes
    /\ source \in [Projects -> UNION {Texts(p) : p \in Projects}]
    /\ \A p \in Projects : source[p] \in Texts(p)
    /\ refs \in [Projects -> UNION {RefSets(p) : p \in Projects}]
    /\ \A p \in Projects : refs[p] \in RefSets(p)
    /\ output = All(NoOutput)
    /\ manifest = All(NoManifest)
    /\ phase = "off"
    /\ graph = refs
    /\ upToDate = All(FALSE)
    /\ force = All(FALSE)
    /\ projects = {}
    /\ configs = {}
    /\ task = All("none")
    /\ loaded = All(NotLoaded)
    /\ persists = <<>>
    /\ unsaved = {}
    /\ behind = {}
    /\ overtaken = {}
    /\ exposed = {}
    /\ lost = {}

(***************************************************************************)
(* The user.  A watch hears of edits while it runs; for a single build the *)
(* two sets only tell what it cannot have seen.                            *)
(***************************************************************************)
Edit(p) ==
    /\ Len(persists) < MaxPersists
    /\ \E t \in Texts(p) \ {source[p]} : source' = [source EXCEPT ![p] = t]
    /\ projects' = IF phase # "off" THEN projects \cup {p} ELSE projects
    /\ UNCHANGED <<refs, output, manifest, phase, states, configs, task, loaded, persists, history>>

EditConfig(p) ==
    /\ \E R \in (IF "relink" \in mode.events THEN RefSets(p) ELSE {graph[p]})
                  \cup (IF "config" \in mode.events THEN {Broken} ELSE {}) :
        R # refs[p] /\ refs' = [refs EXCEPT ![p] = R]
    /\ configs' = IF phase # "off" THEN configs \cup {p} ELSE configs
    /\ UNCHANGED <<source, output, manifest, phase, states, projects, task, loaded, persists, history>>
-------------------------------------------------------------------------------
(***************************************************************************)
(* The process.                                                            *)
(***************************************************************************)
Loadable == \A p \in Projects : refs[p] # Broken

\* BuildSolutionWithOptions.
StartOnce ==
    /\ ~mode.watch
    /\ phase \in {"off", "done"}
    /\ Loadable
    /\ NewCoordinator
    /\ projects' = {}
    /\ configs' = {}
    /\ BeginDrain
    /\ UNCHANGED <<disk, unsaved, behind, exposed>>

\* runBuildSolutionWatch: every project counts as changed at first.
StartWatch ==
    /\ mode.watch
    /\ phase = "off"
    /\ Loadable
    /\ NewCoordinator
    /\ projects' = Projects
    /\ phase' = "idle"
    /\ UNCHANGED <<disk, configs, task, loaded, unsaved, behind, exposed>>

\* A cycle of the watch without a changed tsconfig.
Cycle ==
    /\ mode.watch
    /\ phase = "idle"
    /\ configs = {}
    /\ projects # {}
    /\ Invalidate(graph, projects)
    /\ projects' = {}
    /\ BeginDrain
    /\ UNCHANGED <<disk, graph, configs, persists, history>>

\* A cycle with one.  Reload keeps the states and makes a new drainer, which
\* has no deferred persists.
CycleReload ==
    /\ mode.watch
    /\ phase = "idle"
    /\ configs # {}
    /\ Loadable
    /\ LoadGraph
    /\ persists' = <<>>
    /\ Invalidate(refs, projects \cup configs)
    /\ projects' = {}
    /\ configs' = {}
    /\ BeginDrain
    /\ UNCHANGED <<disk, unsaved, behind, exposed, lost>>

\* The cycle ends where the reload fails; its events are gone.
CycleReloadFails ==
    /\ mode.watch
    /\ phase = "idle"
    /\ configs # {}
    /\ ~Loadable
    /\ projects' = {}
    /\ configs' = {}
    /\ lost' = lost \cup projects \cup configs
    /\ UNCHANGED <<disk, phase, states, task, loaded, persists, unsaved, behind, overtaken, exposed>>
-------------------------------------------------------------------------------
(***************************************************************************)
(* Drain: the callbacks.                                                   *)
(***************************************************************************)
Settled(p) == task[p] \notin {"todo", "building"}

\* The references and, wait-only, the earlier projects that write to the same
\* places.
Barriers(p) ==
    graph[p] \cup {q \in Projects : Position[q] < Position[p] /\ <<q, p>> \in Overlapping}

Failed(p) == {d \in graph[p] : task[d] \in {"failed", "blocked"}}

MayRun(p) ==
    /\ phase = "drain"
    /\ task[p] = "todo"
    /\ \A q \in Barriers(p) : Settled(q)

Skip(p) ==
    /\ MayRun(p)
    /\ upToDate[p]
    /\ task' = [task EXCEPT ![p] = "skipped"]
    /\ UNCHANGED <<disk, phase, states, events, loaded, persists, history>>

Block(p) ==
    /\ MayRun(p)
    /\ ~upToDate[p]
    /\ Failed(p) # {}
    /\ task' = [task EXCEPT ![p] = "blocked"]
    /\ UNCHANGED <<disk, phase, states, events, loaded, persists, history>>

\* What the manifest keeps of the program: its text and, since a reference
\* decides which files are the project's own, its references; not what these
\* have put out.
Files(p) == <<source[p], graph[p]>>

Input(p) == [own |-> source[p], deps |-> [d \in graph[p] |-> output[d]]]

\* Mistake: the rebuild of a dependent goes by its manifest.
SelectedByManifest(p) ==
    \/ manifest[p] = NoManifest
    \/ manifest[p].files # Files(p)
    \/ manifest[p].output # NoOutput /\ output[p] = NoOutput

\* Whether the build compiles the project; see IncrementalBuild!Selection.
Selected(p) ==
    \/ force[p]
    \/ manifest[p] = NoManifest
    \/ manifest[p].files # Files(p)
    \/ manifest[p].output # NoOutput /\ output[p] = NoOutput

\* A build loads the program and the manifest.
StartBuild(p) ==
    /\ MayRun(p)
    /\ ~upToDate[p]
    /\ Failed(p) = {}
    /\ task' = [task EXCEPT ![p] = "building"]
    /\ loaded' = [loaded EXCEPT ![p] = [selected |-> Selected(p), input |-> Input(p)]]
    /\ UNCHANGED <<disk, phase, states, events, persists, history>>

Accepted(p) == loaded[p].selected => ~Rejects(p, loaded[p].input)

Emitted(p) == Emit(p, loaded[p].input)

\* The write, unless the manifest has this output and there is one.
Writes(p) ==
    /\ loaded[p].selected
    /\ ~(manifest[p] # NoManifest /\ manifest[p].output = Emitted(p) /\ output[p] # NoOutput)

WriteOutput(p) ==
    /\ output' = IF Writes(p) THEN [output EXCEPT ![p] = Emitted(p)] ELSE output
    /\ UNCHANGED <<source, refs, manifest>>

\* What a write makes of the manifests: that of p is older than its output, and
\* those that rest on p are older than what they rest on.
MarkWrite(p) ==
    /\ unsaved' = IF Writes(p) THEN unsaved \cup {p} ELSE unsaved
    /\ behind' = IF Writes(p)
                 THEN behind \cup {q \in Projects : manifest[q] # NoManifest /\ p \in manifest[q].files[2]}
                 ELSE behind

\* A build that compiles nothing takes an outdated manifest for a good one.  In
\* a watch the force flag prevents that, but for a project that was built, or
\* whose references changed, in between, and for one that was forgotten.
Outdated(p) ==
    IF loaded[p].selected THEN {}
    ELSE IF mode.watch THEN behind \cap (overtaken \cup lost)
    ELSE behind

FinishBuild(p) ==
    /\ task[p] = "building"
    /\ Accepted(p)
    /\ WriteOutput(p)
    /\ task' = [task EXCEPT ![p] = "built"]
    /\ MarkWrite(p)
    /\ exposed' = IF Writes(p) THEN exposed \ {p}
                  ELSE exposed \cup ({p} \cap (unsaved \cup Outdated(p)))
    /\ overtaken' = overtaken \cup {p}
    /\ UNCHANGED <<phase, states, events, loaded, persists, lost>>

RejectBuild(p) ==
    /\ task[p] = "building"
    /\ ~Accepted(p)
    /\ task' = [task EXCEPT ![p] = "failed"]
    /\ UNCHANGED <<disk, phase, states, events, loaded, persists, history>>

\* An error after the writes, in the declarations for one.
FailBuild(p) ==
    /\ "error" \in mode.events
    /\ task[p] = "building"
    /\ Accepted(p)
    /\ WriteOutput(p)
    /\ task' = [task EXCEPT ![p] = "failed"]
    /\ MarkWrite(p)
    /\ UNCHANGED <<phase, states, events, loaded, persists, overtaken, exposed, lost>>
-------------------------------------------------------------------------------
(***************************************************************************)
(* Drain: after the callbacks.                                             *)
(***************************************************************************)

\* What the closure that a build leaves holds: the manifest it read and the
\* one to store.
PersistOf(p) ==
    [project  |-> p,
     previous |-> manifest[p],
     current  |-> [files  |-> <<loaded[p].input.own, graph[p]>>,
                   output |-> IF loaded[p].selected THEN Emitted(p) ELSE manifest[p].output]]

Built == {p \in Projects : task[p] = "built"}

\* s has the persists of this drain, in the order of the graph.
NewPersists(s) ==
    /\ \A p \in Built : \E i \in DOMAIN s : s[i] = PersistOf(p)
    /\ \A i, j \in DOMAIN s : i < j => Position[s[i].project] < Position[s[j].project]

Rest == IF mode.watch THEN "idle" ELSE "done"

\* With an error anywhere in the solution nothing is persisted yet.
Merge ==
    /\ phase = "drain"
    /\ \A p \in Projects : Settled(p)
    /\ upToDate' = [p \in Projects |-> upToDate[p] \/ p \in Built]
    /\ force' = [p \in Projects |-> force[p] /\ p \notin Built]
    /\ \E s \in [1 .. Cardinality(Built) -> {PersistOf(p) : p \in Built}] :
        NewPersists(s) /\ persists' = persists \o s
    /\ phase' = IF \E p \in Projects : task[p] \in {"failed", "blocked"} THEN Rest ELSE "persist"
    /\ task' = All("none")
    /\ loaded' = All(NotLoaded)
    /\ UNCHANGED <<disk, graph, events, history>>

\* The closure stores its manifest unless it equals the one its build read.  The
\* history is over for a project whose last build has its manifest stored.
Persist ==
    /\ phase = "persist"
    /\ persists # <<>>
    /\ LET e == Head(persists)
           p == e.project
           saved == manifest'[p] = e.current /\ p \notin {later.project : later \in ElementsOf(Tail(persists))}
           Mark(S) == IF saved THEN S \ {p} ELSE S \cup {p}
       IN  /\ manifest' = IF e.current = e.previous THEN manifest ELSE [manifest EXCEPT ![p] = e.current]
           /\ unsaved' = Mark(unsaved)
           /\ behind' = Mark(behind)
           /\ overtaken' = Mark(overtaken)
    /\ persists' = Tail(persists)
    /\ UNCHANGED <<source, refs, output, phase, states, events, task, loaded, exposed, lost>>

\* The failed persist and those behind it stay deferred.
PersistFails ==
    /\ "persist" \in mode.events
    /\ phase = "persist"
    /\ persists # <<>>
    /\ phase' = Rest
    /\ UNCHANGED <<disk, states, events, task, loaded, persists, history>>

EndDrain ==
    /\ phase = "persist"
    /\ persists = <<>>
    /\ phase' = Rest
    /\ UNCHANGED <<disk, states, events, task, loaded, persists, history>>

\* The end of the process, at any time.
Crash ==
    /\ "crash" \in mode.events
    /\ phase # "off"
    /\ phase' = "off"
    /\ upToDate' = All(FALSE)
    /\ force' = All(FALSE)
    /\ projects' = {}
    /\ configs' = {}
    /\ task' = All("none")
    /\ loaded' = All(NotLoaded)
    /\ persists' = <<>>
    /\ lost' = {}
    /\ UNCHANGED <<disk, graph, unsaved, behind, overtaken, exposed>>

Callback(p) ==
    Skip(p) \/ Block(p) \/ StartBuild(p) \/ FinishBuild(p) \/ RejectBuild(p) \/ FailBuild(p)

Process ==
    \/ StartOnce \/ StartWatch \/ Cycle \/ CycleReload \/ CycleReloadFails
    \/ \E p \in Projects : Callback(p)
    \/ Merge \/ Persist \/ PersistFails \/ EndDrain

Next ==
    /\ Process \/ Crash \/ \E p \in Projects : Edit(p) \/ EditConfig(p)
    /\ UNCHANGED mode

Spec == Init /\ [][Next]_vars

\* The process runs: events wake the watch, the pool runs every callback.
FairSpec == Spec /\ WF_vars(Process /\ UNCHANGED mode)
-------------------------------------------------------------------------------
TypeOK ==
    /\ \A p \in Projects : /\ source[p] \in Texts(p)
                           /\ refs[p] \in RefSets(p) \cup {Broken}
                           /\ graph[p] \in RefSets(p)
    /\ phase \in {"off", "idle", "drain", "persist", "done"}
    /\ upToDate \in [Projects -> BOOLEAN]
    /\ force \in [Projects -> BOOLEAN]
    /\ projects \subseteq Projects /\ configs \subseteq Projects
    /\ task \in [Projects -> {"none", "todo", "building", "built", "failed", "blocked", "skipped"}]
    /\ phase # "drain" => task = All("none")
    /\ unsaved \subseteq Projects /\ behind \subseteq Projects /\ overtaken \subseteq Projects
    /\ exposed \subseteq Projects /\ lost \subseteq Projects

\* A build reads outputs that stand still: while it runs, none of its
\* references is built and their outputs are those it has read.
StableInputs ==
    \A p \in Projects : task[p] = "building" =>
        \A d \in graph[p] : Settled(d) /\ output[d] = loaded[p].input.deps[d]

\* Projects that write to the same places are never built at the same time.
ExclusiveWriters ==
    \A p, q \in Projects :
        task[p] = "building" /\ task[q] = "building" /\ <<p, q>> \in Overlapping => p = q

AtRest == phase \in {"idle", "done"}

Upstream(g, p) == {d \in Projects : p \in Dependents(g, d)}

\* Between drains, whatever a project that counts as up to date references
\* counts as up to date too, unless a failed reload once made the watch
\* forget that the project changed.
UpToDateClosed ==
    AtRest => \A p \in Projects \ lost :
        upToDate[p] => \A d \in graph[p] : upToDate[d]

\* No change of p waits for the next cycle, and none was forgotten.
Quiet(p) == p \notin projects \cup configs \cup lost

Fresh(p) == output[p] = Emit(p, Input(p))

\* Between drains, a project that counts as up to date has the output of its
\* text and of the outputs it references, changes still to come excepted.  The
\* other exceptions are the exposed projects, and only these: a build trusted
\* the manifest although since it was stored an output had been written: its
\* own or one it rests on, the latter in a single build and in a watch whose
\* force flag does not tell: the project was built, or got other references,
\* and its manifest is still the one of before, or a failed reload forgot it.
FreshUnlessExposed ==
    AtRest => \A p \in Projects \ exposed : upToDate[p] /\ Quiet(p) => Fresh(p)

\* Between drains, a project that does not count as up to date has a reason to
\* show: an error in its own text or in one upstream, as they are now, or a
\* change still to come or forgotten.  Nothing else keeps it from being built:
\* no project that it merely waits for, no error that has been mended.  Builds
\* that fail for other reasons than the sources are left out.
HeldUpByErrors ==
    AtRest /\ "error" \notin mode.events =>
        \A p \in Projects : upToDate[p] \/
            \E d \in {p} \cup Upstream(graph, p) : ~Quiet(d) \/ Rejects(d, Input(d))

\* When edits stop, a watch that meets no faults comes to rest with every
\* project fresh, exposed or held up by errors in the sources.
EventuallySettled ==
    mode.watch /\ mode.events = {} /\ <>[][UNCHANGED <<source, refs>>]_vars =>
        <>[](\A p \in Projects :
                \/ upToDate[p] /\ (Fresh(p) \/ p \in exposed)
                \/ \E d \in {p} \cup Upstream(graph, p) : Rejects(d, Input(d)))
===============================================================================
