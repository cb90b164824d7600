---------------------------- MODULE SolutionWatch ----------------------------
(***************************************************************************)
(* The solution watch (runBuildSolutionWatch, cmd/rotor/solution_watch.go):*)
(* callbacks of the file watcher collect events, compileGate runs one      *)
(* cycle at a time, a cycle takes the events, reloads, rebuilds, registers *)
(* the watches anew and copies assets.                                     *)
(*                                                                         *)
(* A drain is the one of SolutionCoordinator without its manifests: it     *)
(* builds every project that is not up to date, after the ones it depends  *)
(* on.  The question here is whether each change of a file reaches a       *)
(* build.  A file is one of the inputs of a project: its sources, its      *)
(* tsconfig, its assets, or the Rojo project file, which all of them read. *)
(***************************************************************************)
EXTENDS Integers

CONSTANTS
    Projects,
    Downstream,   \* Downstream[p]: p and the projects that reference it
    Setups        \* see setup

\* Downstream is reflexive and transitive.
ASSUME DownstreamAssumption ==
    /\ Downstream \in [Projects -> SUBSET Projects]
    /\ \A p \in Projects : p \in Downstream[p]
    /\ \A p \in Projects : \A q \in Downstream[p] : Downstream[q] \subseteq Downstream[p]

VARIABLES
    setup,        \* what happens: the inputs that are edited, the faults
    unseen,       \* unseen[p]: inputs of p that changed since p last read them
    queue,        \* changed inputs the watcher has yet to report
    watching,     \* the projects whose watches are registered
    s,            \* solutionWatchEvents: what the next cycle will take
    calls,        \* callbacks of config files between the unlock and Trigger
    running, pending, loops,    \* compileGate, and its live goroutines
    pc,           \* where the cycle is
    taken,        \* the events the cycle has taken
    todo,         \* the projects its drain has yet to build
    upToDate,     \* the coordinator's states
    blocked,      \* projects not built because one they depend on has failed
    main,         \* where runBuildSolutionWatch is
    missed        \* history, missed[p]: changes that no event announces any more

gate == <<running, pending, loops>>

vars == <<setup, unseen, queue, watching, s, calls, gate, pc, taken, todo, upToDate, blocked, main, missed>>

In(kind, p) == [kind |-> kind, project |-> p]

Rojo == [kind |-> "rojo"]

Own(p) == {In(kind, p) : kind \in {"source", "config", "asset"}}

Upstream(p) == {q \in Projects \ {p} : p \in Downstream[q]}

Reads(p) == Own(p) \cup {Rojo} \cup {In(kind, q) : kind \in {"source", "config"}, q \in Upstream(p)}

Inputs == UNION {Reads(p) : p \in Projects}

\* The projects whose watches cover x: the Rojo file is watched for every
\* project, any other input only for its own.
Watchers(x) == {p \in Projects : x \in Own(p) \cup {Rojo}}

Events == [projects : SUBSET Projects, configs : SUBSET Inputs, assets : SUBSET Projects]

NoEvents == [projects |-> {}, configs |-> {}, assets |-> {}]

AddProject(e, p) == [e EXCEPT !.projects = @ \cup {p}]

AddConfig(e, x) == [e EXCEPT !.configs = @ \cup {x}]

AddAsset(e, p) == [e EXCEPT !.assets = @ \cup {p}]

\* The events e make a cycle read the input x of p anew.
Announces(e, p, x) ==
    \/ \E q \in e.projects : p \in Downstream[q]
    \/ \E q \in Projects : In("config", q) \in e.configs /\ p \in Downstream[q]
    \/ x \in e.configs
    \/ \E q \in e.assets : x = In("asset", q)

\* The events that announced the changes of X are gone.
Lose(X) == missed' = [p \in Projects |-> missed[p] \cup (unseen[p] \cap X)]

Init ==
    /\ setup \in Setups
    /\ unseen = [p \in Projects |-> Reads(p)]
    /\ queue = {}
    /\ watching = {}
    /\ s = NoEvents
    /\ calls = {}
    /\ running = FALSE /\ pending = FALSE /\ loops = 0
    /\ pc = "none"
    /\ taken = NoEvents
    /\ todo = {}
    /\ upToDate = [p \in Projects |-> FALSE]
    /\ blocked = {}
    /\ main = "refresh"
    /\ missed = [p \in Projects |-> {}]

\* A file changes.  The watcher notices while a watch for it is registered.
Edit(x) ==
    /\ x \in setup.edited
    /\ unseen' = [p \in Projects |-> unseen[p] \cup ({x} \cap Reads(p))]
    /\ \/ /\ Watchers(x) \cap watching # {}
          /\ queue' = queue \cup {x}
          /\ missed' = [p \in Projects |-> missed[p] \ {x}]
       \/ /\ Watchers(x) \cap watching = {}
          /\ queue' = queue
          /\ missed' = [p \in Projects |-> missed[p] \cup ({x} \cap Reads(p))]
    /\ UNCHANGED <<setup, watching, s, calls, gate, pc, taken, todo, upToDate, blocked, main>>
-------------------------------------------------------------------------------
(***************************************************************************)
(* Plausible mistakes in the code below; none of them is part of the       *)
(* model.                                                                  *)
(***************************************************************************)

\* A trigger always starts a goroutine.
TriggerAlways ==
    /\ running' = TRUE
    /\ pending' = pending
    /\ loops' = loops + 1
    /\ pc' = "take"

\* A trigger while a cycle runs is dropped.
TriggerDropped ==
    /\ running' = TRUE
    /\ pending' = pending
    /\ loops' = IF running THEN loops ELSE loops + 1
    /\ pc' = IF running THEN pc ELSE "take"

\* A changed Rojo file invalidates no project.
ChangedWithoutRojo(e) == e.projects
-------------------------------------------------------------------------------
(***************************************************************************)
(* compileGate.  What is done under its lock is one step.                  *)
(***************************************************************************)
Trigger ==
    /\ running' = TRUE
    /\ pending' = (pending \/ running)
    /\ loops' = IF running THEN loops ELSE loops + 1
    /\ pc' = IF running THEN pc ELSE "take"

\* The end of a turn of the goroutine's loop.
Leave ==
    IF pending
    THEN running' = TRUE /\ pending' = FALSE /\ loops' = loops /\ pc' = "take"
    ELSE running' = FALSE /\ pending' = FALSE /\ loops' = loops - 1 /\ pc' = "none"
-------------------------------------------------------------------------------
(***************************************************************************)
(* The callbacks.  The callbacks of directories trigger the gate with the  *)
(* events locked, those of config files after the unlock.                  *)
(***************************************************************************)
RootCallback(p) ==
    /\ \E x \in queue \cap {In("source", p), In("asset", p)} :
        /\ queue' = queue \ {x}
        /\ s' = IF x.kind = "source" THEN AddProject(s, p) ELSE AddAsset(s, p)
    /\ Trigger
    /\ UNCHANGED <<setup, unseen, watching, calls, taken, todo, upToDate, blocked, main, missed>>

\* An overflow of the watcher counts as a change of the project.
RootOverflow(p) ==
    /\ "watcher" \in setup.faults
    /\ queue \cap {In("source", p), In("asset", p)} # {}
    /\ queue' = queue \ {In("source", p), In("asset", p)}
    /\ s' = AddProject(s, p)
    /\ Trigger
    /\ UNCHANGED <<setup, unseen, watching, calls, taken, todo, upToDate, blocked, main, missed>>

\* Any other error drops the events it comes with.
RootError(p) ==
    /\ "watcher" \in setup.faults
    /\ queue \cap {In("source", p), In("asset", p)} # {}
    /\ queue' = queue \ {In("source", p), In("asset", p)}
    /\ Lose(queue \cap {In("source", p), In("asset", p)})
    /\ Trigger
    /\ UNCHANGED <<setup, unseen, watching, s, calls, taken, todo, upToDate, blocked, main>>

\* A Rojo project file in a watched directory.
RojoCallback ==
    /\ Rojo \in queue
    /\ queue' = queue \ {Rojo}
    /\ s' = AddConfig(s, Rojo)
    /\ Trigger
    /\ UNCHANGED <<setup, unseen, watching, calls, taken, todo, upToDate, blocked, main, missed>>

\* An overflow counts as a change of the tsconfig of the project the directory
\* is watched for.  It builds that project and those downstream; the others do
\* not hear of the Rojo file.
RojoOverflow(p) ==
    /\ "rojo watcher" \in setup.faults
    /\ Rojo \in queue
    /\ queue' = queue \ {Rojo}
    /\ s' = AddConfig(s, In("config", p))
    /\ missed' = [q \in Projects |-> missed[q] \cup IF q \in Downstream[p] THEN {} ELSE unseen[q] \cap {Rojo}]
    /\ Trigger
    /\ UNCHANGED <<setup, unseen, watching, calls, taken, todo, upToDate, blocked, main>>

RojoError ==
    /\ "rojo watcher" \in setup.faults
    /\ Rojo \in queue
    /\ queue' = queue \ {Rojo}
    /\ Lose({Rojo})
    /\ Trigger
    /\ UNCHANGED <<setup, unseen, watching, s, calls, taken, todo, upToDate, blocked, main>>

ConfigFiles == {In("config", p) : p \in Projects} \cup {Rojo}

\* A watch never calls its callback twice at the same time.
ConfigCallback(x) ==
    /\ x \in queue \cap ConfigFiles
    /\ x \notin calls
    /\ queue' = queue \ {x}
    /\ s' = AddConfig(s, x)
    /\ calls' = calls \cup {x}
    /\ UNCHANGED <<setup, unseen, watching, gate, pc, taken, todo, upToDate, blocked, main, missed>>

ConfigTrigger(x) ==
    /\ x \in calls
    /\ calls' = calls \ {x}
    /\ Trigger
    /\ UNCHANGED <<setup, unseen, queue, watching, s, taken, todo, upToDate, blocked, main, missed>>
-------------------------------------------------------------------------------
(***************************************************************************)
(* refresh: closes every watch, loads the programs to find out what to     *)
(* watch, and registers the watches.  Whatever the watcher had not yet     *)
(* reported is not reported any more.                                      *)
(***************************************************************************)
CloseWatches ==
    /\ watching' = {}
    /\ queue' = {}
    /\ Lose(queue)

\* A project that does not load, and a watch that cannot be registered, is
\* left out.
OpenWatches ==
    watching' \in IF "watcher" \in setup.faults THEN SUBSET Projects ELSE {Projects}
-------------------------------------------------------------------------------
(***************************************************************************)
(* The cycle.                                                              *)
(***************************************************************************)
Take ==
    /\ pc = "take"
    /\ taken' = s
    /\ s' = NoEvents
    /\ pc' = IF s.configs # {} THEN "reload" ELSE "invalidate"
    /\ UNCHANGED <<setup, unseen, queue, watching, calls, gate, todo, upToDate, blocked, main, missed>>

Reload ==
    /\ pc = "reload"
    /\ taken' = [taken EXCEPT !.projects = @ \cup {p \in Projects : In("config", p) \in taken.configs}]
    /\ pc' = "close"
    /\ UNCHANGED <<setup, unseen, queue, watching, s, calls, gate, todo, upToDate, blocked, main, missed>>

\* The cycle returns with the events it has taken.
ReloadFails ==
    /\ "reload" \in setup.faults
    /\ pc = "reload"
    /\ missed' = [p \in Projects |-> missed[p] \cup {x \in unseen[p] : Announces(taken, p, x)}]
    /\ taken' = NoEvents
    /\ pc' = "leave"
    /\ UNCHANGED <<setup, unseen, queue, watching, s, calls, gate, todo, upToDate, blocked, main>>

Close ==
    /\ pc \in {"close", "close again"}
    /\ CloseWatches
    /\ pc' = IF pc = "close" THEN "open" ELSE "open again"
    /\ UNCHANGED <<setup, unseen, s, calls, gate, taken, todo, upToDate, blocked, main>>

Open ==
    /\ pc \in {"open", "open again"}
    /\ OpenWatches
    /\ pc' = IF pc = "open" THEN "invalidate" ELSE "assets"
    /\ UNCHANGED <<setup, unseen, queue, s, calls, gate, taken, todo, upToDate, blocked, main, missed>>

\* With a changed configuration and no changed project, every project counts
\* as changed.
Changed(e) == IF e.configs # {} /\ e.projects = {} THEN Projects ELSE e.projects

Invalidated(e) == UNION {Downstream[p] : p \in Changed(e)}

\* Not the code: the projects that were blocked stay so.
InvalidateKeepsBlocked ==
    /\ pc = "invalidate"
    /\ todo' = {p \in Projects : ~upToDate[p]} \cup Invalidated(taken)
    /\ upToDate' = [p \in Projects |-> upToDate[p] /\ p \notin Invalidated(taken)]
    /\ pc' = "drain"
    /\ taken' = [NoEvents EXCEPT !.assets = taken.assets]
    /\ UNCHANGED <<setup, unseen, queue, watching, s, calls, gate, blocked, main, missed>>

\* The projects that a changed Rojo file does not invalidate because another
\* project has changed keep the output they have.
Invalidate ==
    /\ pc = "invalidate"
    /\ LET stale == {p \in Projects : ~upToDate[p]} \cup Invalidated(taken)
           drains == Changed(taken) # {} \/ taken.configs # {}
       IN  /\ upToDate' = [p \in Projects |-> upToDate[p] /\ p \notin Invalidated(taken)]
           /\ todo' = IF drains THEN stale ELSE {}
           /\ blocked' = IF drains THEN {} ELSE blocked
           /\ pc' = IF drains THEN "drain" ELSE "assets"
           /\ missed' = [p \in Projects |->
                 missed[p] \cup IF taken.projects # {} /\ p \notin stale
                               THEN unseen[p] \cap taken.configs \cap {Rojo} ELSE {}]
    /\ taken' = [NoEvents EXCEPT !.assets = taken.assets]
    /\ UNCHANGED <<setup, unseen, queue, watching, s, calls, gate, main>>

\* The build of p, which may find errors.  It reads the inputs of p and the
\* output of the projects upstream, with the changes they have not seen.
Build(p) ==
    /\ pc = "drain"
    /\ p \in todo
    /\ \A q \in Upstream(p) : q \notin todo /\ upToDate[q]
    /\ LET left == {x \in Reads(p) : \E q \in Upstream(p) : x \in unseen[q] /\ x \notin Own(p) \cup {Rojo}}
       IN  /\ unseen' = [unseen EXCEPT ![p] = left]
           /\ missed' = [missed EXCEPT ![p] = {x \in left : \E q \in Upstream(p) : x \in missed[q]}]
    /\ todo' = todo \ {p}
    /\ upToDate' \in {[upToDate EXCEPT ![p] = ok] : ok \in BOOLEAN}
    /\ UNCHANGED <<setup, queue, watching, s, calls, gate, pc, taken, blocked, main>>

\* A project upstream has failed.
Block(p) ==
    /\ pc = "drain"
    /\ p \in todo
    /\ Upstream(p) \cap todo = {}
    /\ \E q \in Upstream(p) : ~upToDate[q]
    /\ todo' = todo \ {p}
    /\ blocked' = blocked \cup {p}
    /\ UNCHANGED <<setup, unseen, queue, watching, s, calls, gate, pc, taken, upToDate, main, missed>>

EndDrain ==
    /\ pc = "drain"
    /\ todo = {}
    /\ pc' = "close again"
    /\ UNCHANGED <<setup, unseen, queue, watching, s, calls, gate, taken, todo, upToDate, blocked, main, missed>>

DrainAssets(p) ==
    /\ pc = "assets"
    /\ p \in taken.assets
    /\ taken' = [taken EXCEPT !.assets = @ \ {p}]
    /\ unseen' = [unseen EXCEPT ![p] = @ \ {In("asset", p)}]
    /\ missed' = [missed EXCEPT ![p] = @ \ {In("asset", p)}]
    /\ UNCHANGED <<setup, queue, watching, s, calls, gate, pc, todo, upToDate, blocked, main>>

\* The first copy that fails ends it; the error is printed.
DrainAssetsFails(p) ==
    /\ "copy" \in setup.faults
    /\ pc = "assets"
    /\ p \in taken.assets
    /\ taken' = [taken EXCEPT !.assets = @ \ {p}]
    /\ Lose({In("asset", p)})
    /\ UNCHANGED <<setup, unseen, queue, watching, s, calls, gate, pc, todo, upToDate, blocked, main>>

EndAssets ==
    /\ pc = "assets"
    /\ taken.assets = {}
    /\ pc' = "leave"
    /\ UNCHANGED <<setup, unseen, queue, watching, s, calls, gate, taken, todo, upToDate, blocked, main, missed>>

\* Not the code: the channel stays open.
EndTurnSilently ==
    /\ pc = "leave"
    /\ Leave
    /\ UNCHANGED <<setup, unseen, queue, watching, s, calls, taken, todo, upToDate, blocked, main, missed>>

\* When the goroutine returns, it closes the channel that Drain waits for.
EndTurn ==
    /\ pc = "leave"
    /\ Leave
    /\ main' = IF main = "wait" /\ ~running' THEN "drain" ELSE main
    /\ UNCHANGED <<setup, unseen, queue, watching, s, calls, taken, todo, upToDate, blocked, missed>>
-------------------------------------------------------------------------------
(***************************************************************************)
(* runBuildSolutionWatch after the set-up.                                 *)
(***************************************************************************)
FirstRefresh ==
    /\ main = "refresh"
    /\ OpenWatches
    /\ main' = "fill"
    /\ UNCHANGED <<setup, unseen, queue, s, calls, gate, pc, taken, todo, upToDate, blocked, missed>>

Fill ==
    /\ main = "fill"
    /\ s' = [s EXCEPT !.projects = Projects]
    /\ main' = "trigger"
    /\ UNCHANGED <<setup, unseen, queue, watching, calls, gate, pc, taken, todo, upToDate, blocked, missed>>

\* The projects are filled in without the lock.  When an early event has
\* started a cycle, they may end up in the events it has taken, where they
\* count as long as it has not come to the invalidation.  (The race may also
\* end the process, as the runtime detects concurrent use of a map.)
FillRaces ==
    /\ "race" \in setup.faults
    /\ main = "fill"
    /\ \/ /\ pc \in {"reload", "close", "open", "invalidate"}
          /\ taken' = [taken EXCEPT !.projects = Projects]
          /\ missed' = missed
       \/ /\ pc \in {"drain", "close again", "open again", "assets", "leave"}
          /\ taken' = taken
          /\ missed' = unseen
    /\ main' = "trigger"
    /\ UNCHANGED <<setup, unseen, queue, watching, s, calls, gate, pc, todo, upToDate, blocked>>

FirstTrigger ==
    /\ main = "trigger"
    /\ Trigger
    /\ main' = "drain"
    /\ UNCHANGED <<setup, unseen, queue, watching, s, calls, taken, todo, upToDate, blocked, missed>>

Drain ==
    /\ main = "drain"
    /\ main' = IF running THEN "wait" ELSE "select"
    /\ UNCHANGED <<setup, unseen, queue, watching, s, calls, gate, pc, taken, todo, upToDate, blocked, missed>>

Callback ==
    \/ \E p \in Projects : RootCallback(p) \/ RootOverflow(p) \/ RootError(p) \/ RojoOverflow(p)
    \/ RojoCallback \/ RojoError
    \/ \E x \in ConfigFiles : ConfigCallback(x)

Cycle ==
    \/ Take \/ Reload \/ ReloadFails \/ Close \/ Open \/ Invalidate
    \/ \E p \in Projects : Build(p) \/ Block(p)
    \/ EndDrain
    \/ \E p \in Projects : DrainAssets(p) \/ DrainAssetsFails(p)
    \/ EndAssets \/ EndTurn

Main == FirstRefresh \/ Fill \/ FillRaces \/ FirstTrigger \/ Drain

Next ==
    \/ \E x \in Inputs : Edit(x)
    \/ Callback
    \/ \E x \in ConfigFiles : ConfigTrigger(x)
    \/ Cycle
    \/ Main

Spec == Init /\ [][Next]_vars

\* The watcher reports what it has noticed, and the goroutines run.
Fairness ==
    /\ WF_vars(Callback)
    /\ \A x \in ConfigFiles : WF_vars(ConfigTrigger(x))
    /\ WF_vars(Cycle)
    /\ WF_vars(Main)

FairSpec == Spec /\ Fairness
-------------------------------------------------------------------------------
TypeOK ==
    /\ setup \in Setups
    /\ unseen \in [Projects -> SUBSET Inputs]
    /\ missed \in [Projects -> SUBSET Inputs]
    /\ queue \subseteq Inputs
    /\ watching \subseteq Projects
    /\ s \in Events /\ taken \in Events
    /\ calls \subseteq ConfigFiles
    /\ running \in BOOLEAN /\ pending \in BOOLEAN /\ loops \in Nat
    /\ pc \in {"none", "take", "reload", "close", "open", "invalidate", "drain",
              "close again", "open again", "assets", "leave"}
    /\ todo \subseteq Projects /\ blocked \subseteq Projects
    /\ upToDate \in [Projects -> BOOLEAN]
    /\ main \in {"refresh", "fill", "trigger", "drain", "wait", "select"}

\* Two cycles never run at the same time, although any callback may trigger
\* one: the coordinator has no lock of its own.
OneCycle ==
    /\ loops = IF running THEN 1 ELSE 0
    /\ pc = "none" <=> ~running

\* Collected events wait for a cycle that is going to take them, or for a
\* callback that is about to trigger one.
EventsHaveACycle ==
    s # NoEvents => pc = "take" \/ pending \/ calls # {} \/ main = "trigger"

\* Every change that a project's output does not show yet is on its way to a
\* build of the project: unreported, among the collected or the taken events,
\* in the drain, or waiting for the failed project that blocks this one.  The
\* exceptions are the changes in missed: those made while refresh had closed
\* the watches or unreported when it closed them; those of a failed reload, of
\* a watcher's error or of a failed copy; a changed Rojo file for the projects
\* that another changed project, or an overflow of the watcher, kept from being
\* invalidated; and, when the projects that runBuildSolutionWatch fills in
\* without the lock end up in the events of a cycle past its invalidation,
\* everything unseen at that moment.
NothingForgotten ==
    \A p \in Projects : \A x \in unseen[p] \ missed[p] :
        \/ x \in queue
        \/ Announces(s, p, x)
        \/ Announces(taken, p, x)
        \/ p \in todo \cup blocked
        \/ main \in {"refresh", "fill"}

\* A project stays blocked only while one upstream is not up to date because
\* its own build has failed.
BlockedByFailure ==
    \A p \in blocked : \E q \in Upstream(p) \ blocked : ~upToDate[q]

AtRest ==
    /\ main = "select" /\ ~running
    /\ \A p \in Projects \ blocked : unseen[p] = missed[p]

\* Once nobody edits any more, the first drain ends, the gate comes to rest,
\* and every project that is not blocked has seen every change that was not
\* missed.
EditsReachBuilds ==
    []<><<\E x \in Inputs : Edit(x)>>_vars \/ <>[]AtRest
===============================================================================
