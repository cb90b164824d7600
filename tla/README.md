# A TLA+ model of rotor

rotor compiles roblox-ts projects to Luau, watches them, and manages the cloud
side of a Roblox experience (assets and deployments). This directory holds TLA+
models of the parts of it that keep state across steps, with the TLC runs that
check them on small instances and TLAPS proofs about them. Paths are relative to
`src/`. `PROJECT.json` lists the components, the runs, which definition stands
for which lines, the hazards and the theorems.

## 1. The system

| Part | State | Operations | What is hard about it |
| --- | --- | --- | --- |
| Solution scheduler, `internal/compile/solution_scheduler.go` | channels, outcomes, the shared counter | claim, wait, call back, close, sweep | a pool whose workers block on each other |
| Solution coordinator, `internal/compile/solution.go`, `solution_drain.go`, `crossproject.go` | up-to-date and force flags, deferred persists | Drain, Invalidate, Reload | projects read each other's outputs; manifests are deferred while anything fails |
| Project build, `internal/compile/output.go`, `incremental_manifest.go`, `outputwriter.go` | outputs and manifest on disk | select, clean up, compile, write, prune, store | crash between outputs and manifest; what a manifest vouches for |
| Deploy, `internal/deploy`, `cmd/rotor/deploy.go` | state file, remote objects | plan, confirm, apply step by step | calls whose answer is lost; stops between a call and its record |
| Solution watch, `cmd/rotor/solution_watch.go` | pending events, gate | callbacks, cycle, refresh | events during a cycle |
| Polling watch, `cmd/rotor/watch.go` | baseline stamps | snapshot, settle, rebuild | edits during a build |
| Transformer sidecar, `internal/compile/sidecar.go`, `tools/sidecar` | warm Node workers, stamps, overlays | round trip, retry, revert | what the worker believes the files hold |
| Copy-files gate, `internal/compile/copyfilesgate.go` | manifest of file times | validate, build, persist | times instead of contents |
| Rojo resolver and its cache, `internal/rojo` | two cache levels | Load, Persist | parse first, time stamp afterwards |
| Assets, `internal/assets`, `internal/assetresolve` | `rotor-lock.json` | scan, plan, sync, resolve | uploads before their record |
| Cloud client, `internal/cloud` | token buckets, attempts | send, retry, poll | a retried create |
| Transformer and Luau tree, `internal/transformer`, `internal/luau` | none across files | translate, render | meaning of programs |
| Config, pack, bundle, source maps, diagnostics, CLI | none across steps | parse, format, report | |

How they interact: `rotor build --build` makes a coordinator, which drains the
projects through the scheduler; each callback is one project build, with the
sidecar, the Rojo cache and the asset resolver underneath. The watches repeat
that from file events. `rotor deploy` and `rotor asset` work on the cloud client
and keep a file of their own.

## 2. Modules

| Module | Models | Proofs |
| --- | --- | --- |
| `SolutionTasks` | what `RunSolutionTasks` promises (abstract) | |
| `SolutionScheduler` | `RunSolutionTasks`, goroutine by goroutine | `SolutionSchedulerProofs` |
| `SolutionCoordinator` | Drain, Invalidate, Reload, single builds and watch cycles | `SolutionCoordinatorProofs` |
| `IncrementalBuild` | `BuildProjectWithOptions` with manifest and writer | `IncrementalBuildProofs` |
| `IncrementalSelection` | the search of `selectIncrementalSourceFiles` | in `IncrementalBuildProofs` |
| `Deploy` | plan and apply with all providers | `DeployProofs` |
| `PollWatch` | `runBuildWatch` and `runWatch` | `WatchProofs` |
| `SolutionWatch` | `runBuildSolutionWatch`, its callbacks, `compileGate` and the cycle | `WatchProofs` |
| `Sidecar` | the client of the transformer sidecar and its worker | `SidecarProofs` |
| `Assets` | `asset sync` and `$asset` builds on one lockfile, with the client's retries | `AssetsProofs` |
| `BuildCaches` | the Rojo resolver cache and the copy-files gate in a build | `BuildCachesProofs` |

`MC*` modules and `.cfg` files give the constants their values for TLC. A
definition commented as a mistake is no part of its specification: it is a
changed form of the definition next to it that one of the properties has to
reject.

The models are layered by what a step is. In `SolutionCoordinator` the pool is
what `SolutionScheduler` shows it to be, and a project is one text and one
output; `IncrementalBuild` opens one project up and treats the compiler as a
constant function of what it reads; `IncrementalSelection` opens up the
selection, which `IncrementalBuild` states as a set (`SearchServesBuild` ties the
two together). `SolutionWatch` is the other way round: its drain is that of
`SolutionCoordinator` without manifests, and the question is whether a change of a
file gets as far as a drain. `BuildCaches` and `Sidecar` are what a project build
uses underneath, `Assets` is the part of a build that shares a file with another
command.

### SolutionScheduler

A worker's `pc` follows the loop body: `claim` (the shared counter), `await` (the
channels of the barriers, predecessors and wait-only alike), `run` (the
callback), `close`. The caller joins the workers and sweeps. Tasks are named by
position, as `Drain` builds them, and `Init` takes every graph whose barriers sit
at smaller positions. `Builders` may be any integer; 0 and less mean 4, as in the
code.

The abstract `SolutionTasks` knows `pending`, `running` and the outcome of each
task. The refinement maps a worker in `run` to `running` and a stored outcome to
itself; claiming, waiting and closing are invisible.

### SolutionCoordinator

`source` and `refs` are on disk and change at any time; `output` and `manifest`
are what builds have written. `graph`, `upToDate` and `force` are the
coordinator's. A drain starts with `BeginDrain`; the callback of each project
skips, blocks on a failed reference, or starts and later finishes or fails a
build. `Merge` is the code after the pool (flags, the list of deferred persists),
then come the persists one by one. `Cycle`, `CycleReload` and `CycleReloadFails`
are the cycle of the solution watch, with the early return that drops the events;
`StartOnce` is `BuildSolutionWithOptions`. `mode` never changes: it says whether
a watch or single builds run and which faults happen, so that one run covers
several set-ups.

Five history variables say when an output may be stale. `unsaved`: written, and
no manifest stored since. `behind`: an output that the project's manifest rests on was
written since the manifest was stored. `overtaken`: built, or its references changed, and no
manifest stored since.
`exposed`: a build relied on the manifest, or skipped the write by its hash, although
these say that it should not. `lost`: a reload failed and the changed project was
forgotten. `FreshUnlessExposed` is for single
builds and watches alike.

### IncrementalBuild

One action per stage: `Begin` (program and manifest loaded, files selected) or
`BeginUnchanged` (nothing to compile and the copy-files gate skips the cleanup),
`Cleanup`, `Compile` or `CompileRejects`, a `Write` per file in any order with
the skip by hash, `Prune`, `Persist`, `Return`. `WriteFails` leaves a partial
file, `Abort` is any other error and the end of the process. Sources, options and
outputs change in between where the build can see it. Texts, what they import,
what they compile to and whether they are rejected are constants.

What the compiler reads for a file (`Reads`) is more than what the manifest lets a
build follow (`Followed`). The compiler sees imports, ambient modules and global
files, and files that are never compiled (`Unhashed`); the manifest has the hashes of
compiled files only, and of their references only imports and ambient modules.
`Global` and `Unhashed` stand for `declare global` modules, declaration files, the
content of the Rojo project, `.env` and the files `$file` names.

Two history variables. `torn`: outputs that were replaced by a build that then
stopped, or were removed, or whose source was removed, under a running build.
`beside[f]`: what `f`, as recorded, was compiled with and the manifest cannot follow.
A file is overlooked when that is no longer what a build would compile it with.

### IncrementalSelection

The search over importers of the current and the previous manifest, a path at a
time from an unordered queue; the specification is the least set that holds the
changed paths and is closed under importers.

### Deploy

`desired` is the configuration, a version standing for the inputs of a resource
and their hash; `state` is the state file; `live` are the remote objects.
`Plan` is `BuildPlan`, `Confirm` and `Decline` the prompt; then each step of the
plan in the order `Apply` has: resources without dependencies, those with, the
deletes, by key within each. A step is skipped when a dependency failed. A
provider is modelled by the outcomes its call may have (`Calls`, `DeleteCalls`)
and by where it may stop half way (`CallsStopped`, thumbnails above all). A step
succeeds and is recorded; is refused; fails at any point; or the process ends
within it. `Open Cloud` itself is modelled from how the providers use it: ids are
fresh, an update of something gone is refused.

`torn`: the last call took effect unrecorded, or sent a file that had changed
since the plan. `cut`: a deletion took effect unrecorded.

### PollWatch

`stamp` and `text` are the disk; `baseline`, `current` and `rounds` are the
variables of the loop and of `settleChanges`. `Tick` and `Settle` are its two ways
to wake; `BeginPass` reads the tsconfig and lists the files, `Read` reads one, and
`BuildSucceeds`, `BuildRejects`, `BuildFails` or `CheckEnds` end the pass with the
new baseline. Saves come between any two of these. `pruned` says whether the output
directory is skipped: `guessedOutputDir` knows it from a result and falls back to
`out` without one. A save gives a new stamp or keeps the former one.

Files are sources, plain files that a build copies, generated files and outputs. A build
copies before it compiles, so `BuildRejects` writes too: it copies again unless the
copy-files gate has on record the stamps that are there (`copied`, `CopiesKept`), and the
gate records only what a successful build leaves.

Two history variables name the saves that stamps cannot show. `masked`: the last
save since the pass began left the file with its stamp in the baseline. `absorbed`:
a check had no stamp of the file from before and it was saved while the check ran.

### SolutionWatch

`s` is the set of events under `mu`, `running`, `pending` and `loops` are
`compileGate` and its goroutines, `pc` is where the cycle is. A callback of a
directory triggers the gate with the lock held; one of a config file first unlocks
(`ConfigCallback`, then `ConfigTrigger`). A cycle takes the events, may reload and
refresh, invalidates, drains project by project, refreshes and copies assets. `main`
is `runBuildSolutionWatch` itself, whose first cycle is filled in without the lock
(`FillRaces`). The watcher reports a change of a file while a watch is registered
for it (`Watchers`: a project's own files under that project alone, the Rojo file under
each); an overflow stands for a change of the project, or of its tsconfig when the
directory is one of Rojo, and any other error loses what it comes with. `Close` and
`Open` are the two halves of `refresh`.

`unseen[p]` are the inputs that changed since `p` last read them; `missed[p]` are
those that no event announces any more, each with the step that lost it.

### Sidecar

A call of `runTransformerSidecar` is `Session` (warm or new), `RevertRead` and
`RevertStat` for each dropped overlay, `ShipOverlays`, `Stat` and `ReadChanged` for
each file, `Send`, and `Receive`, `Fail` and `GiveUp` with the one retry. The worker
(`tools/sidecar/lib/session.js`) keeps what it was told and what it has read
(`Handle`), and dies or is late at any point. A text is the number of the save that
wrote it, which is its stamp too; saves and deletions come between any two steps. A
request is handled in one step, so the worker reads all its files at once.

`missed` are files whose text the worker will not be told.

### Assets

Two processes, `sync` and `build`, each with the lockfile it has loaded. An upload is
`SyncReads` or `BuildReads`, one or more attempts (`Answered`, `NotAnswered`,
`Refused`), then polling (`PollFails`, `Record`); sync saves after each record, a
build at its end. The server carries a request out when it receives it, answered or
not. Merges break the lockfile and somebody mends it.

`abandoned` are assets cut loose by a known event; `tainted` are those whose content
may differ from the hash on record.

### BuildCaches

A build loads the Rojo project (`LoadMemory`, `LoadDisk`, or `Walk` and `Stamp`),
asks the gate, cleans up and copies what the gate does not skip, loads the project
again, compiles and persists. The resolver's times are of nanoseconds, so each change
gets a new one; the gate's are of milliseconds, so several changes share one. In a
solution, persists are deferred (`Defers`), and one is carried out or dropped before
the next build of the project. One directory of sources is modelled.

`touched` are files that changed since the build began; `hidden` are changes whose
time was already on record.

## 3. Runs

| Run | Instance | Shows |
| --- | --- | --- |
| `scheduler` | 3 tasks, all 64 graphs of both kinds of barriers, 2 builders | `BarriersSettled`: a running callback's barriers have outcomes. `ClosesOnce`: no channel is closed twice. `SomeoneCanStep`: the pool never blocks as a whole. `KeepsPromise`: it implements `SolutionTasks`, which returns in the end. |
| `solution_builds` | 3 projects in a chain or not, two of them writing to one place; single builds, a watch, a watch with failing builds | `StableInputs`: what a build reads of other projects stays as read. `ExclusiveWriters`. `UpToDateClosed`: nothing counts as up to date above a project that does not. `HeldUpByErrors`: between drains, what is not up to date has an error in its own text or upstream as they are now, or a change still to come or forgotten. `FreshUnlessExposed`: what counts as up to date is fresh unless exposed. `EventuallySettled`: the watch comes to rest when edits stop. |
| `solution_reload` | 2 projects, a watch with references that change, one whose references cannot be loaded, one with crashes, failing builds and failing persists | `FreshUnlessExposed` across reloads and restarts. |
| `solution_watch` | a library and an application, six set-ups of edited inputs and faults | `OneCycle`. `EventsHaveACycle`: collected events have a cycle to take them. `NothingForgotten`: a change is on its way to a build of every project that reads it, unless missed. `BlockedByFailure`: a blocked project waits for a failed one. `EditsReachBuilds`: once nobody edits, all changes but the missed ones are built. |
| `incremental_build` | 2 files, each of which may be removed; one declares an ambient module or not, the other augments the global scope; 2 options | `FreshUnlessExcepted`: a successful build leaves no output stale but those of torn and overlooked files. `NoErrorHidden`: it hides no error in a file it did not compile, but in overlooked ones. |
| `incremental_selection` | all import graphs on 3 paths, all sets of changed and present ones | `SelectsAffected`: the search is exact. `Terminates`. |
| `incremental_declarations` | a declaration file beside a source | a disagreement, see section 6 |
| `build_caches` | a Rojo config and two directories, deferred writes or not; or files, a source and their copies | `ResolverCurrent`: what Load returns is the project of that moment, but for torn and absent paths. `BuildFresh`: a build leaves fresh copies and no orphans, but for touched and hidden files. |
| `sidecar` | 2 files, overlays or worker faults, saves and deletions | `OneMessage`: the pipes hold one message from a request to its answer and none at other times. `AnswerCurrent`: an answer is about the texts of its own call, whatever workers were used before, but for missed files. `WarmKnowsDisk`: a stamp that agrees with the disk means that the warm worker has that text. `CallReturns`. |
| `assets` | 2 files, 2 texts, syncs with faults, syncs beside builds | `SyncRecordsAll`: a sync that ends without a failure has recorded every file as scanned, unless a build saved meanwhile. `LockTruthful`: a recorded hash is that of the content on the server, but for tainted assets. `AssetsAccounted`: every asset is recorded, in hand or abandoned. `IdsStable`: only a build, or a process that was overtaken, replaces an id. `SyncsCatchUp`: repeated syncs record all files. |
| `deploy` | one resource of each way to be deployed, in five scopes | `Truthful`: the state file is right but for torn and cut resources. `DependenciesReady`. `AppliedInFull`: after an apply without failures there is nothing to plan. `OrphansBounded`: no more unknown live objects than faults. `DependentsPickUp`: a dependent that is carried out gets the id its icon has now. `EventuallyDeployed`. |
| `poll_watch` | a tsconfig, a source, a plain file, the output, the copy and a lockfile; both commands | `EditsDetected`: no save is lost but masked and absorbed ones. `OutputsIgnored`: outputs wake the watch only after a failure. `ComesToRest`: it ends with the last texts read and does not answer its own writes for ever, except while a project that writes elsewhere than to `out` has errors and copies files. |

No run checks `TypeOK`: every module that is proved about has it as a theorem
(`IncrementalSelection` as a part of the invariant of `SearchIsExact`).

### Bounds, and why they are enough

* `scheduler`: 3 tasks and 2 builders have every way for a worker to wait for
  another one's task, for an unclaimed task and for a finished one, and more
  tasks than builders. The theorems hold for every number of both.
* `solution_builds` and `solution_reload`: `MaxPersists` bounds the edits while
  persists are deferred; with it at 2 two persists of one project are in the
  list, which is the case where their order matters. The texts of the library are
  interchangeable, so `solution_reload` takes them up to symmetry. Three projects give a
  chain (a change two references away) and an overlap without a reference.
* `incremental_build`: two files are enough for a file whose output depends on
  another one, for a removed import, for an ambient module that affects all, and for a
  global file that comes and goes; nothing else bounds the run.
* `solution_watch`: a library and its only dependent have every relation the code
  looks at (own change, change upstream, blocked). Nothing is bounded: edits come for
  ever. The set-ups pair the inputs that meet in one cycle and give each fault the
  inputs it concerns.
* `sidecar`: `MaxSaves` 2 and `MaxCalls` 3: a save before and one within a call; a
  call that leaves a session behind, one that uses it, and one after the overlays were
  dropped. Two files are enough for a
  program in which all files are overlaid, or one is missing.
* `assets`: two faults, one build beside any number of syncs, and `MaxAttempts` 2 for
  the 5 of the code: an attempt that is repeated and one that is the last. With two
  files there is one to record before, and one after, the other process saves.
* `build_caches`: `MaxEdits` leaves a path its first time, a changed one, a deletion
  and one that comes back; three milliseconds are a record, a change within it and one
  after it.
* `deploy`: four edits and two faults allow a resource to be created, deleted,
  and configured again with a fault at two of these. `MaxId` leaves room for the
  objects four edits and two faults can make; a call that would go beyond is not
  taken. Scopes keep unrelated kinds apart; only those with a dependency, or
  where one blocks the other's way, are together.
* `poll_watch`: three saves or failing builds together (`MaxEvents`) are enough for a
  save before a pass, one within it and one in the burst that follows. `MaxRounds` is 2
  for the 10 of the code: a burst that settles and one that meets the cap. A file needs
  six stamps: none, the one on disk, those of two snapshots and of the copy-files gate,
  and a new one.

The deadlock check is off where the system may stop: builds that are done, a
watch with no events, a configuration that is deployed.

### Fairness

* `scheduler`: weak fairness of each worker and of the caller: Go schedules every
  runnable goroutine. A callback returns in the end, as a compiler that stops.
* `solution_builds`: weak fairness of the process's steps, no fairness of edits
  and faults. `EventuallySettled` is for the modes without faults and assumes
  that edits stop.
* `incremental_selection`: weak fairness of the loop.
* `solution_watch`: weak fairness of the watcher's reports, of each config callback, of
  the cycle's goroutine and of the caller; none of edits. `EditsReachBuilds` excludes
  behaviours with edits for ever.
* `sidecar`: the call goes on and its timer fires (`roundTrip` waits with a deadline);
  a worker that lives answers or is late.
* `assets`: each process goes on and the server answers: `PollOperation` polls without
  a deadline of its own. `SyncsCatchUp` assumes that somebody keeps running sync.
* `poll_watch`: weak fairness of the process, whose timers expire; none of saves. Saves
  and builds that fail without a reason in the sources are bounded; rejected ones are not.
* `deploy`: somebody runs `apply` again while there is something to apply, and
  does not decline for ever (strong fairness of `Confirm`, since declining takes
  the prompt away). Faults are bounded by `MaxFaults`: a service that always fails
  deploys nothing. Links and thumbnails are left out of `EventuallyDeployed`
  because the code does not recover: when one was deleted without being recorded,
  every later apply is refused.

## 4. Proofs

All theorems hold for every value of the constants that satisfies the named
assumptions; these are evaluated by TLC in the runs.

**SolutionSchedulerProofs.** `TypeCorrect`, `BarriersAreSettled`,
`ChannelsCloseOnce`, `PoolNeverRunsDry`, `SchedulerKeepsPromise`. The invariant
`IInv` adds to the types that barriers are earlier, that a held task is claimed
by one worker only and still open, that every claimed task is held or closed,
that closed tasks are marked and stored, and that workers leave only at the end.
For `PoolNeverRunsDry` take the least position that is held (or the next to be
claimed): its barriers are smaller, so they are claimed, not held, hence closed.
`SchedulerKeepsPromise` is the safety part of the refinement, step by step.
`PoolAdvances`: every step claims a task, closes a channel, or takes one worker or the
caller forward, so a pool of finitely many workers and tasks has finitely many steps.

**SolutionCoordinatorProofs.** `TypeCorrect`, `InputsAreStable`,
`WritersExclude`, `UpToDateIsClosed`, for every graph with references at earlier
positions (`PositionAssumption`, `RefSetsAssumption`) and symmetric overlaps.
`CallbackInv` says that a callback which has begun has settled barriers and, if it
builds, has read the outputs that are there; `GraphInv` carries `UpToDateClosed`
through a drain, where a project skipped as up to date has only references that
are too. The lemma behind the cycle is that `Dependents` is closed: what
references a dependent is one.

`FreshnessHolds` is `FreshUnlessExposed`. Its invariant `FInv` follows a text from disk to
manifest. `BuildInv`: the output of a running or finished build is, or is going to be, what
the inputs it has read compile to. `ManifestInv`: the manifest of a project without
unsaved writes records the output on disk and, unless behind, what its recorded inputs
compile to. `PersistsInv`: of the deferred persists of a project the last one records the
output on disk. `ForceInv`: in a watch, a project that is behind, or references one that
is to be built, has the force flag. Exposed projects are excepted in each, and overtaken
ones where the manifest is read. `Merge` appends one persist for each built project in any
order (`MergedPersists`).

`ErrorsAloneHoldUp` is `HeldUpByErrors`. Its invariant `ErrorInv` follows the reason through
a drain: a failed callback has a reason in its own inputs and settled references, and a
blocked one has a failed one upstream, not merely one it waits for. `DrainNeverStuck`: the
first project in the order of the graph that has not settled builds or may run, whatever
the write roots are. `DrainAdvances`: every step takes a callback on, carries out a
persist or ends the drain, and no edit takes it back.

**IncrementalBuildProofs.** `TypeCorrect`; `SelectionSound`, about the selection alone:
of two states of the sources, a file that the manifests of the two leave out, and whose
inputs beside the manifest are the same in both, has the same input in both;
`BuildsAreFresh` (`FreshUnlessExcepted`) and `BuildsHideNoError` (`NoErrorHidden`). None
of them restricts what the compiler reads. Of what a file is compiled with, the manifest
gives one part back and `beside` the other (`Remade`, `RemadeIsInput`); two states that
agree on both have the same input (`RemadeSame`). The invariant says what a manifest
vouches for (`RecordInv`: the recorded output of each file is what the recorded texts and
`beside` compile to, without errors; `DiskInv`: an untorn output on disk is what the
manifest says), what the selection has left out (`SelectInv`), and how the manifest in
preparation relates to the disk (`CurrentInv`, `PresentInv`, `WrittenInv`).

`SearchIsExact` is about `IncrementalSelection`, for every graph: found paths are
affected, and when the queue is empty the found paths are closed. `SearchAdvances`: every
turn finds a path or shortens the queue, also on a circle of imports. `SearchServesBuild`
says that, for the changed files and the importers of a build, the set the search is
exact for is the one `IncrementalBuild` selects.

**DeployProofs.** `TypeCorrect`, `StateIsTruthful`, `DependenciesAreReady`,
`AppliesInFull`, `DependentsDoPickUp`, `OrphansAreBounded`. The invariant has four parts: the types with the fact that each
object's id belongs to one resource (`Own`); that the plan agrees with the state
it was made from for steps still to do (`Planned`); that done steps which did not
fail are in the state as planned (`Done`); and `Truthful` with `OnUnlessCut`, which
says that recorded objects are enabled unless a deletion cut them. The providers
enter through two operators only: what any call may do to the objects (`Fits`) and
what a successful call reports (`Reports`), each proved once per provider.
`OrphansBounded` needs one fact more, that what is still to be created has no entry
(`CreateInv`): with an entry, the creation would replace its ids and lose the objects.
Then each step loses track of no object or, with a fault, of one (`Loses`), and the
bound on the cardinality follows from the library's theorems on finite sets. TLC has
checked that invariant too, on the instance of the run.

What a plan is worth follows from the same invariant. `NoChangesMeansDeployed`: when there
is nothing to plan, what exists remotely is what is configured, but for torn and cut
resources. `PlanIsBinding`, an action property: whatever changes remotely or in the state
file is one resource whose step was shown and is still to do, however the call ends; it is
`Fits` read as a promise to the other resources. `AppliesAdvance` and `ApplyNeverStuck`:
each step takes its resource off the list or ends the run, and while there are steps to do
one of them is next and what it depends on has had its turn.

**WatchProofs**, of `PollWatch`. `PollTypesCorrect`, `NoSaveLost` (`EditsDetected`) and
`OwnOutputsIgnored` (`OutputsIgnored`). `EditsDetected` speaks of the time between
passes; `ReadInv` is its form within one, for what has been read already and, in a
check, has a stamp from before. A baseline that is replaced without a pass is equal
to the former one (`SameSnapshot`). `PrunedInv` says that a directory that is not
walked has no stamps in the baseline, and that only a failure makes it walked.
`SleepMeansRead`: over an unchanged snapshot the last pass has read what is there, but for
masked and absorbed saves. `RepeatedBuildIsQuiet`, an action property: a second successful
build of the same texts, and a rejected one that writes to the guessed directory, wake the
loop by nothing they write.

**WatchProofs**, of `SolutionWatch`. `TypesCorrect`, `CyclesExclude` (`OneCycle`),
`EventsAreTaken` (`EventsHaveACycle`), `ChangesReachBuilds` (`NothingForgotten`) and
`BlockedWaits` (`BlockedByFailure`), for every set of projects with a transitive
`Downstream`. `NothingForgotten` is inductive together with the shape of a cycle: where
events are taken but not yet used, and that a drain's `todo` holds what was announced.
For `BlockedByFailure` the least project upstream that is not up to date is taken.
`NothingLeftBehind`: when no cycle, callback or report is under way, every project that is
not blocked has seen all changes but the missed ones. `DrainIsWoken`: while `Drain` of the
gate waits, the goroutine that closes its channel runs. Both rest on `GateRest`, which is
inductive by itself. `TurnsAdvance`: every step of a cycle brings its turn of the gate
nearer to the end, and no edit or callback takes it back.

**BuildCachesProofs.** `TypesCorrect`, `ResolversAreCurrent` (`ResolverCurrent`) and
`BuildsLeaveFreshCopies` (`BuildFresh`), for any directories and files. An entry that
was stamped is right for the paths that are not torn as long as their stamps agree
(`Stamped`); a manifest vouches for the copies and the outputs whose times still agree
(`Good`), and `ProgressInv` follows the build through cleanup and copying.

**AssetsProofs.** `TypesCorrect`, `LockIsTruthful` (`LockTruthful`),
`NothingLost` (`AssetsAccounted`) and the action property `IdsAreStable` (`IdsStable`), for
any files, texts, faults and number of attempts. None of the three invariants is inductive
by itself: a save replaces the whole lockfile by what its process has in memory, so `AInv`
says what that may be. `FlightInv`: the id of an asset that was created and is being polled
is in nobody's lock, and is not the id the other process polls. `AddedInv`: what a build
has added is in its own lock only, so a save of the sync neither records nor taints it.
`InjectiveInv`: two files of a lock never share an asset, so recording one file says
nothing of another. `SameInv`: a process that was not overtaken has in memory the lockfile
on disk, but for what it has added; this is where the `other` flag of the model comes in.
`UploadInv`: what is polled is on the server as it was uploaded, and an update has the id of
the entry. Most steps send and save nothing (`Quiet`) and are done by one lemma
(`QuietInv`); `ExecuteInv` is about a request that is carried out, whether answered or not,
and `Saved` about any replacement of the lockfile. `IdsStable` follows from `SameInv` and
`UploadInv`: a sync that was not overtaken has the entry it replaces and therefore updates.
`SyncIsComplete` (`SyncRecordsAll`) adds `Synced`: what a sync without failures has passed is
in its lock as scanned; `SameInv` takes that to the disk. `ProcessesAdvance`: every step of a
sync or a build, retries included, brings it nearer to its end, and neither edits nor the
other process take it back.
Assumed are at least one attempt, some text, and bounds that are numbers.

**SidecarProofs.** `TypesCorrect`, `WarmWorkerKnows` (`WarmKnowsDisk`) and the
action property `AnswersAreCurrent` (`AnswerCurrent`), for any files, saves, deletions,
overlays and worker faults. During a call a text moves from `changed` to the pipe and into
the worker's overrides; `Known(f)`, what the worker will use for `f`, is the same
throughout (`HandleStep`, `SendStep`, `ReceiveStep`), so `SInv` is stated about it.
`ToldInv`, at any time and for files that are neither missed nor overlaid: a stamp that
agrees with the disk means that `Known` does, a file that is gone has no override, and no
override is a left-over overlay. `CurrentInv`: what has been compared so far is current;
`AnswerInv` says the same of the answer. They need that a text read in a call was on the
disk in that call and is not newer than the disk (`ChangedInv`, `HeldInv`): `Send` takes a
file off `missed` because what it sends is at least as new as its stamp, and the text on
disk is then the one sent. `DiskInv` says that the disk has the text of the call's start, a
later one, or none, and then the file was deleted in the call. `MailInv` says that a pipe
holds the request of this call or its answer; with `Owed`, that a call which waits is owed
one, it gives `PipesHoldOneMessage` (`OneMessage`). `CallsAdvance`: every step of a call, the
second attempt included, brings it nearer to its return, and no save or worker takes it
back. TLC has checked `SInv` on the instance of the
run, with all set-ups at once. Assumed is that the bounds are numbers.

### Only model-checked

Every invariant and every action property of a run is a theorem. What is left to TLC is
liveness and the liveness part of the refinement: fairness and ENABLED are out of the
prover's reach. Of each liveness property the theorems have the parts that need no fairness:
that the system is not stuck, that each step comes nearer to the end, or what it means to
have come to rest.

| Only model-checked | Proved of it |
| --- | --- |
| `KeepsPromise`, the return | `PoolNeverRunsDry`, `PoolAdvances`, `SchedulerKeepsPromise` |
| `EventuallySettled` | `DrainNeverStuck`, `DrainAdvances`, `ErrorsAloneHoldUp`, `FreshnessHolds` |
| `Terminates` | `SearchAdvances` |
| `EventuallyDeployed` | `AppliesAdvance`, `ApplyNeverStuck`, `NoChangesMeansDeployed` |
| `EditsReachBuilds` | `TurnsAdvance`, `DrainIsWoken`, `NothingLeftBehind` |
| `CallReturns` | `CallsAdvance`, `PipesHoldOneMessage` |
| `SyncsCatchUp` | `ProcessesAdvance`, `SyncIsComplete` |
| `ComesToRest` | `RepeatedBuildIsQuiet`, `SleepMeansRead` |

The other halves, that an enabled step is taken and that a set with finitely many members
cannot shrink for ever, stay with TLC.

## 5. Not modelled

* The translation itself (`internal/transformer`, `internal/luau`), packing,
  bundling, source maps: functions of their input. In the models of builds the
  compiler is an arbitrary function of what it reads. What it reads is modelled:
  imports, ambient modules, global files and files that are not compiled; that the
  code reads nothing else is taken from `project.go` and is not proved.
* The two outputs a file has beside its Luau (source map, declarations) are one
  output with it in `IncrementalBuild`. The declaration-only build, the copy of
  include files and `rotor.d.ts` are left out.
* In `SolutionCoordinator` and `IncrementalBuild`, whether the copy-files gate accepts is
  left open where the code asks it; `BuildCaches` models the gate, for one directory and
  without failing writes of the cache file. A persist that a solution keeps over a later
  build of the project, after a drain with errors, is given up in `BuildCaches`; the order
  of such persists is in `SolutionCoordinator`.
* In `Sidecar`, the worker's reads of several files are one step; more than one project,
  as each has a session of its own. Every save has a stamp of its own: an edit that keeps
  time and size is not seen by the session at all.
* In `Assets`, the scan, several lockfiles, and the image inside a decal, whose id takes the
  place of the decal's; of the client, the token buckets and the waits between attempts. The
  server is taken to keep the id of an asset that is updated.
* In `SolutionWatch`, the removal of stale outputs after a reload, and the set of projects,
  which is fixed. The runtime may end the process in the race of `FillRaces`. A tsconfig
  is watched by its own project; one that several projects extend is watched for each.
* In `PollWatch`, files that the walk ignores by name, and the include directory,
  which is pruned whatever the build returns; the option to write only what has changed,
  and the list of files a check finds, which is that of all sources. The build that emits
  declarations alone cannot be watched (`cmd/rotor/build.go:274`).
* In `SolutionCoordinator` the set of projects is fixed, and a change of a Rojo
  file is not among the events (it is in `SolutionWatch`).
* In `Deploy`, two applies at once, malformed state files, a file that vanishes
  between plan and apply, and blocked deletes beyond the refusal to apply them. A PATCH of
  settings sends the fields that are set, and payments never reach the service; the versions
  of one resource are taken to set the same fields, so a field that is no longer configured,
  and keeps its remote value, is not seen. `OrphansBounded` does not count thumbnails: an
  update that cannot delete a stale one uploads the set again each time.
* Components marked `not_modelled` in `PROJECT.json`, each with its reason.

## 6. Where the code and its texts disagree

One of these is a run of its own, whose property TLC refutes; the others are exceptions
that a passing run's property names, and are there exactly as far as the code goes.

* **Declarations are not tracked.** `docs/sidecar-protocol.md` says that "Rotor's own
  typecheck and emit always read fresh state". Run `incremental_declarations`: after an
  edit of a declaration file a warm incremental build compiles and checks nothing. The
  same goes for a module that augments the global scope
  (`incremental_manifest.go:294` looks for ambient modules only), for `.env` and for the
  files `$file` names, and for the Rojo project:
  `docs/superpowers/plans/2026-06-07-rotor-phase4.md:35` has its "raw Rojo config contents" in
  the salt, the code has the path. `FreshUnlessExcepted` and `NoErrorHidden` except the files
  overlooked in these ways, and no others.
* **A manifest can desynchronise.** `internal/compile/output.go:268` says that the
  manifest hashes sources and so "never desyncs incremental builds". It holds output
  hashes too, and the writer skips by them (`outputwriter.go:74`): a build stops after
  its writes, the edit is reverted, the next build succeeds with the output of the
  abandoned text in place. `FreshUnlessExcepted` excepts the torn outputs.
* **Single builds do not force dependents.** `internal/compile/solution.go:313` says that
  "Downstream projects must rebuild fully". Only the watch does that; a second incremental
  `--build` after an edit of the library keeps the application's output
  (`FreshUnlessExposed`, `behind`).
* **A manifest is trusted after its references changed.** `solution.go:315` says of a
  directly invalidated project that "its manifest stays trustworthy". It is not when a
  reference was taken away, rebuilt and given back while the project had errors
  (`FreshUnlessExposed`, `overtaken`).
* **Dependents do not pick up a new asset.** `internal/deploy/providers.go:283` says that
  "changed content gets a fresh asset, which dependents pick up through the output lookup".
  When only the icon file changes, the badge's step is a no-op and it keeps the id of the
  former asset; `DependentsPickUp` is about the dependents that are carried out.
* **The first check has no baseline.** `roadmap.md:230` says that baselines from before
  a pass keep a save during it from being absorbed, for `check -w` too. `runWatch` takes its
  first snapshot after the first check (`cmd/rotor/watch.go:230`), and a file saved meanwhile
  is not checked until it is saved again (`EditsDetected`, `absorbed`).
* **A failing build can wake itself.** `cmd/rotor/watch.go:292` says that build outputs "never
  dirty the baseline". A build without a result prunes `out` only; with another output
  directory its writes are walked (`OutputsIgnored` names the exception). A build that is
  rejected has copied the plain files by then, and does so again each time, because the
  copy-files gate records copies only after a success: the watch rebuilds without a pause
  until the errors are mended (`ComesToRest`, `Restless`).
* **A session can owe the worker an edit.** `internal/compile/sidecar.go:422` says that "a
  session cannot reach a second round trip having stamped nothing and still owe the worker a
  disk edit". A call that overlays all files of its program stamps none, and the next one
  only stamps. The known limitation that follows in the code is narrower than the cases in
  `missed`: files stamped before a read failed are not sent either, and a save between the
  read and the stat of a dropped overlay is not.
* **A broken lockfile does not always give an error per reference.** `internal/compile/project.go:404`
  says that one that does not parse makes `$asset` references "error clearly". With a client
  configured the build uploads every file again and replaces the lockfile. `README.md:114`
  says that "updates keep asset ids stable": a sync does, a build gives a changed file a new
  asset (`IdsStable`).

## 7. Plan

Next, in this order:

1. **Algorithms as operators**: post-order and cycle detection of the solution graph, Rojo
   path resolution, the Luau statement list, `parallelize` as a pool.
2. **Token buckets** of the cloud client, with a clock.
