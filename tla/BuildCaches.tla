----------------------------- MODULE BuildCaches -----------------------------
(***************************************************************************)
(* The two caches of a build that are checked by file times: the resolver  *)
(* of the Rojo project (internal/rojo/resolver_cache.go) and the gate that *)
(* skips the cleanup and the copying of files that are not compiled        *)
(* (internal/compile/copyfilesgate.go), in the order in which a build uses *)
(* them, while files change at any moment.                                 *)
(*                                                                         *)
(* A config or directory of the Rojo project is its time in nanoseconds,   *)
(* which each change makes a new one.  The gate has times in milliseconds, *)
(* so several changes may have the same.  One directory of sources is      *)
(* modelled.                                                               *)
(***************************************************************************)
EXTENDS Naturals

CONSTANTS
    Dirs,         \* directories of the Rojo project
    Files,        \* files that are copied
    Sources,      \* files that are compiled
    Setups,       \* see setup
    MaxEdits,     \* bound of edits of the Rojo project
    MaxTime       \* bound of now

\* A file is compiled or copied, not both.
ASSUME FilesAssumption == Files \cap Sources = {}

ASSUME BoundAssumption == MaxEdits \in Nat \ {0} /\ MaxTime \in Nat \ {0}

Config == "config"

Paths == {Config} \cup Dirs

VARIABLES
    setup,        \* which files change, and whether writes are deferred
    tree, edits,  \* the Rojo project: its paths, and the number of edits
    l1, l2, pending,            \* RojoResolverCache; l2 is on the disk
    walk,         \* the resolver FromPath has made, not yet stamped
    now,          \* the time in milliseconds
    src, dir,     \* the times of the files to copy and of their directory
    dest, same,   \* the times of the copies; those with the text of the file
    comp, out,    \* the compiled files that exist, and their outputs
    manifest, current,          \* the gate's manifest on the disk, and the new one
    skip,         \* SkipCleanup and SkipCopyFiles
    pc, todo,     \* where the build is, and the files still to copy
    touched,      \* history: files that changed since the build began
    hidden        \* history: changes with a time that was already recorded

rojo == <<tree, edits, l1, l2, pending, walk>>

files == <<now, src, dir, dest, same, comp, out>>

gate == <<manifest, current, skip, touched, hidden>>

vars == <<setup, rojo, files, gate, pc, todo>>

\* No file, and no entry in a cache.
Absent == 0

None == <<>>

\* An entry of another version.
Bad == [version |-> 0]

Init ==
    /\ setup \in Setups
    /\ tree = [p \in Paths |-> 1] /\ edits = 1
    /\ l1 = None /\ l2 = None /\ pending = None /\ walk = None
    /\ now = 1
    /\ src = [f \in Files |-> 1] /\ dir = 1
    /\ dest = [f \in Files |-> Absent] /\ same = {}
    /\ comp = Sources /\ out = {}
    /\ manifest = None /\ current = None /\ skip = {}
    /\ pc = "idle" /\ todo = {}
    /\ touched = {} /\ hidden = {}
-------------------------------------------------------------------------------
(***************************************************************************)
(* Changes from outside.                                                   *)
(***************************************************************************)

\* A path of the Rojo project is changed, created or deleted.  What a walk has
\* already read of it is torn.
Edit(p) ==
    /\ "rojo" \in setup
    /\ edits < MaxEdits
    /\ edits' = edits + 1
    /\ \/ tree' = [tree EXCEPT ![p] = edits']
       \/ p \in Dirs /\ tree[p] # Absent /\ tree' = [tree EXCEPT ![p] = Absent]
    /\ walk' = IF walk = None THEN walk ELSE [walk EXCEPT !.torn = @ \cup {p}]
    /\ UNCHANGED <<setup, l1, l2, pending, files, gate, pc, todo>>

\* Another version of the compiler takes no cache of this one.
Upgrade ==
    /\ "upgrade" \in setup
    /\ pc = "idle"
    /\ l2 # None \/ manifest # None
    /\ l2' = (IF l2 = None THEN None ELSE Bad)
    /\ manifest' = None
    /\ UNCHANGED <<setup, tree, edits, l1, pending, walk, files, current, skip, touched, hidden, pc, todo>>

Tick ==
    /\ "files" \in setup
    /\ now < MaxTime
    /\ now' = now + 1
    /\ UNCHANGED <<setup, rojo, src, dir, dest, same, comp, out, gate, pc, todo>>

\* The manifests that are, or will be, on the disk.
Manifests == {manifest, current} \ {None}

\* A manifest that does not have f passes as current, so that f goes unseen.
Unlisted(f, mtime) == \E m \in Manifests : m.src[f] = Absent /\ m.dir = mtime

\* x is deleted and its directory gets the time of now.  If that time is
\* recorded already and x is not, which a compiled file never is, that is
\* hidden until the gate sees another time.
DirChanged(x) ==
    /\ dir' = now
    /\ touched' = touched \cup {x}
    /\ LET recorded == \E m \in Manifests : m.dir = now
       IN  hidden' = (IF recorded \/ pc \notin {"idle", "load"} THEN hidden ELSE hidden \ Sources)
                       \cup {y \in {x} : IF x \in Files THEN Unlisted(x, now) ELSE recorded}
    /\ UNCHANGED <<setup, rojo, now, dest, out, manifest, current, skip, pc, todo>>

\* A file is saved or created.  That is hidden when its time is recorded
\* already, or when the file is not and the time of its directory is.
SaveFile(f) ==
    /\ "files" \in setup
    /\ src' = [src EXCEPT ![f] = now]
    /\ dir' = IF src[f] = Absent THEN now ELSE dir
    /\ same' = same \ {f}
    /\ touched' = touched \cup {f}
    /\ hidden' = IF Unlisted(f, dir') \/ \E m \in Manifests : m.src[f] = now
                 THEN hidden \cup {f}
                 ELSE hidden \ {f}
    /\ UNCHANGED <<setup, rojo, now, dest, comp, out, manifest, current, skip, pc, todo>>

DeleteFile(f) ==
    /\ "files" \in setup
    /\ src[f] # Absent
    /\ src' = [src EXCEPT ![f] = Absent]
    /\ same' = same \ {f}
    /\ DirChanged(f)
    /\ UNCHANGED comp

DeleteSource(s) ==
    /\ "files" \in setup
    /\ s \in comp
    /\ comp' = comp \ {s}
    /\ DirChanged(s)
    /\ UNCHANGED <<src, same>>

\* A copy is changed or deleted by somebody.  While a build is to record the
\* times of the copies, the change will be taken for its own.
ChangeDest(f) ==
    /\ "dest" \in setup
    /\ dest[f] # Absent
    /\ \E time \in {now, Absent} :
        /\ dest' = [dest EXCEPT ![f] = time]
        /\ hidden' = IF \/ Unlisted(f, dir)
                        \/ time = now /\ (current # None \/ \E m \in Manifests : m.dest[f] = now)
                     THEN hidden \cup {f}
                     ELSE hidden
    /\ same' = same \ {f}
    /\ touched' = touched \cup {f}
    /\ UNCHANGED <<setup, rojo, now, src, dir, comp, out, manifest, current, skip, pc, todo>>
-------------------------------------------------------------------------------
(***************************************************************************)
(* Plausible mistakes in the code below; none of them is part of the       *)
(* model.                                                                  *)
(***************************************************************************)

\* Only configs are compared.
ValidConfig(e) == e.stamps[Config] = tree[Config]

\* Copies that are there are taken as they are.
DestsExist(m) == \A f \in Files : m.src[f] # Absent => dest[f] # Absent
-------------------------------------------------------------------------------
(***************************************************************************)
(* RojoResolverCache.Load.                                                 *)
(***************************************************************************)

Defers == "deferred" \in setup

\* The paths that a walk has met, which are those that were there.
Walked(e) == {p \in Paths : e.state[p] # Absent}

\* manifestStillValid.
Valid(e) == \A p \in Walked(e) : e.stamps[p] = tree[p]

InMemory == l1 # None /\ Valid(l1)

OnDisk == l2 \notin {None, Bad} /\ Valid(l2)

\* Load is called before the gate, and again for the project's context.
AfterLoad == IF pc = "load" THEN "gate" ELSE "compile"

LoadMemory ==
    /\ pc \in {"load", "reload"}
    /\ walk = None
    /\ InMemory
    /\ pc' = AfterLoad
    /\ UNCHANGED <<setup, rojo, files, gate, todo>>

LoadDisk ==
    /\ pc \in {"load", "reload"}
    /\ walk = None
    /\ ~InMemory
    /\ OnDisk
    /\ l1' = l2
    /\ pc' = AfterLoad
    /\ UNCHANGED <<setup, tree, edits, l2, pending, walk, files, gate, todo>>

\* FromPath reads the project.  loadDisk has removed the file, whether it is of
\* another version or no longer valid, when writes are not deferred.
Walk ==
    /\ pc \in {"load", "reload"}
    /\ walk = None
    /\ ~InMemory
    /\ ~OnDisk
    /\ l1' = None
    /\ l2' = IF Defers THEN l2 ELSE None
    /\ walk' = [state |-> tree, torn |-> {}]
    /\ UNCHANGED <<setup, tree, edits, pending, files, gate, pc, todo>>

\* The times come from resolverMtimeManifest afterwards.  If a path is gone by
\* then the resolver is used and not cached.
Stamp ==
    /\ walk # None
    /\ LET entry == [state |-> walk.state, stamps |-> tree, torn |-> walk.torn]
           ok == \A p \in Walked(walk) : tree[p] # Absent
       IN  /\ l1' = IF ok THEN entry ELSE None
           /\ pending' = IF ok /\ Defers THEN entry ELSE pending
           /\ l2' = IF ok /\ ~Defers THEN entry ELSE l2
    /\ walk' = None
    /\ pc' = AfterLoad
    /\ UNCHANGED <<setup, tree, edits, files, gate, todo>>
-------------------------------------------------------------------------------
(***************************************************************************)
(* The build.                                                              *)
(***************************************************************************)

\* Each build has a resolver cache of its own.  What an earlier build has left
\* unwritten is given up here; a solution keeps it, and writes it just before
\* what the next successful build of the project leaves.
Start ==
    /\ pc = "idle"
    /\ pc' = "load"
    /\ l1' = None /\ pending' = None
    /\ touched' = {}
    /\ UNCHANGED <<setup, tree, edits, l2, walk, files, manifest, current, skip, hidden, todo>>

\* copyFilesDestsValid
DestsValid(m) == \A f \in Files : m.src[f] # Absent => dest[f] # Absent /\ dest[f] = m.dest[f]

\* buildCopyFilesManifest, with one directory.
CurrentManifest == [src |-> src, dir |-> dir, dest |-> dest]

\* copyFilesFastValidate, which looks at nothing but what is recorded.
FastValidate(m) ==
    /\ m.dir = dir
    /\ \A f \in Files : m.src[f] # Absent => src[f] = m.src[f]
    /\ DestsValid(m)

\* loadCopyFilesGatePreBuild.  changed: there are files the build has selected.
Gate(changed) ==
    /\ pc = "gate"
    /\ LET fast == manifest # None /\ ~changed /\ FastValidate(manifest)
           copied == manifest # None /\ manifest.src = src /\ DestsValid(manifest)
           clean == copied /\ manifest.dir = dir /\ ~changed
       IN  /\ skip' = (IF fast \/ copied THEN {"copy"} ELSE {}) \cup (IF fast \/ clean THEN {"cleanup"} ELSE {})
           /\ current' = IF fast THEN None ELSE CurrentManifest
    /\ pc' = "cleanup"
    /\ UNCHANGED <<setup, rojo, files, manifest, touched, hidden, todo>>

\* cleanupOutputs removes the outputs that have no input.
Cleanup ==
    /\ pc = "cleanup"
    /\ \/ /\ "cleanup" \in skip
          /\ UNCHANGED <<dest, out, hidden>>
       \/ /\ "cleanup" \notin skip
          /\ dest' = [f \in Files |-> IF src[f] = Absent THEN Absent ELSE dest[f]]
          /\ out' = out \cap comp
          /\ hidden' = hidden \ (Sources \cup {f \in Files : src[f] = Absent})
    /\ todo' = IF "copy" \in skip THEN {} ELSE Files
    /\ pc' = "copy"
    /\ UNCHANGED <<setup, rojo, now, src, dir, same, comp, manifest, current, skip, touched>>

\* copyItem.  With writeOnlyChanged an equal copy is left as it is.
Copy(f) ==
    /\ pc = "copy"
    /\ f \in todo
    /\ todo' = todo \ {f}
    /\ \/ /\ src[f] # Absent
          /\ dest' = [dest EXCEPT ![f] = now]
          /\ same' = same \cup {f}
          /\ hidden' = hidden \ {f}
       \/ /\ src[f] = Absent \/ (f \in same /\ dest[f] # Absent)
          /\ UNCHANGED <<dest, same, hidden>>
    /\ UNCHANGED <<setup, rojo, now, src, dir, comp, out, manifest, current, skip, touched, pc>>

EndCopy ==
    /\ pc = "copy"
    /\ todo = {}
    /\ pc' = "reload"
    /\ UNCHANGED <<setup, rojo, files, gate, todo>>

Compile ==
    /\ pc = "compile"
    /\ out' = out \cup comp
    /\ pc' = "persist"
    /\ UNCHANGED <<setup, rojo, now, src, dir, dest, same, comp, gate, todo>>

\* persist, after the build or after all builds of a solution: the resolver that
\* was deferred, and the manifest with the times the copies have then, if it
\* can be written.
Persist ==
    /\ pc = "persist"
    /\ l2' = IF pending = None THEN l2 ELSE pending
    /\ pending' = None
    /\ manifest' \in {manifest, IF current = None THEN manifest ELSE [current EXCEPT !.dest = dest]}
    /\ current' = None
    /\ pc' = "idle"
    /\ UNCHANGED <<setup, tree, edits, l1, walk, files, skip, touched, hidden, todo>>

\* The build fails or the process ends at any point, or the solution fails and
\* persists nothing.
Fail ==
    /\ pc # "idle"
    /\ pc' = "idle"
    /\ walk' = None /\ pending' = None /\ current' = None
    /\ todo' = {}
    /\ UNCHANGED <<setup, tree, edits, l1, l2, files, manifest, skip, touched, hidden>>

Next ==
    \/ \E p \in Paths : Edit(p)
    \/ Upgrade \/ Tick
    \/ \E f \in Files : SaveFile(f) \/ DeleteFile(f) \/ ChangeDest(f) \/ Copy(f)
    \/ \E s \in Sources : DeleteSource(s)
    \/ LoadMemory \/ LoadDisk \/ Walk \/ Stamp
    \/ Start
    \/ \E changed \in BOOLEAN : Gate(changed)
    \/ Cleanup \/ EndCopy \/ Compile \/ Persist \/ Fail

Spec == Init /\ [][Next]_vars
-------------------------------------------------------------------------------
Entry == [state : [Paths -> 0 .. MaxEdits], stamps : [Paths -> 0 .. MaxEdits], torn : SUBSET Paths]

Manifest == [src : [Files -> 0 .. MaxTime], dir : 1 .. MaxTime, dest : [Files -> 0 .. MaxTime]]

Cached(e) == e \in Entry /\ \A p \in Walked(e) : e.stamps[p] # Absent

\* The types; a cached resolver has a time for each path it has walked, and
\* waits to be written only in a build whose writes are deferred.
TypeOK ==
    /\ setup \in Setups
    /\ tree \in [Paths -> 0 .. MaxEdits] /\ edits \in 1 .. MaxEdits
    /\ l1 = None \/ Cached(l1)
    /\ l2 \in {None, Bad} \/ Cached(l2)
    /\ pending = None \/ ("deferred" \in setup /\ Cached(pending))
    /\ walk = None \/ walk \in [state : [Paths -> 0 .. MaxEdits], torn : SUBSET Paths]
    /\ now \in 1 .. MaxTime /\ dir \in 1 .. now
    /\ src \in [Files -> 0 .. now] /\ dest \in [Files -> 0 .. now] /\ same \subseteq Files
    /\ comp \subseteq Sources /\ out \subseteq Sources
    /\ manifest = None \/ manifest \in Manifest
    /\ current = None \/ current \in Manifest
    /\ skip \subseteq {"copy", "cleanup"} /\ todo \subseteq Files
    /\ pc \in {"idle", "load", "gate", "cleanup", "copy", "reload", "compile", "persist"}
    /\ touched \subseteq Files \cup Sources /\ hidden \subseteq Files \cup Sources

\* What Load returns, from memory, from the disk or from a walk, is the project
\* as it is at that moment.  The exceptions are a path that was edited between
\* the walk and its stamp, and a path that was not there when it was walked,
\* which has no stamp: both stay wrong in later builds.
ResolverCurrent ==
    [][LoadMemory \/ LoadDisk \/ Stamp =>
        LET got == IF walk # None THEN walk ELSE l1'
        IN  \A p \in Paths \ got.torn : got.state[p] \in {Absent, tree[p]}]_vars

\* After a build, with whatever the gate has skipped, each copy has the text of
\* its file and nothing is left of files that are gone.  The exceptions are the
\* files that changed during the build, and the hidden ones: a change within
\* the millisecond that is on record, and a copy changed by somebody before the
\* build has recorded its time.
BuildFresh ==
    [][Compile =>
        /\ \A f \in Files \ (touched \cup hidden) :
            IF src[f] = Absent THEN dest[f] = Absent ELSE dest[f] # Absent /\ f \in same
        /\ \A s \in Sources \ (touched \cup hidden) : s \in out' => s \in comp]_vars
===============================================================================
