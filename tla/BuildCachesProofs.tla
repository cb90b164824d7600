--------------------------- MODULE BuildCachesProofs ---------------------------
(***************************************************************************)
(* What the two caches of a build may be trusted with, for any paths,      *)
(* files, sources and bounds.                                              *)
(***************************************************************************)
EXTENDS BuildCaches, TLAPS

RojoTypes ==
    /\ setup \in Setups
    /\ tree \in [Paths -> 0 .. MaxEdits] /\ edits \in 1 .. MaxEdits
    /\ l1 = None \/ Cached(l1)
    /\ l2 \in {None, Bad} \/ Cached(l2)
    /\ pending = None \/ ("deferred" \in setup /\ Cached(pending))
    /\ walk = None \/ walk \in [state : [Paths -> 0 .. MaxEdits], torn : SUBSET Paths]
    /\ pc \in {"idle", "load", "gate", "cleanup", "copy", "reload", "compile", "persist"}

\* A stamp is the time of what was walked, but for torn paths.
Stamped(e) == \A p \in Walked(e) \ e.torn : e.stamps[p] = e.state[p]

\* What was walked is there still, but for torn paths.
RojoInv ==
    /\ RojoTypes
    /\ walk # None =>
        /\ pc \in {"load", "reload"}
        /\ \A p \in Paths \ walk.torn : walk.state[p] = tree[p]
    /\ l1 = None \/ Stamped(l1)
    /\ l2 \in {None, Bad} \/ Stamped(l2)
    /\ pending = None \/ Stamped(pending)

USE FilesAssumption, BoundAssumption
-------------------------------------------------------------------------------
(***************************************************************************)
(* The resolver cache.                                                     *)
(***************************************************************************)
LEMMA RojoInit == Init => RojoInv
BY SMTT(60) DEF Init, RojoInv, RojoTypes

\* Both levels and the deferred entry take only what Stamp makes.
LEMMA RojoStep == RojoInv /\ [Next]_vars => RojoInv'
<1> SUFFICES ASSUME RojoInv, [Next]_vars
             PROVE  RojoInv'
  OBVIOUS
<1> USE DEF RojoInv, RojoTypes
<1>1. ASSUME NEW p \in Paths, Edit(p)
      PROVE  RojoInv'
  <2>1. tree' \in [Paths -> 0 .. MaxEdits] /\ edits' \in 1 .. MaxEdits
    BY <1>1 DEF Edit, Absent
  <2>2. \A q \in Paths : q # p => tree'[q] = tree[q]
    BY <1>1 DEF Edit
  <2>3. walk' = None \/ walk' \in [state : [Paths -> 0 .. MaxEdits], torn : SUBSET Paths]
    BY <1>1 DEF Edit
  <2>4. walk' # None => \A q \in Paths \ walk'.torn : walk'.state[q] = tree'[q]
    BY <1>1, <2>2 DEF Edit
  <2>5. walk' # None => walk # None
    BY <1>1, ZenonT(60) DEF Edit
  <2> QED
    BY <1>1, <2>1, <2>3, <2>4, <2>5 DEF Edit, Cached, Stamped, Walked
<1>2. CASE Upgrade
  BY <1>2 DEF Upgrade, Cached, Stamped, Walked
<1>3. CASE LoadMemory \/ LoadDisk
  BY <1>3 DEF LoadMemory, LoadDisk, AfterLoad, OnDisk, Cached, Stamped, Walked, rojo
<1>4. CASE Walk
  BY <1>4, ZenonT(60) DEF Walk, Cached, Stamped, Walked
<1>5. CASE Stamp
  <2> DEFINE entry == [state |-> walk.state, stamps |-> tree, torn |-> walk.torn]
  <2>1. (\A p \in Walked(walk) : tree[p] # Absent) => Cached(entry)
    BY <1>5 DEF Stamp, Cached, Entry, Walked
  <2>2. Stamped(entry)
    BY <1>5 DEF Stamp, Stamped, Walked
  <2>3. pc' \in {"gate", "compile"} /\ walk' = None
    BY <1>5 DEF Stamp, AfterLoad
  <2> QED
    BY <1>5, <2>1, <2>2, <2>3, ZenonT(60) DEF Stamp, Defers, Cached, Stamped, Walked
<1>6. CASE Start \/ Persist \/ Fail
  BY <1>6 DEF Start, Persist, Fail, Cached, Stamped, Walked
<1>7. ASSUME NEW changed \in BOOLEAN, Gate(changed)
      PROVE  RojoInv'
  BY <1>7, ZenonT(60) DEF Gate, rojo, Cached, Stamped, Walked
<1>8. CASE Cleanup \/ EndCopy \/ Compile
  BY <1>8 DEF Cleanup, EndCopy, Compile, rojo, Cached, Stamped, Walked
<1>9. CASE UNCHANGED <<setup, rojo, pc>>
  BY <1>9, SMTT(60) DEF rojo, Cached, Stamped, Walked
<1>10. CASE Tick \/ (\E f \in Files : SaveFile(f) \/ DeleteFile(f) \/ ChangeDest(f) \/ Copy(f))
            \/ (\E s \in Sources : DeleteSource(s)) \/ UNCHANGED vars
  BY <1>9, <1>10 DEF Tick, SaveFile, DeleteFile, DeleteSource, DirChanged, ChangeDest, Copy, vars
<1> QED
  BY <1>1, <1>2, <1>3, <1>4, <1>5, <1>6, <1>7, <1>8, <1>10, ZenonT(60) DEF Next

\* ResolverCurrent: what Load returns is the project as it is at that moment,
\* but for paths that were edited between walk and stamp and those that were
\* not there.
THEOREM ResolversAreCurrent == Spec => ResolverCurrent
<1> DEFINE Got == IF walk # None THEN walk ELSE l1'
           Good == \A p \in Paths \ Got.torn : Got.state[p] \in {Absent, tree[p]}
<1>1. RojoInv /\ LoadMemory => Good
  BY DEF RojoInv, RojoTypes, LoadMemory, InMemory, Valid, Stamped, Walked, Cached, Entry, rojo
<1>2. RojoInv /\ LoadDisk => Good
  BY DEF RojoInv, RojoTypes, LoadDisk, OnDisk, Valid, Stamped, Walked, Cached, Entry
<1>3. RojoInv /\ Stamp => Good
  BY DEF RojoInv, Stamp
<1>4. RojoInv /\ [Next]_vars => [LoadMemory \/ LoadDisk \/ Stamp => Good]_vars
  BY <1>1, <1>2, <1>3
<1> QED
  BY <1>4, RojoInit, RojoStep, PTL DEF Spec, ResolverCurrent
-------------------------------------------------------------------------------
(***************************************************************************)
(* The gate.                                                               *)
(***************************************************************************)
GateTypes ==
    /\ now \in 1 .. MaxTime /\ dir \in 1 .. now
    /\ src \in [Files -> 0 .. now] /\ dest \in [Files -> 0 .. now] /\ same \subseteq Files
    /\ comp \subseteq Sources /\ out \subseteq Sources
    /\ manifest = None \/ manifest \in Manifest
    /\ current = None \/ current \in Manifest
    /\ skip \subseteq {"copy", "cleanup"} /\ todo \subseteq Files
    /\ touched \subseteq Files \cup Sources /\ hidden \subseteq Files \cup Sources

LEMMA GateTypesInit == Init => GateTypes
BY SMTT(60) DEF Init, GateTypes, Absent

LEMMA GateTypesStep == GateTypes /\ [Next]_vars => GateTypes'
<1> SUFFICES ASSUME GateTypes, [Next]_vars
             PROVE  GateTypes'
  OBVIOUS
<1> USE DEF GateTypes, Manifest
<1>1. CASE UNCHANGED <<files, gate, todo>>
  BY <1>1 DEF files, gate
<1>2. CASE (\E p \in Paths : Edit(p)) \/ LoadMemory \/ LoadDisk \/ Walk \/ Stamp \/ EndCopy \/ UNCHANGED vars
  BY <1>1, <1>2 DEF Edit, LoadMemory, LoadDisk, Walk, Stamp, EndCopy, vars
<1>3. CASE Upgrade \/ Tick \/ Start
  <2>1. CASE Upgrade
    BY <2>1 DEF Upgrade, files
  <2>2. CASE Tick
    BY <2>2 DEF Tick, gate
  <2>3. CASE Start
    BY <2>3 DEF Start, files
  <2> QED
    BY <1>3, <2>1, <2>2, <2>3
<1>4. ASSUME NEW f \in Files, SaveFile(f)
      PROVE  GateTypes'
  BY <1>4 DEF SaveFile
<1>5. ASSUME NEW f \in Files, DeleteFile(f)
      PROVE  GateTypes'
  BY <1>5 DEF DeleteFile, DirChanged, Absent
<1>6. ASSUME NEW f \in Files, ChangeDest(f)
      PROVE  GateTypes'
  BY <1>6 DEF ChangeDest, Absent
<1>7. ASSUME NEW f \in Files, Copy(f)
      PROVE  GateTypes'
  BY <1>7 DEF Copy
<1>8. ASSUME NEW s \in Sources, DeleteSource(s)
      PROVE  GateTypes'
  BY <1>8 DEF DeleteSource, DirChanged
<1>9. ASSUME NEW changed \in BOOLEAN, Gate(changed)
      PROVE  GateTypes'
  BY <1>9 DEF Gate, CurrentManifest, files
<1>10. CASE Cleanup
  BY <1>10 DEF Cleanup, Absent
<1>11. CASE Compile
  BY <1>11 DEF Compile, gate
<1>12. CASE Persist
  BY <1>12 DEF Persist, files
<1>13. CASE Fail
  BY <1>13 DEF Fail, files
<1> QED
  BY <1>2, <1>3, <1>4, <1>5, <1>6, <1>7, <1>8, <1>9, <1>10, <1>11, <1>12, <1>13, ZenonT(60) DEF Next

\* TypeOK: the types; a cached resolver has a time for each path it has walked,
\* and waits to be written only in a build whose writes are deferred.
THEOREM TypesCorrect == Spec => []TypeOK
<1>1. RojoInv /\ GateTypes => TypeOK
  BY DEF RojoInv, RojoTypes, GateTypes, TypeOK
<1> QED
  BY <1>1, RojoInit, RojoStep, GateTypesInit, GateTypesStep, PTL DEF Spec
-------------------------------------------------------------------------------
\* The copy of f is as it should be.
Good(f) == IF src[f] = Absent THEN dest[f] = Absent ELSE dest[f] # Absent /\ f \in same

\* What the manifest on the disk vouches for: a file and a copy with the
\* recorded times have the same text, and in a directory with the recorded time
\* there is nothing but what is recorded.
ManifestInv ==
    manifest # None =>
        /\ manifest.dir <= dir
        /\ \A f \in Files \ hidden :
            /\ manifest.src[f] # Absent /\ src[f] = manifest.src[f] /\ dest[f] = manifest.dest[f] /\ dest[f] # Absent
                => f \in same
            /\ manifest.src[f] = Absent /\ manifest.dir = dir => Good(f)
        /\ \A s \in Sources \ hidden : manifest.dir = dir /\ s \in out => s \in comp

\* The steps of a build between the gate and its end.
Running == pc \in {"cleanup", "copy", "reload", "compile", "persist"}

Copied(f) == IF pc = "cleanup" THEN "copy" \in skip ELSE f \notin todo

Cleaned == pc = "cleanup" => "cleanup" \in skip

\* What the new manifest will vouch for, as far as the build has come.
CurrentInv ==
    current # None =>
        /\ Running
        /\ current.dir <= dir
        /\ \A f \in Files \ hidden :
            /\ current.src[f] # Absent /\ src[f] = current.src[f] /\ dest[f] # Absent /\ Copied(f) => f \in same
            /\ current.src[f] = Absent /\ current.dir = dir =>
                IF pc = "cleanup" THEN src[f] = Absent /\ (Cleaned => dest[f] = Absent) ELSE Good(f)
        /\ \A s \in Sources \ hidden : current.dir = dir /\ s \in out /\ Cleaned => s \in comp

\* What the build has seen to, among the files nobody has touched.
ProgressInv ==
    /\ pc \in {"cleanup", "copy", "reload", "compile"} =>
        /\ \A f \in Files \ (touched \cup hidden) :
            /\ src[f] = Absent /\ Cleaned => dest[f] = Absent
            /\ src[f] # Absent /\ Copied(f) => dest[f] # Absent /\ f \in same
        /\ \A s \in Sources \ (touched \cup hidden) : s \in out /\ Cleaned => s \in comp
    /\ pc \in {"reload", "compile", "persist"} => todo = {}

GateInv == ManifestInv /\ CurrentInv /\ ProgressInv

LEMMA GateInit == Init => GateInv
BY ZenonT(60) DEF Init, GateInv, ManifestInv, CurrentInv, ProgressInv

\* A step that touches neither files nor manifests.
LEMMA GateUnchanged ==
    ASSUME GateInv, UNCHANGED <<files, manifest, current, skip, hidden, touched, todo>>,
           \/ UNCHANGED pc
           \/ pc' = "gate" /\ pc = "load"
           \/ pc' = "compile" /\ pc = "reload"
    PROVE  GateInv'
BY DEF GateInv, ManifestInv, CurrentInv, ProgressInv, Good, Running, Copied, Cleaned, files

LEMMA GateStep == RojoInv /\ GateTypes /\ GateInv /\ [Next]_vars => GateInv'
<1> SUFFICES ASSUME RojoInv, GateTypes, GateInv, [Next]_vars
             PROVE  GateInv'
  OBVIOUS
<1>1. CASE (\E p \in Paths : Edit(p)) \/ LoadMemory \/ LoadDisk \/ Walk \/ UNCHANGED vars
  BY <1>1, GateUnchanged DEF Edit, LoadMemory, LoadDisk, Walk, AfterLoad, files, gate, vars
<1>2. CASE Stamp
  BY <1>2, GateUnchanged DEF Stamp, AfterLoad, files, gate, RojoInv
<1>3. CASE Upgrade \/ Tick \/ Start \/ Fail
  <2>1. CASE Upgrade
    BY <2>1, ZenonT(60) DEF Upgrade, GateInv, ManifestInv, CurrentInv, ProgressInv, Running, files
  <2>2. CASE Tick
    BY <2>2, ZenonT(60) DEF Tick, GateInv, ManifestInv, CurrentInv, ProgressInv, Running, Good, Copied, Cleaned, gate
  <2>3. CASE Start
    BY <2>3, ZenonT(60) DEF Start, GateInv, ManifestInv, CurrentInv, ProgressInv, Running, Good, files
  <2>4. CASE Fail
    BY <2>4 DEF Fail, GateInv, ManifestInv, CurrentInv, ProgressInv, Good, files
  <2> QED
    BY <1>3, <2>1, <2>2, <2>3, <2>4, ZenonT(60)
<1>4. ASSUME NEW f \in Files, SaveFile(f)
      PROVE  GateInv'
  <2>1. \A g \in Files : g # f => src'[g] = src[g]
    BY <1>4 DEF SaveFile, GateTypes
  <2>2. src'[f] = now /\ now # Absent
    BY <1>4 DEF SaveFile, GateTypes, Absent
  <2>3. \A m \in Manifests : m.dir <= dir => m.dir <= dir' /\ (m.dir = dir' => m.dir = dir)
    BY <1>4, SMTT(60) DEF SaveFile, GateTypes, Manifests, Manifest
  <2>4. f \notin hidden' => \A m \in Manifests : m.src[f] # now /\ (m.src[f] = Absent => m.dir # dir')
    BY <1>4 DEF SaveFile, Unlisted
  <2>5. \A x \in Files \cup Sources : x # f => (x \in hidden' <=> x \in hidden) /\ (x \in same' <=> x \in same)
    BY <1>4 DEF SaveFile
  <2>6. touched' = touched \cup {f} /\ f \notin Sources
    BY <1>4 DEF SaveFile
  <2>7. UNCHANGED <<dest, comp, out, manifest, current, skip, pc, todo>>
    BY <1>4, ZenonT(60) DEF SaveFile
  <2>8. ManifestInv'
    BY <2>1, <2>2, <2>3, <2>4, <2>5, <2>6, <2>7 DEF GateInv, ManifestInv, Good, Manifests
  <2>9. CurrentInv'
    BY <2>1, <2>2, <2>3, <2>4, <2>5, <2>6, <2>7 DEF GateInv, CurrentInv, Good, Manifests, Running, Copied, Cleaned
  <2>10. ProgressInv'
    BY <2>1, <2>5, <2>6, <2>7 DEF GateInv, ProgressInv, Copied, Cleaned
  <2> QED
    BY <2>8, <2>9, <2>10 DEF GateInv
<1>5. ASSUME NEW x \in Files \cup Sources, DirChanged(x)
      PROVE  /\ \A m \in Manifests : m.dir <= dir => m.dir <= dir' /\ (m.dir = dir' => m.dir = dir)
             /\ x \in Files \ hidden' => \A m \in Manifests : m.src[x] = Absent => m.dir # dir'
             /\ x \in Sources \ hidden' => \A m \in Manifests : m.dir # dir'
             /\ \A f \in Files : f # x => (f \in hidden' <=> f \in hidden)
             /\ \A s \in Sources \ hidden' : s \in hidden => \A m \in Manifests : m.dir # dir'
             /\ Running => \A s \in Sources : s # x /\ s \in hidden => s \in hidden'
             /\ touched' = touched \cup {x}
             /\ UNCHANGED <<dest, out, manifest, current, skip, pc, todo>>
  <2>1. \A m \in Manifests : m.dir <= dir => m.dir <= dir' /\ (m.dir = dir' => m.dir = dir)
    BY <1>5 DEF DirChanged, GateTypes, Manifests, Manifest
  <2> QED
    BY <1>5, <2>1 DEF DirChanged, Unlisted, Running
<1>6. ASSUME NEW f \in Files, DeleteFile(f)
      PROVE  GateInv'
  <2>1. DirChanged(f) /\ f \notin Sources /\ comp' = comp
    BY <1>6 DEF DeleteFile
  <2>2. \A g \in Files : g # f => src'[g] = src[g] /\ (g \in same' <=> g \in same)
    BY <1>6 DEF DeleteFile, GateTypes
  <2>3. src'[f] = Absent
    BY <1>6, ZenonT(60) DEF DeleteFile, GateTypes
  <2>4. ManifestInv'
    BY <1>5, <2>1, <2>2, <2>3, ZenonT(60) DEF GateInv, ManifestInv, Good, Manifests
  <2>5. CurrentInv'
    BY <1>5, <2>1, <2>2, <2>3 DEF GateInv, CurrentInv, Good, Manifests, Running, Copied, Cleaned
  <2>6. ProgressInv'
    BY <1>5, <2>1, <2>2 DEF GateInv, ProgressInv, Running, Copied, Cleaned
  <2> QED
    BY <2>4, <2>5, <2>6 DEF GateInv
<1>7. ASSUME NEW s \in Sources, DeleteSource(s)
      PROVE  GateInv'
  <2>1. DirChanged(s) /\ s \notin Files /\ comp' = comp \ {s} /\ UNCHANGED <<src, same>>
    BY <1>7, ZenonT(60) DEF DeleteSource
  <2>2. ManifestInv'
    BY <1>5, <2>1, SMTT(60) DEF GateInv, ManifestInv, Good, Manifests
  <2>3. CurrentInv'
    BY <1>5, <2>1 DEF GateInv, CurrentInv, Good, Manifests, Running, Copied, Cleaned
  <2>4. ProgressInv'
    BY <1>5, <2>1, SMTT(60) DEF GateInv, ProgressInv, Running, Copied, Cleaned
  <2> QED
    BY <2>2, <2>3, <2>4 DEF GateInv
<1>8. ASSUME NEW f \in Files, ChangeDest(f)
      PROVE  GateInv'
  <2>1. UNCHANGED <<src, dir, comp, out, manifest, current, skip, pc, todo>>
    BY <1>8 DEF ChangeDest
  <2>2. \A g \in Files : g # f => dest'[g] = dest[g] /\ (g \in same' <=> g \in same)
    BY <1>8 DEF ChangeDest, GateTypes
  <2>3. \A x \in Files \cup Sources : x # f => (x \in hidden' <=> x \in hidden)
    BY <1>8 DEF ChangeDest
  <2>4. touched' = touched \cup {f} /\ f \notin Sources
    BY <1>8 DEF ChangeDest
  <2>5. f \notin hidden' =>
            /\ \A m \in Manifests : m.src[f] = Absent => m.dir # dir
            /\ \/ dest'[f] = Absent
               \/ current = None /\ \A m \in Manifests : dest'[f] # m.dest[f]
    BY <1>8 DEF ChangeDest, Unlisted, GateTypes
  <2>6. ManifestInv'
    BY <2>1, <2>2, <2>3, <2>4, <2>5, ZenonT(60) DEF GateInv, ManifestInv, Good, Manifests
  <2>7. CurrentInv'
    BY <2>1, <2>2, <2>3, <2>4, <2>5, ZenonT(60) DEF GateInv, CurrentInv, Good, Manifests, Running, Copied, Cleaned
  <2>8. ProgressInv'
    BY <2>1, <2>2, <2>3, <2>4 DEF GateInv, ProgressInv, Copied, Cleaned
  <2> QED
    BY <2>6, <2>7, <2>8 DEF GateInv
<1>9. ASSUME NEW f \in Files, Copy(f)
      PROVE  GateInv'
  <2>1. pc = "copy" /\ UNCHANGED <<src, dir, comp, out, manifest, current, skip, touched, pc>>
    BY <1>9 DEF Copy
  <2>2. \A g \in Files : g # f => dest'[g] = dest[g] /\ (g \in same' <=> g \in same) /\ (g \in todo' <=> g \in todo)
    BY <1>9 DEF Copy, GateTypes
  <2>3. \A x \in Files \cup Sources : x # f => (x \in hidden' <=> x \in hidden)
    BY <1>9 DEF Copy
  <2>4. \/ src[f] # Absent /\ dest'[f] # Absent /\ f \in same'
        \/ src[f] = Absent /\ UNCHANGED <<dest, same, hidden>>
    BY <1>9 DEF Copy, GateTypes, Absent
  <2>5. f \notin Sources
    OBVIOUS
  <2>6. ManifestInv'
    BY <2>1, <2>2, <2>3, <2>4, <2>5 DEF GateInv, ManifestInv, Good
  <2>7. CurrentInv'
    BY <2>1, <2>2, <2>3, <2>4, <2>5 DEF GateInv, CurrentInv, Good, Running, Copied, Cleaned
  <2>8. ProgressInv'
    BY <2>1, <2>2, <2>3, <2>4, <2>5 DEF GateInv, ProgressInv, Copied, Cleaned
  <2> QED
    BY <2>6, <2>7, <2>8 DEF GateInv
<1>10. ASSUME NEW changed \in BOOLEAN, Gate(changed)
       PROVE  GateInv'
  <2> DEFINE fast == manifest # None /\ ~changed /\ FastValidate(manifest)
             copied == manifest # None /\ manifest.src = src /\ DestsValid(manifest)
  <2>1. UNCHANGED <<files, manifest, hidden, touched>> /\ pc' = "cleanup"
    BY <1>10 DEF Gate
  <2>2. "copy" \in skip' <=> fast \/ copied
    BY <1>10 DEF Gate
  <2>3. "cleanup" \in skip' => fast \/ (copied /\ manifest.dir = dir)
    BY <1>10 DEF Gate
  <2>4. current' = None \/ (~fast /\ current' = CurrentManifest)
    BY <1>10 DEF Gate
  <2>5. ASSUME fast
        PROVE  /\ \A f \in Files \ hidden : Good(f)
               /\ \A s \in Sources \ hidden : s \in out => s \in comp
    BY <2>5 DEF GateInv, ManifestInv, FastValidate, DestsValid, Good
  <2>6. ASSUME copied
        PROVE  \A f \in Files \ hidden : src[f] # Absent => dest[f] # Absent /\ f \in same
    BY <2>6 DEF GateInv, ManifestInv, DestsValid
  <2>7. ASSUME copied, manifest.dir = dir
        PROVE  /\ \A f \in Files \ hidden : Good(f)
               /\ \A s \in Sources \ hidden : s \in out => s \in comp
    BY <2>6, <2>7 DEF GateInv, ManifestInv, Good
  <2>8. ManifestInv'
    BY <2>1 DEF GateInv, ManifestInv, Good, files
  <2>9. CurrentInv'
    BY <2>1, <2>2, <2>3, <2>4, <2>6, <2>7
    DEF CurrentInv, CurrentManifest, Running, Copied, Cleaned, Good, files, GateTypes
  <2>10. ProgressInv'
    BY <2>1, <2>2, <2>3, <2>5, <2>6, <2>7 DEF ProgressInv, Copied, Cleaned, Good, files
  <2> QED
    BY <2>8, <2>9, <2>10, ZenonT(60) DEF GateInv
<1>11. CASE Cleanup
  <2>1. pc = "cleanup" /\ pc' = "copy"
    BY <1>11 DEF Cleanup
  <2>2. UNCHANGED <<src, dir, same, comp, manifest, current, skip, touched>>
    BY <1>11 DEF Cleanup
  <2>3. todo' = IF "copy" \in skip THEN {} ELSE Files
    BY <1>11 DEF Cleanup
  <2>4. CASE "cleanup" \in skip
    <3>1. UNCHANGED <<dest, out, hidden>>
      BY <1>11, <2>4 DEF Cleanup
    <3>2. ManifestInv'
      BY <2>2, <3>1 DEF GateInv, ManifestInv, Good
    <3>3. CurrentInv'
      BY <2>1, <2>2, <2>3, <2>4, <3>1 DEF GateInv, CurrentInv, Good, Running, Copied, Cleaned
    <3>4. ProgressInv'
      BY <2>1, <2>2, <2>3, <2>4, <3>1 DEF GateInv, ProgressInv, Copied, Cleaned
    <3> QED
      BY <3>2, <3>3, <3>4 DEF GateInv
  <2>5. CASE "cleanup" \notin skip
    <3>1. \A f \in Files : IF src[f] = Absent THEN dest'[f] = Absent
                           ELSE dest'[f] = dest[f] /\ (f \in hidden' <=> f \in hidden)
      BY <1>11, <2>5 DEF Cleanup
    <3>2. out' = out \cap comp
      BY <1>11, <2>5 DEF Cleanup
    <3>3. ManifestInv'
      BY <2>2, <3>1, <3>2 DEF GateInv, ManifestInv, Good
    <3>4. CurrentInv'
      BY <2>1, <2>2, <2>3, <2>5, <3>1, <3>2 DEF GateInv, CurrentInv, Good, Running, Copied, Cleaned
    <3>5. ProgressInv'
      BY <2>1, <2>2, <2>3, <2>5, <3>1, <3>2, ZenonT(60) DEF GateInv, ProgressInv, Copied, Cleaned
    <3> QED
      BY <3>3, <3>4, <3>5 DEF GateInv
  <2> QED
    BY <2>4, <2>5, ZenonT(60)
<1>12. CASE EndCopy
  BY <1>12, ZenonT(60) DEF EndCopy, GateInv, ManifestInv, CurrentInv, ProgressInv, Good, Running, Copied, Cleaned, files, gate
<1>13. CASE Compile
  BY <1>13 DEF Compile, GateInv, ManifestInv, CurrentInv, ProgressInv, Good, Running, Copied, Cleaned, gate
<1>14. CASE Persist
  <2>1. current' = None /\ pc' = "idle" /\ pc = "persist" /\ UNCHANGED <<files, hidden, todo>>
    BY <1>14, ZenonT(60) DEF Persist
  <2>2. CASE manifest' = manifest
    BY <2>1, <2>2, ZenonT(60) DEF GateInv, ManifestInv, CurrentInv, ProgressInv, Good, files
  <2>3. CASE current # None /\ manifest' = [current EXCEPT !.dest = dest]
    <3>1. manifest'.src = current.src /\ manifest'.dir = current.dir
      BY <2>3 DEF GateTypes, Manifest
    <3>2. ManifestInv'
      BY <2>1, <2>3, <3>1 DEF GateInv, CurrentInv, ManifestInv, ProgressInv, Good, Copied, Cleaned, files
    <3> QED
      BY <2>1, <3>2, ZenonT(60) DEF GateInv, CurrentInv, ProgressInv
  <2> QED
    BY <1>14, <2>2, <2>3 DEF Persist
<1> QED
  BY <1>1, <1>2, <1>3, <1>4, <1>6, <1>7, <1>8, <1>9, <1>10, <1>11, <1>12, <1>13, <1>14 DEF Next

\* BuildFresh: after a build, with whatever the gate has skipped, each copy has
\* the text of its file and nothing is left of files that are gone, but for
\* files that changed during the build and the hidden changes.
THEOREM BuildsLeaveFreshCopies == Spec => BuildFresh
<1> DEFINE Fresh ==
               /\ \A f \in Files \ (touched \cup hidden) :
                   IF src[f] = Absent THEN dest[f] = Absent ELSE dest[f] # Absent /\ f \in same
               /\ \A s \in Sources \ (touched \cup hidden) : s \in out' => s \in comp
<1>1. GateInv /\ Compile => Fresh
  BY DEF GateInv, ProgressInv, Compile, Copied, Cleaned
<1>2. GateInv /\ [Next]_vars => [Compile => Fresh]_vars
  BY <1>1
<1> QED
  BY <1>2, RojoInit, RojoStep, GateTypesInit, GateTypesStep, GateInit, GateStep, PTL DEF Spec, BuildFresh
===============================================================================
