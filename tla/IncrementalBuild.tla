--------------------------- MODULE IncrementalBuild ---------------------------
(***************************************************************************)
(* One project's build: BuildProjectWithOptions (internal/compile/         *)
(* output.go) with its manifest (incremental_manifest.go) and its output   *)
(* writer (outputwriter.go).  A build loads the sources once, reads the    *)
(* manifest of the last finished build, selects the files to recompile,    *)
(* removes orphaned outputs, compiles, writes each output unless the       *)
(* manifest says the file already has that content, and stores a new       *)
(* manifest.  Sources are edited, options changed and outputs removed      *)
(* meanwhile; a build may stop with an error or die at any point.          *)
(*                                                                         *)
(* A text is a model value.  What it imports or declares, what the         *)
(* compiler emits for it and whether it has errors are constants.  The     *)
(* compiler reads more than the manifest follows: files without a hash,    *)
(* and modules that augment the global scope, which no other file names.   *)
(* The Luau file, its source map and its declaration file are one output.  *)
(***************************************************************************)
CONSTANTS
    Files,              \* the paths that a build reads
    Unhashed,           \* those that it never compiles: declaration files, the
                        \* Rojo project, .env, what $file names
    Texts(_),           \* Texts(f): what f may hold, with Absent if it may be gone
    Absent,             \* the text of a path with no file
    Options,            \* compiler options; the manifest's salt is their hash
    Imports(_, _),      \* Imports(f, t): the paths f imports when it holds t
    Ambient(_, _),      \* Ambient(f, t): with text t, f declares ambient modules
    Global(_, _),       \* Global(f, t): with text t, f bears on every file, as
                        \* `declare global` and the Rojo project do
    Emit(_, _),         \* Emit(f, i): the output of f, when the compiler reads i
    Rejects(_, _),      \* Rejects(f, i): f has errors when the compiler reads i
    NoOutput,           \* no regular file at the output path
    Partial,            \* what a write that failed half way leaves
    NoManifest,         \* no readable manifest of this version
    Incremental         \* IsIncremental() and a build info path

ASSUME IncrementalAssumption == Incremental \in BOOLEAN

ASSUME UnhashedAssumption == Unhashed \subseteq Files

VARIABLES
    source,             \* source[f]: the text of f on disk
    options,            \* the options in the tsconfig on disk
    output,             \* output[f]: the output of f on disk
    manifest,           \* the manifest on disk
    pc,                 \* where the build is
    snapshot, salt,     \* the sources and options the build loaded
    selected,           \* the files it compiles
    todo,               \* the outputs it has still to write
    current,            \* the Outputs of the manifest it prepares
    wrote,              \* history: the outputs this build has replaced
    torn,               \* history: see FreshUnlessExcepted
    beside              \* history: beside[f] is what f, as the manifest records
                        \* it, was compiled with and the manifest cannot follow

disk == <<source, options, output, manifest>>

loaded == <<snapshot, salt, selected>>

vars == <<disk, pc, loaded, todo, current, wrote, torn, beside>>
-------------------------------------------------------------------------------
(***************************************************************************)
(* What the compiler reads for a file, given the sources s.                *)
(***************************************************************************)
Present(s) == {f \in Files : s[f] # Absent}

AmbientFiles(s) == {g \in Present(s) : Ambient(g, s[g])}

GlobalFiles(s) == {g \in Present(s) : Global(g, s[g])}

\* The paths that f names, whether or not there is a file, and the ambient ones.
Uses(s, f) ==
    IF s[f] = Absent THEN {} ELSE (Imports(f, s[f]) \cap Files) \cup AmbientFiles(s)

\* All that the compiler looks at when it meets f.
Sees(s, f) == IF s[f] = Absent THEN {} ELSE Uses(s, f) \cup GlobalFiles(s)

Closure(E, f) ==
    {g \in Files : \A S \in SUBSET Files :
        f \in S /\ (\A h \in S : E[h] \subseteq S) => g \in S}

Reads(s, f) == Closure([h \in Files |-> Sees(s, h)], f)

Input(s, o, f) == [options |-> o, texts |-> [g \in Reads(s, f) |-> s[g]]]

AllTexts == {Absent} \cup UNION {Texts(f) : f \in Files}

SourceTexts == [Files -> AllTexts]

\* Every output the compiler may write.
Contents == {Emit(f, Input(s, o, f)) : f \in Files, s \in SourceTexts, o \in Options}

ASSUME ContentsAssumption == NoOutput \notin Contents

SourceFiles(s) == Present(s) \ Unhashed

\* What the manifest keeps of the sources: the hashes of the compiled ones.
Recorded(s) == [f \in Files |-> IF f \in Unhashed THEN Absent ELSE s[f]]

\* referencedProjectFiles.
Refs(r, f) == (Uses(r, f) \cap Present(r)) \ {f}

\* The paths whose change the manifest r can trace to f.
Followed(r, f) == Closure([h \in Files |-> Uses(r, h)], f) \ Unhashed

\* What the compiler reads for f beyond these.
Unfollowed(s, f) == [g \in Reads(s, f) \ Followed(Recorded(s), f) |-> s[g]]
-------------------------------------------------------------------------------
(***************************************************************************)
(* selectIncrementalSourceFiles.  The search over the importers is taken   *)
(* as the set it computes; IncrementalSelection models the search.         *)
(***************************************************************************)

Changed(r, p) == {f \in Files : r[f] # p[f]}

\* Mistake, not part of the model: accumulateReverseDeps is not called for the previous manifest.
CurrentImportersWithin(r, p, S) ==
    \A f \in Files : Refs(r, f) \cap S # {} => f \in S

ImportersWithin(r, p, S) ==
    \A f \in Files : (Refs(r, f) \cup Refs(p, f)) \cap S # {} => f \in S

Affected(r, p) ==
    {f \in Files : \A S \in SUBSET Files :
        Changed(r, p) \subseteq S /\ ImportersWithin(r, p, S) => f \in S}

\* The previous manifest counts when it was made with the same options.
Usable(m, o) == m # NoManifest /\ m.salt = o

NoOutputs == [f \in Files |-> NoOutput]

NoSources == [f \in Files |-> Absent]

PreviousOutputs(m, o) == IF Usable(m, o) THEN m.outputs ELSE NoOutputs

MissingOutputs(m, o) ==
    {f \in Files : PreviousOutputs(m, o)[f] # NoOutput /\ output[f] = NoOutput}

Selection(s, o, m, force) ==
    IF ~Incremental \/ force \/ ~Usable(m, o) THEN SourceFiles(s)
    ELSE SourceFiles(s) \cap (Affected(Recorded(s), m.files) \cup MissingOutputs(m, o))
-------------------------------------------------------------------------------
Emitted(f) == Emit(f, Input(snapshot, salt, f))

Init ==
    /\ source \in {s \in SourceTexts : \A f \in Files : s[f] \in Texts(f)}
    /\ options \in Options
    /\ output = NoOutputs
    /\ manifest = NoManifest
    /\ pc = "idle"
    /\ snapshot = NoSources
    /\ salt = options
    /\ selected = {}
    /\ todo = {}
    /\ current = NoOutputs
    /\ wrote = {}
    /\ torn = {}
    /\ beside = [f \in Files |-> [g \in {} |-> Absent]]

(***************************************************************************)
(* The user, at any time.  A build reads the tsconfig when it starts, and  *)
(* the sources then and in its cleanup; an edit it can no longer see is    *)
(* taken after it has ended.                                               *)
(***************************************************************************)
EditSource(f) ==
    /\ pc \in {"idle", "cleanup"}
    /\ \E t \in Texts(f) : source' = [source EXCEPT ![f] = t]
    /\ UNCHANGED <<options, output, manifest, pc, loaded, todo, current, wrote, torn, beside>>

EditOptions ==
    /\ pc = "idle"
    /\ \E o \in Options : options' = o
    /\ UNCHANGED <<source, output, manifest, pc, loaded, todo, current, wrote, torn, beside>>

DeleteOutput(f) ==
    /\ pc # "done"
    /\ f \notin Unhashed
    /\ output' = [output EXCEPT ![f] = NoOutput]
    /\ wrote' = wrote \ {f}
    /\ torn' = IF pc = "idle" THEN torn ELSE torn \cup {f}
    /\ UNCHANGED <<source, options, manifest, pc, loaded, todo, current, beside>>

(***************************************************************************)
(* The build.                                                              *)
(***************************************************************************)

\* The program is loaded, the manifest read and the files selected.
\* forceFullBuild is what a solution build sets on downstream projects.
Begin(force) ==
    /\ pc = "idle"
    /\ snapshot' = source
    /\ salt' = options
    /\ selected' = Selection(source, options, manifest, force)
    /\ current' = IF Incremental THEN PreviousOutputs(manifest, options) ELSE NoOutputs
    /\ pc' = "cleanup"
    /\ UNCHANGED <<disk, todo, wrote, torn, beside>>

\* The start of a build with nothing to compile whose copy-files gate finds the
\* directory times of the last build again: no cleanup follows, nothing is
\* compiled or written, and the outputs seen here decide what is pruned.  The
\* times are left out, so the gate may refuse (Begin) or accept.
BeginUnchanged ==
    /\ pc = "idle"
    /\ Incremental
    /\ Selection(source, options, manifest, FALSE) = {}
    /\ snapshot' = source
    /\ salt' = options
    /\ selected' = {}
    /\ current' = [f \in Files |-> IF output[f] = NoOutput THEN NoOutput
                                   ELSE PreviousOutputs(manifest, options)[f]]
    /\ pc' = "persist"
    /\ UNCHANGED <<disk, todo, wrote, torn, beside>>

\* cleanupOutputs looks at the sources on disk, not at the loaded ones.
Cleanup ==
    /\ pc = "cleanup"
    /\ output' = [f \in Files |-> IF source[f] = Absent THEN NoOutput ELSE output[f]]
    /\ torn' = torn \cup {f \in SourceFiles(snapshot) : source[f] = Absent}
    /\ pc' = "compile"
    /\ UNCHANGED <<source, options, manifest, loaded, todo, current, wrote, beside>>

Compile ==
    /\ pc = "compile"
    /\ \A f \in selected : ~Rejects(f, Input(snapshot, salt, f))
    /\ todo' = selected
    /\ pc' = "write"
    /\ UNCHANGED <<disk, loaded, current, wrote, torn, beside>>

\* What a build has in memory goes with it.
Unload ==
    /\ pc' = "idle"
    /\ snapshot' = NoSources
    /\ selected' = {}
    /\ todo' = {}
    /\ current' = NoOutputs
    /\ wrote' = {}
    /\ UNCHANGED <<salt, beside>>

\* A build that stops stores no manifest.
Stop == Unload /\ torn' = torn \cup wrote

CompileRejects ==
    /\ pc = "compile"
    /\ \E f \in selected : Rejects(f, Input(snapshot, salt, f))
    /\ Stop
    /\ UNCHANGED disk

\* Mistake: the path is not looked at.
HashSkipUnseen(f) == PreviousOutputs(manifest, salt)[f] = Emitted(f)

\* outputWriter.write: no write when the previous manifest has this hash for
\* the path and the path is a regular file, whatever the file holds.
HashSkip(f) ==
    /\ PreviousOutputs(manifest, salt)[f] = Emitted(f)
    /\ output[f] # NoOutput

Write(f) ==
    /\ pc = "write"
    /\ f \in todo
    /\ todo' = todo \ {f}
    /\ current' = [current EXCEPT ![f] = Emitted(f)]
    /\ IF HashSkip(f)
         THEN UNCHANGED <<output, wrote>>
         ELSE /\ output' = [output EXCEPT ![f] = Emitted(f)]
              /\ wrote' = wrote \cup {f}
    /\ UNCHANGED <<source, options, manifest, pc, loaded, torn, beside>>

WriteFails(f) ==
    /\ pc = "write"
    /\ f \in todo
    /\ ~HashSkip(f)
    /\ output' = [output EXCEPT ![f] = Partial]
    /\ Unload
    /\ torn' = torn \cup wrote \cup {f}
    /\ UNCHANGED <<source, options, manifest>>

\* pruneMissingOutputs.
Prune ==
    /\ pc = "write"
    /\ todo = {}
    /\ current' = [f \in Files |-> IF output[f] = NoOutput THEN NoOutput ELSE current[f]]
    /\ pc' = "persist"
    /\ UNCHANGED <<disk, loaded, todo, wrote, torn, beside>>

\* The manifest is replaced with a rename; writing an equal one is skipped,
\* which is the same.
Persist ==
    /\ pc = "persist"
    /\ manifest' = [salt    |-> salt,
                    files   |-> IF Incremental THEN Recorded(snapshot) ELSE NoSources,
                    outputs |-> current]
    /\ torn' = torn \ wrote
    /\ wrote' = {}
    /\ beside' = [f \in Files |-> IF f \in selected THEN Unfollowed(snapshot, f) ELSE beside[f]]
    /\ pc' = "done"
    /\ UNCHANGED <<source, options, output, loaded, todo, current>>

Return ==
    /\ pc = "done"
    /\ Unload
    /\ UNCHANGED <<disk, torn>>

\* Any other error return, and the end of the process.
Abort ==
    /\ pc \notin {"idle", "done"}
    /\ Stop
    /\ UNCHANGED disk

Next ==
    \/ \E f \in Files : EditSource(f) \/ DeleteOutput(f) \/ Write(f) \/ WriteFails(f)
    \/ \E force \in BOOLEAN : Begin(force)
    \/ BeginUnchanged \/ EditOptions \/ Cleanup \/ Compile \/ CompileRejects \/ Prune \/ Persist
    \/ Return \/ Abort

Spec == Init /\ [][Next]_vars
-------------------------------------------------------------------------------
OutputMaps == [Files -> Contents \cup {NoOutput, Partial}]

TypeOK ==
    /\ source \in SourceTexts
    /\ options \in Options
    /\ output \in OutputMaps
    /\ manifest \in {NoManifest} \cup
            [salt : Options, files : SourceTexts, outputs : OutputMaps]
    /\ pc \in {"idle", "cleanup", "compile", "write", "persist", "done"}
    /\ snapshot \in SourceTexts
    /\ salt \in Options
    /\ selected \subseteq SourceFiles(snapshot)
    /\ todo \subseteq selected
    /\ current \in OutputMaps
    /\ wrote \subseteq Files
    /\ torn \subseteq Files
    /\ beside \in [Files -> UNION {[S -> AllTexts] : S \in SUBSET Files}]

\* What f is compiled with and the manifest cannot follow is not what it was.
Overlooked(f) == beside[f] # Unfollowed(snapshot, f)

\* A build that succeeds leaves the right output for every source file, the
\* ones it did not select and the ones it did not write included.  Excepted
\* are two kinds of files, and only these.  Torn: a build replaced the output
\* and stopped before its manifest was stored, or the output or the source was
\* removed under a running build, and no build has written it since.
\* Overlooked: since it was last compiled, what it reads has changed by more
\* than referencedProjectFiles and the salt let a build see.
FreshUnlessExcepted ==
    pc = "done" => \A f \in SourceFiles(snapshot) \ torn : Overlooked(f) \/ output[f] = Emitted(f)

\* A build that succeeds hides no error in a file it did not select, but in
\* one that is overlooked.
NoErrorHidden ==
    pc = "done" => \A f \in SourceFiles(snapshot) :
        Overlooked(f) \/ ~Rejects(f, Input(snapshot, salt, f))

\* What docs/sidecar-protocol.md:73 says of an edited declaration file, that
\* rotor's own typecheck and emit always read fresh state: after a build that
\* succeeds, no output and no verdict is one of an earlier declaration.
EmitReadsFreshState ==
    pc = "done" => \A f \in SourceFiles(snapshot) \ torn :
        output[f] = Emitted(f) /\ ~Rejects(f, Input(snapshot, salt, f))
===============================================================================
