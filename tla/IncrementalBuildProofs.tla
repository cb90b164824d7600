------------------------ MODULE IncrementalBuildProofs ------------------------
(***************************************************************************)
(* Why a build that skips files is as good as one that does not: for any   *)
(* number of files, any import graph and any compiler.  SelectionSound is  *)
(* the argument about the selection; IInv carries it through builds that   *)
(* stop anywhere.                                                          *)
(***************************************************************************)
EXTENDS IncrementalBuild, IncrementalSelection, TLAPS

USE IncrementalAssumption, UnhashedAssumption

\* A file outside Affected has not changed, and it uses only such files.
LEMMA UnaffectedUses ==
    ASSUME NEW r \in SourceTexts, NEW p \in SourceTexts,
           NEW g \in Files, g \notin Affected(r, p)
    PROVE  /\ r[g] = p[g]
           /\ Uses(r, g) = Uses(p, g)
           /\ Uses(r, g) \cap Affected(r, p) = {}
<1> DEFINE A == Affected(r, p)
           P == Present(r) \cup Present(p)
<1>1. Changed(r, p) \subseteq A
  BY DEF Affected, Changed
<1>2. ImportersWithin(r, p, A)
  <2> SUFFICES ASSUME NEW f \in Files, NEW h \in A, h \in Refs(r, f) \cup Refs(p, f)
               PROVE  f \in A
    BY DEF ImportersWithin
  <2> SUFFICES ASSUME NEW S \in SUBSET Files,
                      Changed(r, p) \subseteq S, ImportersWithin(r, p, S)
               PROVE  f \in S
    BY DEF Affected
  <2>1. h \in S
    BY DEF Affected
  <2> QED  BY <2>1 DEF ImportersWithin
<1>3. A \subseteq P
  <2>1. P \subseteq Files /\ Changed(r, p) \subseteq P
    BY DEF Present, Changed
  <2>2. ImportersWithin(r, p, P)
    BY DEF ImportersWithin, Refs, Uses, Present
  <2> QED  BY <2>1, <2>2 DEF Affected
<1>4. \A f \in Files \ A : r[f] = p[f]
  BY <1>1 DEF Changed
<1>5. \A h \in Uses(r, g) \cup Uses(p, g) : h \in P => (h = g \/ h \in Refs(r, g) \cup Refs(p, g) \/ r[g] # p[g])
  BY DEF Uses, Refs, Present, AmbientFiles
<1>6. \A h \in Uses(r, g) \cup Uses(p, g) : h \notin A
  BY <1>2, <1>3, <1>4, <1>5 DEF ImportersWithin
<1>7. AmbientFiles(r) \ A = AmbientFiles(p) \ A
  BY <1>4 DEF AmbientFiles, Present
<1>8. r[g] # Absent => AmbientFiles(r) \subseteq Uses(r, g) /\ AmbientFiles(p) \subseteq Uses(p, g)
  BY <1>4 DEF Uses
<1>9. Uses(r, g) = Uses(p, g)
  BY <1>4, <1>6, <1>7, <1>8 DEF Uses
<1> QED  BY <1>4, <1>6, <1>9

\* What the manifest follows from a file outside Affected is what it followed before.
LEMMA FollowedOneWay ==
    ASSUME NEW r \in SourceTexts, NEW p \in SourceTexts,
           NEW U \in SUBSET Files, NEW f \in U,
           \A g \in U : Uses(r, g) = Uses(p, g) /\ Uses(r, g) \subseteq U
    PROVE  Followed(r, f) \subseteq Followed(p, f) /\ Followed(r, f) \subseteq U
<1> DEFINE R == [h \in Files |-> Uses(r, h)]
           P == [h \in Files |-> Uses(p, h)]
<1>1. \A h \in U : R[h] = P[h] /\ R[h] \subseteq U
  OBVIOUS
<1> HIDE DEF R, P
<1>2. Closure(R, f) \subseteq U
  BY <1>1 DEF Closure
<1>3. ASSUME NEW x \in Closure(R, f), NEW S \in SUBSET Files,
             f \in S, \A h \in S : P[h] \subseteq S
      PROVE  x \in S
  <2>1. S \cap U \in SUBSET Files /\ f \in S \cap U
    BY <1>3
  <2>2. \A h \in S \cap U : R[h] \subseteq S \cap U
    BY <1>1, <1>3
  <2> QED  BY <2>1, <2>2, ZenonT(60) DEF Closure
<1>4. Closure(R, f) \subseteq Closure(P, f)
  BY <1>3 DEF Closure
<1> QED  BY <1>2, <1>4 DEF Followed, R, P

LEMMA UsesAreFiles ==
    ASSUME NEW r, NEW g
    PROVE  Uses(r, g) \subseteq Files
BY DEF Uses, AmbientFiles, Present

LEMMA FollowedSame ==
    ASSUME NEW r \in SourceTexts, NEW p \in SourceTexts,
           NEW f \in Files, f \notin Affected(r, p)
    PROVE  /\ r[f] = p[f]
           /\ Followed(r, f) = Followed(p, f)
           /\ \A g \in Followed(r, f) : r[g] = p[g]
<1> DEFINE U == Files \ Affected(r, p)
<1>1. \A g \in U : r[g] = p[g] /\ Uses(r, g) = Uses(p, g) /\ Uses(r, g) \subseteq U
  BY UnaffectedUses, UsesAreFiles
<1>2. f \in U /\ U \in SUBSET Files
  OBVIOUS
<1> HIDE DEF U
<1>3. Followed(r, f) \subseteq Followed(p, f) /\ Followed(r, f) \subseteq U
  BY <1>1, <1>2, FollowedOneWay
<1>4. Followed(p, f) \subseteq Followed(r, f)
  BY <1>1, <1>2, FollowedOneWay
<1> QED  BY <1>1, <1>2, <1>3, <1>4

\* The compiler reads whatever the manifest follows.
LEMMA FollowedIsRead ==
    ASSUME NEW s \in SourceTexts, NEW f \in Files
    PROVE  /\ Followed(Recorded(s), f) \subseteq Reads(s, f)
           /\ Reads(s, f) \subseteq Files
           /\ \A g \in Followed(Recorded(s), f) : Recorded(s)[g] = s[g]
<1> DEFINE R == [h \in Files |-> Uses(Recorded(s), h)]
           E == [h \in Files |-> Sees(s, h)]
<1>1. \A h \in Files : R[h] \subseteq E[h]
  BY DEF Recorded, Uses, Sees, AmbientFiles, Present
<1> HIDE DEF R, E
<1>2. Closure(R, f) \subseteq Closure(E, f)
  BY <1>1 DEF Closure
<1>3. \A g \in Files \ Unhashed : Recorded(s)[g] = s[g]
  BY DEF Recorded
<1> QED  BY <1>2, <1>3 DEF Followed, Reads, Closure, R, E

LEMMA TextsTyped ==
    /\ Absent \in AllTexts
    /\ \A f \in Files : Texts(f) \subseteq AllTexts
    /\ NoSources \in SourceTexts
    /\ \A s \in SourceTexts : Recorded(s) \in SourceTexts
<1>1. Absent \in AllTexts
  BY DEF AllTexts
<1>2. ASSUME NEW f \in Files, NEW t \in Texts(f)
      PROVE  t \in AllTexts
  <2>1. \E T \in {Texts(g) : g \in Files} : t \in T
    BY <1>2
  <2> QED  BY <2>1 DEF AllTexts
<1> QED  BY <1>1, <1>2 DEF NoSources, SourceTexts, Recorded

LEMMA RecordedPresent ==
    ASSUME NEW s
    PROVE  Present(Recorded(s)) = SourceFiles(s)
BY DEF Recorded, SourceFiles, Present

\* What f was compiled with, put together from the manifest and from the rest.
Remade(r, o, b, f) ==
    [options |-> o,
     texts   |-> [g \in Followed(r, f) \cup DOMAIN b |-> IF g \in Followed(r, f) THEN r[g] ELSE b[g]]]

LEMMA RemadeIsInput ==
    ASSUME NEW s \in SourceTexts, NEW f \in Files, NEW o
    PROVE  Remade(Recorded(s), o, Unfollowed(s, f), f) = Input(s, o, f)
<1> DEFINE F == Followed(Recorded(s), f)
           b == Unfollowed(s, f)
<1>1. F \subseteq Reads(s, f) /\ \A g \in F : Recorded(s)[g] = s[g]
  BY FollowedIsRead
<1>2. DOMAIN b = Reads(s, f) \ F /\ \A g \in Reads(s, f) \ F : b[g] = s[g]
  BY DEF Unfollowed
<1>3. F \cup DOMAIN b = Reads(s, f)
  BY <1>1, <1>2
<1>4. [g \in F \cup DOMAIN b |-> IF g \in F THEN Recorded(s)[g] ELSE b[g]] = [g \in Reads(s, f) |-> s[g]]
  BY <1>1, <1>2, <1>3
<1> QED  BY <1>4 DEF Remade, Input

LEMMA RemadeSame ==
    ASSUME NEW r \in SourceTexts, NEW p \in SourceTexts, NEW o, NEW b,
           NEW f \in Files, f \notin Affected(r, p)
    PROVE  Remade(r, o, b, f) = Remade(p, o, b, f)
<1>1. Followed(r, f) = Followed(p, f) /\ \A g \in Followed(r, f) : r[g] = p[g]
  BY FollowedSame
<1> QED  BY <1>1 DEF Remade

\* selectIncrementalSourceFiles is sound as far as the manifest reaches: a file
\* that it leaves out would be compiled from what it was compiled from before,
\* unless the compiler reads something for it that the manifest does not follow
\* (globals, files without a hash, and what only these lead to) and that differs.
THEOREM SelectionSound ==
    ASSUME NEW s \in SourceTexts, NEW t \in SourceTexts, NEW o,
           NEW f \in Files, f \notin Affected(Recorded(s), Recorded(t)),
           Unfollowed(s, f) = Unfollowed(t, f)
    PROVE  Input(s, o, f) = Input(t, o, f)
BY TextsTyped, RemadeSame, RemadeIsInput
-------------------------------------------------------------------------------
(***************************************************************************)
(* The inductive invariant.                                                *)
(***************************************************************************)
Building == pc \in {"cleanup", "compile", "write", "persist"}

\* The Outputs a build starts from.
Carried == IF Incremental THEN PreviousOutputs(manifest, salt) ELSE NoOutputs

\* An output that is not torn is what the manifest says.
DiskInv ==
    manifest # NoManifest =>
        \A f \in Files \ (torn \cup wrote) :
            manifest.outputs[f] # NoOutput /\ output[f] # NoOutput => output[f] = manifest.outputs[f]

\* The manifest describes, with what is beside it, a successful compilation of
\* each of its files.
RecordInv ==
    Incremental /\ manifest # NoManifest =>
        \A f \in Present(manifest.files) :
            LET i == Remade(manifest.files, manifest.salt, beside[f], f) IN
            /\ ~Rejects(f, i)
            /\ f \notin torn => manifest.outputs[f] = Emit(f, i) /\ manifest.outputs[f] # NoOutput

\* A file that is not selected is in the manifest, as it is now.
SelectInv ==
    Building => \A f \in SourceFiles(snapshot) \ selected :
        /\ Incremental
        /\ Usable(manifest, salt)
        /\ f \in Present(manifest.files)
        /\ Remade(Recorded(snapshot), salt, beside[f], f)
               = Remade(manifest.files, manifest.salt, beside[f], f)

CheckedInv ==
    pc \in {"write", "persist"} =>
        \A f \in selected : ~Rejects(f, Input(snapshot, salt, f))

CurrentInv ==
    /\ pc \in {"cleanup", "compile"} => current = Carried /\ wrote = {}
    /\ pc \in {"write", "persist"} => \A f \in Files :
        LET c == IF f \in selected \ todo THEN Emitted(f) ELSE Carried[f]
        IN  current[f] = c \/ (pc = "persist" /\ current[f] = NoOutput)
    /\ pc = "persist" =>
        /\ \A f \in Files \ torn : current[f] # NoOutput => output[f] # NoOutput
        /\ \A f \in SourceFiles(snapshot) \ (torn \ wrote) : current[f] # NoOutput

\* A file that is not selected has an output.
PresentInv ==
    Building => \A f \in SourceFiles(snapshot) \ (selected \cup torn) : output[f] # NoOutput

WrittenInv ==
    /\ wrote \subseteq selected \ todo
    /\ \A f \in wrote : output[f] = Emitted(f)
    /\ pc \in {"write", "persist"} =>
        \A f \in (selected \ todo) \ torn : output[f] = Emitted(f)
    /\ pc # "write" => todo = {}
    /\ pc \in {"idle", "done"} => wrote = {}

IInv ==
    /\ TypeOK
    /\ DiskInv
    /\ RecordInv
    /\ SelectInv
    /\ CheckedInv
    /\ CurrentInv
    /\ PresentInv
    /\ WrittenInv
    /\ FreshUnlessExcepted
    /\ NoErrorHidden

LEMMA EmittedTyped ==
    ASSUME TypeOK
    PROVE  \A f \in Files : Emitted(f) \in Contents
BY DEF TypeOK, Emitted, Contents

LEMMA InitInv == Init => IInv
<1> SUFFICES ASSUME Init PROVE IInv
  OBVIOUS
<1> USE DEF Init
<1>1. beside \in [Files -> UNION {[S -> AllTexts] : S \in SUBSET Files}]
  <2>1. [g \in {} |-> Absent] \in [{} -> AllTexts]
    OBVIOUS
  <2> QED  BY <2>1, ZenonT(60)
<1>2. TypeOK
  BY <1>1, TextsTyped, ZenonT(60) DEF TypeOK, OutputMaps, NoOutputs, SourceTexts
<1> QED  BY <1>2, ZenonT(60) DEF IInv, DiskInv, RecordInv, SelectInv, CheckedInv, CurrentInv,
       PresentInv, WrittenInv, FreshUnlessExcepted, NoErrorHidden, Building, OutputMaps, NoOutputs

(***************************************************************************)
(* The steps of the user.                                                  *)
(***************************************************************************)
LEMMA EditSourceInv == ASSUME IInv, NEW f \in Files, EditSource(f) PROVE IInv'
<1> USE DEF IInv, EditSource, loaded
<1>1. TypeOK'
  BY TextsTyped, ZenonT(60) DEF TypeOK, SourceTexts
<1>2. DiskInv' /\ RecordInv' /\ SelectInv' /\ CheckedInv'
  BY ZenonT(60) DEF DiskInv, RecordInv, SelectInv, CheckedInv, Building
<1>3. CurrentInv' /\ PresentInv' /\ WrittenInv'
  BY DEF CurrentInv, PresentInv, WrittenInv, Building, Carried, Emitted
<1>4. FreshUnlessExcepted' /\ NoErrorHidden'
  BY DEF FreshUnlessExcepted, NoErrorHidden
<1> QED  BY <1>1, <1>2, <1>3, <1>4

LEMMA EditOptionsInv == ASSUME IInv, EditOptions PROVE IInv'
<1> USE DEF IInv, EditOptions, loaded
<1>1. TypeOK'
  BY ZenonT(60) DEF TypeOK
<1>2. DiskInv' /\ RecordInv' /\ SelectInv' /\ CheckedInv'
  BY ZenonT(60) DEF DiskInv, RecordInv, SelectInv, CheckedInv, Building
<1>3. CurrentInv' /\ PresentInv' /\ WrittenInv'
  BY DEF CurrentInv, PresentInv, WrittenInv, Building, Carried, Emitted
<1>4. FreshUnlessExcepted' /\ NoErrorHidden'
  BY DEF FreshUnlessExcepted, NoErrorHidden
<1> QED  BY <1>1, <1>2, <1>3, <1>4

LEMMA DeleteOutputInv == ASSUME IInv, NEW f \in Files, DeleteOutput(f) PROVE IInv'
<1> USE DEF IInv, DeleteOutput, loaded
<1>1. TypeOK'
  BY DEF TypeOK, OutputMaps
<1>2. /\ \A g \in Files : g # f => output'[g] = output[g]
      /\ output'[f] = NoOutput
  BY DEF TypeOK, OutputMaps
<1>3. DiskInv'
  BY <1>2 DEF DiskInv
<1>4. RecordInv'
  BY DEF RecordInv
<1>5. SelectInv' /\ CheckedInv'
  BY ZenonT(60) DEF SelectInv, CheckedInv, Building
<1>6. CurrentInv' /\ PresentInv'
  BY <1>2 DEF CurrentInv, PresentInv, Building, Carried, Emitted, SourceFiles, Present
<1>7. WrittenInv'
  BY <1>2 DEF WrittenInv, Emitted, TypeOK
<1>8. FreshUnlessExcepted' /\ NoErrorHidden'
  BY DEF FreshUnlessExcepted, NoErrorHidden
<1> QED  BY <1>1, <1>3, <1>4, <1>5, <1>6, <1>7, <1>8

(***************************************************************************)
(* The steps of a build.                                                   *)
(***************************************************************************)
\* What Selection leaves out is in the manifest, as it is now.
LEMMA LeftOut ==
    ASSUME TypeOK, NEW force \in BOOLEAN,
           NEW f \in SourceFiles(source) \ Selection(source, options, manifest, force)
    PROVE  /\ Incremental
           /\ Usable(manifest, options)
           /\ f \in Present(manifest.files)
           /\ Remade(Recorded(source), options, beside[f], f)
                  = Remade(manifest.files, manifest.salt, beside[f], f)
           /\ manifest.outputs[f] # NoOutput => output[f] # NoOutput
<1>1. /\ Incremental
      /\ Usable(manifest, options)
      /\ f \notin Affected(Recorded(source), manifest.files)
      /\ f \notin MissingOutputs(manifest, options)
  BY DEF Selection
<1>2. Recorded(source) \in SourceTexts
  BY TextsTyped DEF TypeOK
<1>3. manifest.files \in SourceTexts /\ manifest.salt = options
  BY <1>1 DEF TypeOK, Usable
<1>4. f \in Files /\ Recorded(source)[f] # Absent
  BY DEF SourceFiles, Present, Recorded
<1>5. Recorded(source)[f] = manifest.files[f]
  BY <1>1, <1>2, <1>3, <1>4, FollowedSame
<1>6. Remade(Recorded(source), options, beside[f], f) = Remade(manifest.files, manifest.salt, beside[f], f)
  BY <1>1, <1>2, <1>3, <1>4, RemadeSame
<1> QED  BY <1>1, <1>3, <1>4, <1>5, <1>6 DEF Present, MissingOutputs, PreviousOutputs

\* An output the manifest vouches for is one.
LEMMA Vouched ==
    ASSUME TypeOK, RecordInv, Incremental, manifest # NoManifest,
           NEW f \in Present(manifest.files), f \notin torn
    PROVE  manifest.outputs[f] # NoOutput
BY DEF RecordInv

LEMMA BeginInv ==
    ASSUME IInv, NEW force \in BOOLEAN, Begin(force)
    PROVE  IInv'
<1> USE DEF IInv, Begin, disk
<1>1. TypeOK'
  <2>1. selected' \subseteq SourceFiles(source) /\ todo = {}
    BY DEF Selection, WrittenInv
  <2>2. current' \in OutputMaps
    BY ZenonT(60) DEF TypeOK, PreviousOutputs, Usable, NoOutputs, OutputMaps
  <2> QED  BY <2>1, <2>2 DEF TypeOK
<1>2. DiskInv' /\ RecordInv'
  BY DEF DiskInv, RecordInv
<1>3. SelectInv' /\ PresentInv'
  BY LeftOut, Vouched, ZenonT(60) DEF SelectInv, PresentInv, Usable
<1>4. CheckedInv' /\ CurrentInv' /\ WrittenInv'
  BY DEF CheckedInv, CurrentInv, WrittenInv, Carried, TypeOK
<1>5. FreshUnlessExcepted' /\ NoErrorHidden'
  BY DEF FreshUnlessExcepted, NoErrorHidden
<1> QED  BY <1>1, <1>2, <1>3, <1>4, <1>5

LEMMA BeginUnchangedInv ==
    ASSUME IInv, BeginUnchanged
    PROVE  IInv'
<1> USE DEF IInv, BeginUnchanged, disk
<1>1. TypeOK'
  <2>1. selected' \subseteq SourceFiles(source) /\ todo = {}
    BY DEF WrittenInv
  <2>2. PreviousOutputs(manifest, options) \in OutputMaps
    BY DEF TypeOK, PreviousOutputs, Usable, NoOutputs, OutputMaps
  <2>3. current' \in OutputMaps
    BY <2>2, ZenonT(60) DEF OutputMaps
  <2> QED  BY <2>1, <2>3, ZenonT(60) DEF TypeOK
<1>2. DiskInv' /\ RecordInv'
  BY SMTT(60) DEF DiskInv, RecordInv
<1>3. SelectInv' /\ PresentInv'
  BY LeftOut, Vouched, ZenonT(60) DEF SelectInv, PresentInv, Usable
<1>4. \A f \in SourceFiles(source) \ torn : current'[f] # NoOutput
  BY LeftOut, Vouched, ZenonT(60) DEF Usable, PreviousOutputs, SourceFiles, Present
<1>5. CheckedInv' /\ CurrentInv' /\ WrittenInv'
  BY <1>4, ZenonT(60) DEF CheckedInv, CurrentInv, WrittenInv, Carried, TypeOK
<1>6. FreshUnlessExcepted' /\ NoErrorHidden'
  BY ZenonT(60) DEF FreshUnlessExcepted, NoErrorHidden
<1> QED  BY ZenonT(60), <1>1, <1>2, <1>3, <1>5, <1>6

LEMMA CleanupInv == ASSUME IInv, Cleanup PROVE IInv'
<1> USE DEF IInv, Cleanup, loaded
<1>1. TypeOK'
  BY ZenonT(60) DEF TypeOK, OutputMaps, SourceFiles, Present
<1>2. DiskInv'
  BY ZenonT(60) DEF DiskInv
<1>3. RecordInv' /\ SelectInv' /\ CheckedInv' /\ PresentInv'
  BY ZenonT(60) DEF RecordInv, SelectInv, CheckedInv, PresentInv, Building, SourceFiles, Present
<1>4. CurrentInv' /\ WrittenInv'
  BY ZenonT(60) DEF CurrentInv, WrittenInv, Carried
<1>5. FreshUnlessExcepted' /\ NoErrorHidden'
  BY DEF FreshUnlessExcepted, NoErrorHidden
<1> QED  BY <1>1, <1>2, <1>3, <1>4, <1>5

LEMMA CompileInv == ASSUME IInv, Compile PROVE IInv'
<1> USE DEF IInv, Compile, loaded, disk
<1>1. TypeOK' /\ DiskInv' /\ RecordInv' /\ SelectInv' /\ CheckedInv' /\ PresentInv'
  BY ZenonT(60) DEF TypeOK, DiskInv, RecordInv, SelectInv, CheckedInv, PresentInv, Building
<1>2. CurrentInv' /\ WrittenInv'
  BY DEF CurrentInv, WrittenInv, Carried, Emitted
<1>3. FreshUnlessExcepted' /\ NoErrorHidden'
  BY ZenonT(60) DEF FreshUnlessExcepted, NoErrorHidden
<1> QED  BY <1>1, <1>2, <1>3, ZenonT(60)

\* A build that stops leaves the manifest, and whatever it wrote is torn.
LEMMA UnloadInv ==
    ASSUME IInv, Unload, UNCHANGED <<source, options, manifest>>,
           output' \in OutputMaps,
           torn \cup wrote \subseteq torn', torn' \subseteq Files,
           \A f \in Files \ torn' : output'[f] = output[f]
    PROVE  IInv'
<1> USE DEF IInv, Unload
<1>1. TypeOK'
  BY TextsTyped, ZenonT(60) DEF TypeOK, OutputMaps, NoOutputs
<1>2. DiskInv'
  BY DEF DiskInv, TypeOK
<1>3. RecordInv'
  BY ZenonT(60) DEF RecordInv
<1>4. SelectInv' /\ CheckedInv' /\ CurrentInv' /\ PresentInv' /\ WrittenInv'
  BY ZenonT(60) DEF SelectInv, CheckedInv, CurrentInv, PresentInv, WrittenInv, Building
<1>5. FreshUnlessExcepted' /\ NoErrorHidden'
  BY DEF FreshUnlessExcepted, NoErrorHidden
<1> QED  BY <1>1, <1>2, <1>3, <1>4, <1>5

LEMMA StopInv ==
    ASSUME IInv, CompileRejects \/ Abort \/ Return
    PROVE  IInv'
<1>1. Unload /\ UNCHANGED disk
  BY DEF CompileRejects, Abort, Return, Stop
<1>2. torn' = torn \cup wrote
  BY DEF CompileRejects, Abort, Return, Stop, IInv, WrittenInv
<1>3. output \in OutputMaps /\ torn \cup wrote \subseteq Files
  BY DEF IInv, TypeOK
<1> QED  BY <1>1, <1>2, <1>3, UnloadInv DEF disk

LEMMA WriteFailsInv == ASSUME IInv, NEW f \in Files, WriteFails(f) PROVE IInv'
<1>1. Unload /\ UNCHANGED <<source, options, manifest>> /\ torn' = torn \cup wrote \cup {f}
  BY DEF WriteFails
<1>2. output' \in OutputMaps /\ torn' \subseteq Files /\ \A g \in Files \ torn' : output'[g] = output[g]
  BY DEF WriteFails, IInv, TypeOK, OutputMaps
<1> QED  BY <1>1, <1>2, UnloadInv

LEMMA PruneInv == ASSUME IInv, Prune PROVE IInv'
<1> USE DEF IInv, Prune, loaded, disk
<1>1. TypeOK'
  BY ZenonT(60) DEF TypeOK, OutputMaps
<1>2. DiskInv' /\ RecordInv' /\ SelectInv' /\ CheckedInv' /\ PresentInv'
  BY ZenonT(60) DEF DiskInv, RecordInv, SelectInv, CheckedInv, PresentInv, Building
\* Nothing that a source file needs is pruned.
<1>3. ASSUME NEW f \in SourceFiles(snapshot) \ (torn \ wrote) PROVE current'[f] # NoOutput
  <2>1. f \in Files
    BY DEF SourceFiles, Present
  <2>2. CASE f \in selected
    <3>1. output[f] = Emitted(f) /\ current[f] = Emitted(f) /\ Emitted(f) # NoOutput
      BY <2>1, <2>2, EmittedTyped, ContentsAssumption, ZenonT(60) DEF WrittenInv, CurrentInv
    <3> QED  BY ZenonT(60), <2>1, <3>1
  <2>3. CASE f \notin selected
    <3>1. output[f] # NoOutput /\ Incremental /\ Usable(manifest, salt) /\ f \in Present(manifest.files)
      BY <2>3 DEF PresentInv, SelectInv, WrittenInv, Building
    <3>2. manifest.outputs[f] # NoOutput
      BY <2>3, <3>1, Vouched, ZenonT(60) DEF Usable, WrittenInv
    <3>3. current[f] = manifest.outputs[f]
      BY <2>1, <2>3, <3>1 DEF CurrentInv, Carried, PreviousOutputs
    <3> QED  BY <2>1, <3>1, <3>2, <3>3, ZenonT(60)
  <2> QED  BY <2>2, <2>3, ZenonT(60)
<1>4. CurrentInv' /\ WrittenInv'
  BY <1>3, ZenonT(60) DEF CurrentInv, WrittenInv, Carried, Emitted
<1>5. FreshUnlessExcepted' /\ NoErrorHidden'
  BY DEF FreshUnlessExcepted, NoErrorHidden
<1> QED  BY <1>1, <1>2, <1>4, <1>5

\* Either way f has the output of its source, unless it was torn: when the
\* write is skipped, the manifest vouches for what is on disk.
LEMMA WriteInv == ASSUME IInv, NEW f \in Files, Write(f) PROVE IInv'
<1> USE DEF IInv, Write, loaded
<1>1. /\ Emitted(f) \in Contents
      /\ \A g \in Files : Emitted(g)' = Emitted(g)
      /\ Carried' = Carried
  BY EmittedTyped, ZenonT(60) DEF Emitted, Carried
<1>2. f \in selected /\ f \notin wrote
  BY ZenonT(60) DEF WrittenInv, TypeOK
<1>3. /\ \A g \in Files : g # f => output'[g] = output[g] /\ current'[g] = current[g]
      /\ current'[f] = Emitted(f)
      /\ output'[f] = IF HashSkip(f) THEN output[f] ELSE Emitted(f)
      /\ wrote' = IF HashSkip(f) THEN wrote ELSE wrote \cup {f}
  BY ZenonT(60) DEF TypeOK, OutputMaps
<1>4. HashSkip(f) /\ f \notin torn => output[f] = Emitted(f)
  <2> SUFFICES ASSUME HashSkip(f), f \notin torn PROVE output[f] = Emitted(f)
    BY ZenonT(60)
  <2>1. Usable(manifest, salt) /\ manifest.outputs[f] = Emitted(f)
    BY <1>1, ContentsAssumption, ZenonT(60) DEF HashSkip, PreviousOutputs, NoOutputs
  <2> QED  BY <1>1, <1>2, <2>1, ContentsAssumption DEF DiskInv, HashSkip, Usable
<1>5. TypeOK'
  BY <1>1 DEF TypeOK, OutputMaps
<1>6. DiskInv'
  BY <1>3, ZenonT(60) DEF DiskInv
<1>7. RecordInv' /\ SelectInv' /\ CheckedInv' /\ PresentInv'
  BY <1>2, <1>3, ZenonT(60) DEF RecordInv, SelectInv, CheckedInv, PresentInv, Building, SourceFiles, Present
<1>8. CurrentInv'
  BY <1>1, <1>2, <1>3, ZenonT(60) DEF CurrentInv
<1>9. WrittenInv'
  <2>1. selected \subseteq Files /\ todo \subseteq selected
    BY DEF TypeOK, SourceFiles, Present
  <2>2. wrote' \subseteq selected' \ todo'
    BY <1>2, <1>3, <2>1 DEF WrittenInv
  <2>3. \A g \in wrote' : output'[g] = Emitted(g)
    BY <1>3, <2>1, SMTT(60) DEF WrittenInv
  <2>4. \A g \in (selected' \ todo') \ torn' : output'[g] = Emitted(g)
    BY <1>3, <1>4, <2>1 DEF WrittenInv
  <2> QED  BY <1>1, <2>1, <2>2, <2>3, <2>4, ZenonT(60) DEF WrittenInv
<1>10. FreshUnlessExcepted' /\ NoErrorHidden'
  BY DEF FreshUnlessExcepted, NoErrorHidden
<1> QED  BY <1>5, <1>6, <1>7, <1>8, <1>9, <1>10

LEMMA PersistInv ==
    ASSUME IInv, Persist
    PROVE  IInv'
<1> USE DEF IInv, Persist, loaded
<1> DEFINE Src == SourceFiles(snapshot)
<1>1. /\ \A g \in Files : Emitted(g) \in Contents /\ Emitted(g) # NoOutput
      /\ Src \subseteq Files /\ selected \subseteq Files /\ todo = {}
      /\ manifest'.outputs = current /\ manifest'.salt = salt
  BY EmittedTyped, ContentsAssumption, ZenonT(60) DEF SourceFiles, Present, TypeOK, WrittenInv
<1>2. TypeOK'
  <2>1. \A f \in Files : Unfollowed(snapshot, f) \in UNION {[S -> AllTexts] : S \in SUBSET Files}
    <3> SUFFICES ASSUME NEW f \in Files
                 PROVE  \E S \in SUBSET Files : Unfollowed(snapshot, f) \in [S -> AllTexts]
      BY ZenonT(60)
    <3> DEFINE S == Reads(snapshot, f) \ Followed(Recorded(snapshot), f)
    <3>1. S \subseteq Files /\ \A g \in Files : snapshot[g] \in AllTexts
      BY FollowedIsRead, ZenonT(60) DEF TypeOK, SourceTexts
    <3>2. Unfollowed(snapshot, f) \in [S -> AllTexts]
      BY <3>1 DEF Unfollowed
    <3> QED  BY ZenonT(60), <3>1, <3>2
  <2>2. beside' \in [Files -> UNION {[S -> AllTexts] : S \in SUBSET Files}]
    BY <2>1, ZenonT(60) DEF TypeOK
  <2>3. manifest' \in [salt : Options, files : SourceTexts, outputs : OutputMaps]
    BY TextsTyped DEF TypeOK
  <2> QED  BY <2>2, <2>3, ZenonT(60) DEF TypeOK
\* What a file that is not torn has, on disk and in the new manifest.
<1>3. ASSUME NEW f \in selected, f \notin torn'
      PROVE  output[f] = Emitted(f) /\ current[f] = Emitted(f)
  BY <1>1, <1>3, ZenonT(60) DEF CurrentInv, WrittenInv, TypeOK
<1>4. ASSUME NEW f \in Files \ selected, f \notin torn'
      PROVE  /\ f \notin torn \cup wrote
             /\ current[f] # NoOutput =>
                  /\ Incremental /\ manifest # NoManifest
                  /\ current[f] = manifest.outputs[f]
                  /\ output[f] = manifest.outputs[f]
  <2>1. f \notin torn \cup wrote
    BY <1>4, ZenonT(60) DEF WrittenInv
  <2>2. current[f] # NoOutput => current[f] = Carried[f] /\ output[f] # NoOutput
    BY <1>4, <2>1, SMTT(60) DEF CurrentInv
  <2>3. current[f] # NoOutput => Incremental /\ Usable(manifest, salt) /\ current[f] = manifest.outputs[f]
    BY <2>2, ZenonT(60) DEF Carried, PreviousOutputs, NoOutputs
  <2> QED  BY <2>1, <2>2, <2>3 DEF DiskInv, Usable
\* The compilation that the new manifest describes.
<1> DEFINE i(f) == Remade(Recorded(snapshot), salt, beside'[f], f)
<1>5. \A f \in Src : beside'[f] = Unfollowed(snapshot, f) => i(f) = Input(snapshot, salt, f)
  BY <1>1, RemadeIsInput, ZenonT(60) DEF TypeOK
<1>6. ASSUME NEW f \in Src
      PROVE  /\ ~Rejects(f, i(f))
             /\ f \notin torn' => /\ output[f] = Emit(f, i(f)) /\ current[f] = Emit(f, i(f))
                                  /\ current[f] # NoOutput
  <2>1. CASE f \in selected
    <3>1. i(f) = Input(snapshot, salt, f)
      BY <1>1, <1>5, <2>1, ZenonT(60)
    <3> QED  BY <1>1, <1>3, <2>1, <3>1, ZenonT(60) DEF CheckedInv, Emitted
  <2>2. CASE f \notin selected
    <3>1. f \in Files \ selected /\ f \notin wrote /\ beside'[f] = beside[f]
      BY <1>1, <2>2, ZenonT(60) DEF WrittenInv
    <3>2. f \notin torn' => /\ f \notin torn /\ current[f] # NoOutput
                            /\ current[f] = manifest.outputs[f] /\ output[f] = manifest.outputs[f]
      <4>1. f \notin torn' => f \notin torn /\ current[f] # NoOutput
        BY <3>1, ZenonT(60) DEF CurrentInv
      <4> QED  BY <1>4, <3>1, <4>1
    <3>3. /\ Incremental /\ manifest # NoManifest /\ f \in Present(manifest.files)
          /\ i(f) = Remade(manifest.files, manifest.salt, beside[f], f)
      BY <2>2, <3>1, ZenonT(60) DEF SelectInv, Building, Usable
    <3> HIDE DEF i
    <3>4. /\ ~Rejects(f, i(f))
          /\ f \notin torn => manifest.outputs[f] = Emit(f, i(f))
      BY <3>3, ZenonT(60) DEF RecordInv
    <3> QED  BY <3>2, <3>4
  <2> QED  BY <2>1, <2>2
<1>7. ASSUME NEW f \in Src
      PROVE  \/ Overlooked(f)'
             \/ /\ ~Rejects(f, Input(snapshot, salt, f))
                /\ f \notin torn' => output[f] = Emitted(f)
  <2> SUFFICES ASSUME beside'[f] = Unfollowed(snapshot, f)
               PROVE  /\ ~Rejects(f, Input(snapshot, salt, f))
                      /\ f \notin torn' => output[f] = Emitted(f)
    BY ZenonT(60) DEF Overlooked
  <2>1. i(f) = Input(snapshot, salt, f)
    BY ZenonT(60), <1>5
  <2> HIDE DEF i
  <2> QED  BY <1>6, <2>1, ZenonT(60) DEF Emitted
<1>8. DiskInv'
  BY <1>1, <1>3, <1>4, SMTT(60) DEF DiskInv
<1>9. RecordInv'
  <2>1. Incremental => manifest'.files = Recorded(snapshot)
    BY ZenonT(60)
  <2>2. Present(Recorded(snapshot)) = Src
    BY RecordedPresent
  <2> QED  BY <1>1, <1>6, <2>1, <2>2, ZenonT(60) DEF RecordInv
<1>10. SelectInv' /\ CheckedInv' /\ CurrentInv' /\ PresentInv' /\ WrittenInv'
  BY <1>1, ZenonT(60) DEF SelectInv, CheckedInv, CurrentInv, PresentInv, WrittenInv, Building
<1>11. FreshUnlessExcepted' /\ NoErrorHidden'
  BY <1>7, ZenonT(60) DEF FreshUnlessExcepted, NoErrorHidden, Emitted
<1> QED  BY <1>2, <1>8, <1>9, <1>10, <1>11, ZenonT(60)

LEMMA NextInv == IInv /\ [Next]_vars => IInv'
<1> SUFFICES ASSUME IInv, [Next]_vars PROVE IInv'
  BY SMTT(60)
<1>1. CASE UNCHANGED vars
  BY <1>1, ZenonT(60) DEF vars, disk, loaded, IInv, TypeOK, DiskInv, RecordInv, SelectInv, CheckedInv, CurrentInv,
       PresentInv, WrittenInv, FreshUnlessExcepted, NoErrorHidden, Overlooked, Building, Carried, Emitted
<1>2. CASE Next
  BY <1>2, EditSourceInv, EditOptionsInv, DeleteOutputInv, BeginInv, BeginUnchangedInv,
     CleanupInv, CompileInv,
     StopInv, WriteInv, WriteFailsInv, PruneInv, PersistInv DEF Next
<1> QED  BY <1>1, <1>2

\* The build's variables keep their types; in particular a build compiles only
\* files of the program it loaded.
THEOREM TypeCorrect == Spec => []TypeOK
<1>1. IInv => TypeOK
  BY DEF IInv
<1> QED  BY <1>1, InitInv, NextInv, PTL DEF Spec

\* For any compiler and import graph, a build that succeeds leaves the right
\* output for every file that was neither torn nor overlooked, whatever earlier
\* builds went through (output.go, 64 to 439).
THEOREM BuildsAreFresh == Spec => []FreshUnlessExcepted
<1>1. IInv => FreshUnlessExcepted
  BY DEF IInv
<1> QED  BY <1>1, InitInv, NextInv, PTL DEF Spec

\* For any compiler and import graph, a build that succeeds has an error-free
\* verdict on every source file, selected or not, but for those for which what
\* the manifest does not follow has changed.
THEOREM BuildsHideNoError == Spec => []NoErrorHidden
<1>1. IInv => NoErrorHidden
  BY DEF IInv
<1> QED  BY <1>1, InitInv, NextInv, PTL DEF Spec
-------------------------------------------------------------------------------
(***************************************************************************)
(* The search behind Affected.  What has been seen is affected, and the    *)
(* importers of whatever has left the queue have been seen.                *)
(***************************************************************************)
Seen == found \cup changed

SearchInv ==
    /\ SearchTypeOK
    /\ queue \subseteq Seen
    /\ Seen \subseteq AffectedPaths
    /\ changed \cap present \subseteq found
    /\ \A g \in Seen \ queue : reverse[g] \subseteq Seen

LEMMA SearchInvInit == SearchInit => SearchInv
BY DEF SearchInit, SearchInv, SearchTypeOK, Seen, AffectedPaths

LEMMA SearchInvStep == SearchInv /\ [SearchNext]_searchVars => SearchInv'
<1> SUFFICES ASSUME SearchInv, [SearchNext]_searchVars
             PROVE  SearchInv'
  OBVIOUS
<1>1. CASE UNCHANGED searchVars \/ Done
  <2>1. UNCHANGED <<changed, present, reverse, queue, found>>
    BY <1>1 DEF Done, searchVars
  <2> QED
    BY <2>1 DEF SearchInv, SearchTypeOK, Seen, AffectedPaths
<1>2. ASSUME NEW path \in Paths, Search(path)
      PROVE  SearchInv'
  <2> USE DEF SearchInv, Search, input
  <2>1. AffectedPaths' = AffectedPaths
    BY <1>2 DEF AffectedPaths
  <2>2. path \in AffectedPaths
    BY <1>2
  <2>3. reverse[path] \subseteq AffectedPaths
    BY <2>2 DEF AffectedPaths, SearchTypeOK
  <2>4. SearchTypeOK'
    BY <1>2 DEF SearchTypeOK
  <2>5. Seen' = Seen \cup reverse[path]
    BY <1>2 DEF Seen
  <2>6. Seen' \subseteq AffectedPaths'
    BY <2>1, <2>3, <2>5
  <2>7. queue' \subseteq Seen' /\ (changed \cap present \subseteq found)'
    BY <1>2, <2>5 DEF Seen
  <2>8. \A g \in Seen' \ queue' : reverse'[g] \subseteq Seen'
    BY <1>2, <2>5 DEF Seen
  <2> QED
    BY <2>4, <2>6, <2>7, <2>8
<1> QED
  BY <1>1, <1>2 DEF SearchNext

\* For any number of files and any import graph, the files the search returns
\* are those a change affects (incremental_manifest.go, 207 to 237).
THEOREM SearchIsExact == SearchSafeSpec => []SelectsAffected
<1>1. SearchInv => SelectsAffected
  <2> SUFFICES ASSUME SearchInv, queue = {}
               PROVE  Result = AffectedPaths \cap present
    BY DEF SelectsAffected
  <2>1. Seen \in SUBSET Paths /\ changed \subseteq Seen /\ \A g \in Seen : reverse[g] \subseteq Seen
    BY DEF SearchInv, SearchTypeOK, Seen
  <2>2. AffectedPaths \subseteq Seen
    BY <2>1 DEF AffectedPaths
  <2> QED
    BY <2>2 DEF SearchInv, Seen, Result
<1> QED
  BY <1>1, SearchInvInit, SearchInvStep, PTL DEF SearchSafeSpec

\* A turn that finds nothing new leaves fewer paths to search from, and only
\* paths that were not found before enter the queue.
SearchShrinks ==
    /\ found \subseteq found'
    /\ found' = found => queue' \subseteq queue /\ queue' # queue
    /\ (queue' \ queue) \cap found = {} /\ queue' \ queue \subseteq found'

\* Every turn of the search comes nearer to its end, also on a circle of imports
\* (incremental_manifest.go, 219 to 229): what is found only grows, and while it
\* stays the same the queue shrinks.
THEOREM SearchAdvances == SearchSafeSpec => [][SearchShrinks]_searchVars
<1>1. [SearchNext]_searchVars => [SearchShrinks]_searchVars
  <2> SUFFICES ASSUME NEW path \in Paths, Search(path)
               PROVE  SearchShrinks
    BY DEF SearchNext, Done
  <2> QED
    BY DEF Search, SearchShrinks
<1> QED
  BY <1>1, PTL DEF SearchSafeSpec

\* Started from what a build has loaded and the manifest it has read, the search
\* ends with the source files that the build takes for its selection (Affected).
THEOREM SearchServesBuild ==
    ASSUME NEW r \in SourceTexts, NEW p \in SourceTexts,
           Paths = Files,
           changed = Changed(r, p),
           reverse = [g \in Files |-> {f \in Files : g \in Refs(r, f) \cup Refs(p, f)}],
           SelectsAffected, queue = {}
    PROVE  Result = Affected(r, p) \cap present
<1>1. ASSUME NEW S \in SUBSET Files
      PROVE  (\A g \in S : reverse[g] \subseteq S) <=> ImportersWithin(r, p, S)
  BY ZenonT(60) DEF ImportersWithin
<1>2. AffectedPaths = Affected(r, p)
  BY <1>1, ZenonT(60) DEF AffectedPaths, Affected
<1> QED
  BY <1>2 DEF SelectsAffected
===============================================================================
