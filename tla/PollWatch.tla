------------------------------- MODULE PollWatch -------------------------------
(***************************************************************************)
(* `rotor build -w` and `rotor check -w` (cmd/rotor/watch.go): a loop that *)
(* compares time stamps with those of a baseline, waits for a burst of     *)
(* writes to settle and runs the build or the check again.  Files are      *)
(* saved at any time, in the middle of a pass too; a build writes files of *)
(* its own, a build that is rejected too: the files that are copied to the *)
(* output directory are copied before anything is compiled.                *)
(*                                                                         *)
(* The snapshots are atomic here.  A stamp concerns one file only, so a    *)
(* save between two of the stats is one before or after the snapshot.      *)
(***************************************************************************)
EXTENDS Integers

CONSTANTS
    Sources,            \* what a pass reads
    Config,             \* the tsconfig, one of Sources
    Plain,              \* the files beside them that a build copies
    Generated,          \* what a build may write outside the output directory:
                        \* rotor-lock.json, the tsbuildinfo
    Outputs,            \* what it writes there
    CopyOf,             \* CopyOf[f]: the copy of the plain file f, an output
    Texts(_), Absent,   \* what a source may hold; no such file, or a tsconfig
                        \* from which no program can be made
    Rejects(_),         \* Rejects(t): the build of the texts t has errors
    Stamps, NoStamp,    \* time and size of a file; no such file
    Modes,              \* see mode
    MaxRounds,          \* watchSettleCap / watchQuietPeriod
    MaxEvents           \* bound on the saves and on the failures that are not
                        \* due to the sources, together

Files == Sources \cup Plain \cup Generated \cup Outputs

NoStamps == [f \in Files |-> NoStamp]

Copies == {CopyOf[f] : f \in Plain}

ASSUME ConfigAssumption == Config \in Sources

ASSUME DisjointAssumption ==
    /\ Sources \cap (Plain \cup Generated \cup Outputs) = {}
    /\ Plain \cap (Generated \cup Outputs) = {}
    /\ Generated \cap Outputs = {}

ASSUME CopyAssumption == CopyOf \in [Plain -> Outputs]

ASSUME TextAssumption == \A f \in Sources : Absent \notin Texts(f)

\* A file that is written gets a stamp that no snapshot has for it.
ASSUME StampAssumption ==
    /\ NoStamp \in Stamps
    /\ \A w, x, y, z \in Stamps : \E s \in Stamps : s \notin {NoStamp, w, x, y, z}

ASSUME ModeAssumption == Modes \subseteq [command : {"build", "check"}, guessed : BOOLEAN]

ASSUME BoundAssumption == MaxRounds \in Nat \ {0} /\ MaxEvents \in Nat

VARIABLES
    mode,               \* the command, and whether the output directory is the
                        \* one that is guessed; never changes
    happened,           \* the saves and failures so far
    text, stamp,        \* on disk: what the sources hold, the stamps of all files
    phase,              \* "start", "begin", "read", "sleep" or "settle"
    baseline,           \* what is compared with
    known,              \* the files that the baseline has a stamp for, if checking
    current, rounds,    \* settleChanges: the last snapshot, the snapshots taken
    pruned,             \* the output directory is not walked
    listed,             \* the files of the last pass
    read, unread,       \* what it has read of them, what it has not yet read
    saved,              \* what the generated files are made from
    copied,             \* the manifest of the copy-files gate: the stamps it has
                        \* of plain files and copies, NoStamp for all others
    failed,             \* the last build had no result
    masked,             \* history: see EditsDetected
    absorbed            \* history: likewise

disk == <<text, stamp>>

snapshots == <<baseline, known, current, rounds>>

pass == <<listed, read, unread>>

pollVars == <<mode, happened, disk, phase, snapshots, pruned, pass, saved, copied, failed, masked, absorbed>>

SourceTexts == [Sources -> {Absent} \cup UNION {Texts(f) : f \in Sources}]

Building == mode.command = "build"

PollInit ==
    /\ mode \in Modes
    /\ happened = 0
    /\ text \in {t \in SourceTexts : \A f \in Sources : t[f] \in Texts(f) \cup {Absent}}
    /\ stamp = [f \in Files |-> IF f \in Plain \/ (f \in Sources /\ text[f] # Absent)
                                THEN CHOOSE s \in Stamps : s # NoStamp ELSE NoStamp]
    /\ phase = "start"
    /\ baseline = NoStamps
    /\ known = {}
    /\ current = NoStamps
    /\ rounds = 0
    /\ pruned = mode.guessed
    /\ listed = {}
    /\ read = [f \in Sources |-> Absent]
    /\ unread = {}
    /\ saved = [f \in Sources |-> Absent]
    /\ copied = NoStamps
    /\ failed = FALSE
    /\ masked = {}
    /\ absorbed = {}

NewStamp(f) == CHOOSE s \in Stamps : s \notin {NoStamp, stamp[f], baseline[f], current[f], copied[f]}

(***************************************************************************)
(* The user.                                                               *)
(***************************************************************************)
\* A save may keep the stamp: a text of the same size, within the resolution of
\* the file times.
SavedStamps(f, t) ==
    IF t = Absent THEN {NoStamp}
    ELSE {NewStamp(f)} \cup (IF text[f] = Absent THEN {} ELSE {stamp[f]})

SaveFile(f) ==
    /\ happened < MaxEvents
    /\ happened' = happened + 1
    /\ \E t \in (Texts(f) \cup {Absent}) \ {text[f]} : \E s \in SavedStamps(f, t) :
        /\ text' = [text EXCEPT ![f] = t]
        /\ stamp' = [stamp EXCEPT ![f] = s]
        /\ masked' = IF s = baseline[f] THEN masked \cup {f} ELSE masked \ {f}
    /\ UNCHANGED <<mode, phase, snapshots, pruned, pass, saved, copied, failed, absorbed>>

\* Of a plain file only the stamp matters here; BuildCaches is about its copy.  A
\* check does not look at it.
SavePlain(f) ==
    /\ Building
    /\ happened < MaxEvents
    /\ happened' = happened + 1
    /\ \E s \in {NewStamp(f), NoStamp} \ {stamp[f]} : stamp' = [stamp EXCEPT ![f] = s]
    /\ UNCHANGED <<mode, text, phase, snapshots, pruned, pass, saved, copied, failed, masked, absorbed>>
-------------------------------------------------------------------------------
(***************************************************************************)
(* The loop.                                                               *)
(***************************************************************************)

\* treeWatcher.snapshot, and snapshotFiles for a check.
Walked(f) == IF Building THEN f \in Outputs => ~pruned ELSE f \in listed

Snapshot == [f \in Files |-> IF Walked(f) THEN stamp[f] ELSE NoStamp]

Differ(before, after) == {f \in Files : before[f] # after[f]}

\* A build has a baseline before its first pass, a check has none.
Start ==
    /\ phase = "start"
    /\ phase' = "begin"
    /\ baseline' = IF Building THEN Snapshot ELSE baseline
    /\ UNCHANGED <<mode, happened, disk, known, current, rounds, pruned, pass, saved, copied, failed, masked, absorbed>>

Tick ==
    /\ phase = "sleep"
    /\ Differ(baseline, Snapshot) # {}
    /\ phase' = "settle"
    /\ current' = Snapshot
    /\ UNCHANGED <<mode, happened, disk, baseline, known, rounds, pruned, pass, saved, copied, failed, masked, absorbed>>

Capped == rounds + 1 = MaxRounds

\* One turn of settleChanges.  With the last one, what has changed since the
\* baseline decides whether there is another pass.
Settle ==
    /\ phase = "settle"
    /\ IF Differ(current, Snapshot) = {} \/ Capped
         THEN /\ baseline' = Snapshot
              /\ phase' = IF Differ(baseline, Snapshot) = {} THEN "sleep" ELSE "begin"
              /\ current' = NoStamps
              /\ rounds' = 0
         ELSE /\ current' = Snapshot
              /\ rounds' = rounds + 1
              /\ UNCHANGED <<baseline, phase>>
    /\ UNCHANGED <<mode, happened, disk, known, pruned, pass, saved, copied, failed, masked, absorbed>>
-------------------------------------------------------------------------------
(***************************************************************************)
(* A pass.  The tsconfig is read and the files are listed, then read one   *)
(* by one.  Without a tsconfig there is nothing more to read.  Of a check, *)
(* Sources are the tsconfig itself and what its file list may have: what   *)
(* it extends, and files that are only imported, runWatch never watches.   *)
(***************************************************************************)
Listing == {Config} \cup (IF text[Config] = Absent THEN {} ELSE {f \in Sources : text[f] # Absent})

BeginPass ==
    /\ phase = "begin"
    /\ phase' = "read"
    /\ listed' = Listing
    /\ unread' = Listing \ {Config}
    /\ read' = [f \in Sources |-> IF f = Config THEN text[f] ELSE Absent]
    /\ masked' = {}
    /\ UNCHANGED <<mode, happened, disk, snapshots, pruned, saved, copied, failed, absorbed>>

Read(f) ==
    /\ phase = "read"
    /\ f \in unread
    /\ unread' = unread \ {f}
    /\ read' = [read EXCEPT ![f] = text[f]]
    /\ UNCHANGED <<mode, happened, disk, phase, snapshots, pruned, listed, saved, copied, failed, masked, absorbed>>

\* The stamps after a build has removed R and then written W.
Written(W, R) ==
    [f \in Files |-> IF f \in W THEN NewStamp(f) ELSE IF f \in R THEN NoStamp ELSE stamp[f]]

\* SkipCopyFiles: the plain files and their copies are as on record.
CopiesKept ==
    \A f \in Plain :
        /\ copied[f] = stamp[f]
        /\ stamp[f] # NoStamp => copied[CopyOf[f]] = stamp[CopyOf[f]]

\* copyNonCompiledFiles.  It writes every copy again; that of a file that has
\* not changed is left alone with --writeOnlyChanged, which is off here.
Copied == IF CopiesKept THEN {} ELSE {CopyOf[f] : f \in {g \in Plain : stamp[g] # NoStamp}}

\* What cleanupOutputs may take for an orphan.
Orphans == Outputs \ {CopyOf[f] : f \in {g \in Plain : stamp[g] # NoStamp}}

\* Mistake: what is not walked any more stays in the baseline.
PrunedNot(skip, stamps) == stamps

\* pruneStamps.
Pruned(skip, stamps) == [f \in Files |-> IF f \in Outputs /\ skip THEN NoStamp ELSE stamps[f]]

\* The directory the result tells is skipped; without a result, the guessed one.
EndBuild(ok) ==
    LET skip == ok \/ mode.guessed IN
    /\ phase' = "sleep"
    /\ pruned' = skip
    /\ baseline' = Pruned(skip, baseline)
    /\ failed' = ~ok
    /\ UNCHANGED <<mode, text, known, current, rounds, pass, masked, absorbed>>

ReadAll == phase = "read" /\ unread = {}

Accepted == read[Config] # Absent /\ ~Rejects(read)

\* Mistake: the generated files are written by every build.
StaleAlways == Generated

\* They are written when they change.
Stale == IF saved = read THEN {} ELSE Generated

\* The manifest that the gate stores with a build that succeeds.
CopyRecord == [f \in Files |-> IF f \in Plain \cup Copies THEN stamp'[f] ELSE NoStamp]

BuildSucceeds ==
    /\ Building /\ ReadAll /\ Accepted
    /\ \E W \in SUBSET (Outputs \ Copies), R \in SUBSET Orphans :
        stamp' = Written(Copied \cup W \cup Stale, R)
    /\ saved' = read
    /\ copied' = CopyRecord
    /\ EndBuild(TRUE)
    /\ UNCHANGED happened

\* The copies are made and the orphans removed before the errors are found,
\* unless there is no program at all.  No manifest is stored.
BuildRejects ==
    /\ Building /\ ReadAll /\ ~Accepted
    /\ IF read[Config] = Absent THEN UNCHANGED stamp
       ELSE \E R \in SUBSET Orphans : stamp' = Written(Copied, R)
    /\ EndBuild(FALSE)
    /\ UNCHANGED <<happened, saved, copied>>

\* A write fails when others have been done.
BuildFails ==
    /\ Building /\ ReadAll /\ Accepted
    /\ happened < MaxEvents
    /\ happened' = happened + 1
    /\ \E W \in SUBSET ((Outputs \ Copies) \cup Copied \cup Stale), R \in SUBSET Orphans :
        stamp' = Written(W, R)
    /\ copied' \in {copied, CopyRecord}
    /\ EndBuild(FALSE)
    /\ UNCHANGED saved

\* Mistake: the stamps of after the check.
MergePreStampsPost(post, pre) == post

\* mergePreStamps.
MergePreStamps(post, pre) == [f \in Files |-> IF f \in listed \cap known THEN pre[f] ELSE post[f]]

CheckEnds ==
    /\ ~Building /\ ReadAll
    /\ phase' = "sleep"
    /\ baseline' = MergePreStamps(Snapshot, baseline)
    /\ known' = listed
    /\ absorbed' = {f \in listed \ known : text[f] # read[f]}
    /\ UNCHANGED <<mode, happened, disk, current, rounds, pruned, pass, saved, copied, failed, masked>>

Watch ==
    \/ Start \/ Tick \/ Settle \/ BeginPass
    \/ \E f \in Sources : Read(f)
    \/ BuildSucceeds \/ BuildRejects \/ BuildFails \/ CheckEnds

PollNext == Watch \/ (\E f \in Sources : SaveFile(f)) \/ (\E f \in Plain : SavePlain(f))

PollSpec == PollInit /\ [][PollNext]_pollVars

\* The process runs, and its timers expire.
PollFairSpec == PollSpec /\ WF_pollVars(Watch)
-------------------------------------------------------------------------------
\* The types.  No more snapshots are taken for one burst than the cap allows.
PollTypeOK ==
    /\ text \in SourceTexts
    /\ stamp \in [Files -> Stamps]
    /\ phase \in {"start", "begin", "read", "sleep", "settle"}
    /\ baseline \in [Files -> Stamps]
    /\ current \in [Files -> Stamps]
    /\ rounds \in 0 .. MaxRounds
    /\ phase = "settle" => rounds < MaxRounds
    /\ known \subseteq Sources /\ listed \subseteq Sources
    /\ unread \subseteq listed
    /\ read \in SourceTexts
    /\ copied \in [Files -> Stamps]

\* What the last pass was about: after one that had no tsconfig only this, for
\* a check its files, for a build every file there is.
Concerned == IF Building /\ read[Config] # Absent THEN Sources ELSE listed

\* No save is lost: between passes, a file that is not as the last pass has
\* read it differs from the baseline, whenever it was saved.  Excepted are the
\* files whose last save in or after the pass gave them the stamp of the
\* baseline (masked): a stamp that was kept, or a file that has come and gone.
\* For a check, excepted are also those it had no stamp for before the pass
\* and that were saved while it ran (absorbed).
EditsDetected ==
    phase = "sleep" => \A f \in Concerned \ (masked \cup absorbed) :
        text[f] # read[f] => baseline[f] # stamp[f]

\* The outputs of a build wake the watch only when the build has failed and
\* its directory is not the guessed one.
OutputsIgnored ==
    phase = "sleep" /\ Differ(baseline, Snapshot) \cap Outputs # {} => failed /\ ~mode.guessed

Resting ==
    /\ phase = "sleep"
    /\ Differ(baseline, Snapshot) = {}
    /\ \A f \in Concerned \ (masked \cup absorbed) : text[f] = read[f]

\* Each build is rejected after it has copied files to a directory that is
\* walked: guessedOutputDir does not know it without a result, and the gate has
\* no record of the copies until a build succeeds.
Restless ==
    /\ Building /\ ~mode.guessed
    /\ text[Config] # Absent /\ Rejects(text)
    /\ \E f \in Plain : stamp[f] # NoStamp
    /\ ~CopiesKept

\* When saves and write errors stop, the watch comes to rest, without another
\* build in response to its own writes, and its last pass has read what is
\* there; or it is restless, and goes on until the errors are mended.
ComesToRest == <>[]Resting \/ <>[]Restless
===============================================================================
