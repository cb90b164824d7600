-------------------------------- MODULE Assets --------------------------------
(***************************************************************************)
(* Uploading assets: `asset sync` (cmd/rotor/asset.go, internal/assets) and *)
(* the $asset macro of a build (internal/assetresolve), which share         *)
(* rotor-lock.json and run as two processes that may overlap, on top of the *)
(* retries of the Open Cloud client (internal/cloud/transport.go).          *)
(*                                                                         *)
(* A hash stands for the text it was computed from.  The files are fixed;   *)
(* their texts change at any moment.  The server carries out an upload when *)
(* it receives it, and numbers the assets; the image in a decal is not told *)
(* from the decal.                                                          *)
(***************************************************************************)
EXTENDS Naturals, Sequences, FiniteSets

CONSTANTS
    Files,        \* numbered in the order of their paths
    Texts,        \* what a file may contain
    MaxAttempts,  \* Client.maxAttempts
    Setups,       \* see setup
    MaxBuilds     \* bound of builds

ASSUME FilesAssumption == Files \subseteq Nat

ASSUME TextsAssumption == Texts # {}

ASSUME AttemptsAssumption == MaxAttempts \in Nat \ {0}

ASSUME BoundAssumption == MaxBuilds \in Nat /\ \A s \in Setups : s.faults \in Nat

VARIABLES
    setup,        \* the files that are edited, and what else may happen:
                  \* builds and kinds of fault, with a bound
    disk,         \* the texts of the files
    lockfile,     \* rotor-lock.json on the disk
    broken,       \* it does not parse: a merge has left its marks in it
    server,       \* the contents of the assets, by id
    proc,         \* the two processes
    faults, builds,
    abandoned,    \* history: assets that an event named below cut loose
    tainted       \* history: assets whose content may not be what was recorded

vars == <<setup, disk, lockfile, broken, server, proc, faults, builds, abandoned, tainted>>

Procs == {"sync", "build"}

\* A lock entry; hash and id are NoText and 0 when there is none.
NoText == "none"

NoEntry == [hash |-> NoText, id |-> 0]

NoLock == [f \in Files |-> NoEntry]

Ids(lock) == {lock[f].id : f \in Files} \ {0}

\* lock is the Lockfile in memory, seen the hashes of the scan, todo the files
\* still to do, added those recorded since the last save.  hash, text, id and
\* tries belong to the upload of file.  other: the lockfile was not this one
\* when the process loaded it, or the other process has saved since.
Idle == [pc |-> "idle", lock |-> NoLock, seen |-> <<>>, todo |-> {}, added |-> {}, failed |-> FALSE,
         file |-> <<>>, hash |-> NoText, text |-> NoText, id |-> 0, tries |-> 0, other |-> FALSE]

Init ==
    /\ setup \in Setups
    /\ disk = [f \in Files |-> CHOOSE t \in Texts : TRUE]
    /\ lockfile = NoLock /\ broken = FALSE
    /\ server = <<>>
    /\ proc = [p \in Procs |-> Idle]
    /\ faults = 0 /\ builds = 0
    /\ abandoned = {} /\ tainted = {}

Fault(kind) ==
    /\ kind \in setup.may
    /\ faults < setup.faults
    /\ faults' = faults + 1

\* A file is changed.
Edit(f, t) ==
    /\ f \in setup.edited
    /\ disk[f] # t
    /\ disk' = [disk EXCEPT ![f] = t]
    /\ UNCHANGED <<setup, lockfile, broken, server, proc, faults, builds, abandoned, tainted>>

\* A merge leaves conflict marks in the lockfile, and somebody resolves them.
Break ==
    /\ Fault("break")
    /\ ~broken
    /\ broken' = TRUE
    /\ UNCHANGED <<setup, disk, lockfile, server, proc, builds, abandoned, tainted>>

Mend ==
    /\ broken
    /\ broken' = FALSE
    /\ UNCHANGED <<setup, disk, lockfile, server, proc, faults, builds, abandoned, tainted>>
-------------------------------------------------------------------------------
(***************************************************************************)
(* Plausible mistakes in the code below; none of them is part of the       *)
(* model.                                                                  *)
(***************************************************************************)

\* A file that failed is left without a word.
UploadForgotten(p) == proc' = [proc EXCEPT ![p].pc = "next", ![p].todo = @ \ {proc[p].file}]

\* The lock entry gets the hash of the file as it is now.
HashNow(p) == disk[proc[p].file]

\* A changed file is uploaded as a new asset.
CreatesChanged(p) == TRUE

\* The lockfile is saved after the last upload only.
SavesLast(p) == p = "sync" /\ Cardinality(proc[p].todo) = 1

\* A file with an entry counts as unchanged.
UnchangedEntry(lock, f, hash) == lock[f] # NoEntry
-------------------------------------------------------------------------------
(***************************************************************************)
(* Start and plan.                                                         *)
(***************************************************************************)

\* BuildPlan and Resolve: the lockfile has the hash.
Unchanged(lock, f, hash) == lock[f].hash = hash

\* runAssetSync scans the files, then loads the lockfile.
StartSync ==
    /\ proc["sync"].pc = "idle"
    /\ proc' = [proc EXCEPT !["sync"].pc = "load", !["sync"].seen = disk]
    /\ UNCHANGED <<setup, disk, lockfile, broken, server, faults, builds, abandoned, tainted>>

\* A lockfile that does not parse ends the command.
Load ==
    /\ proc["sync"].pc = "load"
    /\ proc' = [proc EXCEPT !["sync"] =
           IF broken THEN Idle
           ELSE [@ EXCEPT !.pc = "next", !.lock = lockfile,
                          !.todo = {f \in Files : ~Unchanged(lockfile, f, proc["sync"].seen[f])}]]
    /\ UNCHANGED <<setup, disk, lockfile, broken, server, faults, builds, abandoned, tainted>>

\* newAssetResolver: a build starts from an empty lockfile when the one there
\* does not parse.  Its sources refer to the files F.
StartBuild(F) ==
    /\ "build" \in setup.may
    /\ builds < MaxBuilds
    /\ builds' = builds + 1
    /\ proc["build"].pc = "idle"
    /\ proc' = [proc EXCEPT !["build"] =
           [@ EXCEPT !.pc = "next", !.todo = F, !.other = broken,
                     !.lock = IF broken THEN NoLock ELSE lockfile]]
    /\ UNCHANGED <<setup, disk, lockfile, broken, server, faults, abandoned, tainted>>

\* The next item of the plan is read.
SyncReads(f) ==
    /\ proc["sync"].pc = "next"
    /\ f \in proc["sync"].todo /\ \A g \in proc["sync"].todo : f <= g
    /\ proc' = [proc EXCEPT !["sync"] =
           [@ EXCEPT !.pc = "send", !.file = f, !.hash = proc["sync"].seen[f], !.text = disk[f], !.tries = 0]]
    /\ UNCHANGED <<setup, disk, lockfile, broken, server, faults, builds, abandoned, tainted>>

\* Resolve hashes a file the first time it is referred to, and reads it again
\* for the upload.
ResolveHit(f) ==
    /\ proc["build"].pc = "next"
    /\ f \in proc["build"].todo
    /\ Unchanged(proc["build"].lock, f, disk[f])
    /\ proc' = [proc EXCEPT !["build"].todo = @ \ {f}]
    /\ UNCHANGED <<setup, disk, lockfile, broken, server, faults, builds, abandoned, tainted>>

ResolveMiss(f) ==
    /\ proc["build"].pc = "next"
    /\ f \in proc["build"].todo
    /\ ~Unchanged(proc["build"].lock, f, disk[f])
    /\ proc' = [proc EXCEPT !["build"] = [@ EXCEPT !.pc = "read", !.file = f, !.hash = disk[f]]]
    /\ UNCHANGED <<setup, disk, lockfile, broken, server, faults, builds, abandoned, tainted>>

BuildReads ==
    /\ proc["build"].pc = "read"
    /\ proc' = [proc EXCEPT !["build"] = [@ EXCEPT !.pc = "send", !.text = disk[proc["build"].file], !.tries = 0]]
    /\ UNCHANGED <<setup, disk, lockfile, broken, server, faults, builds, abandoned, tainted>>
-------------------------------------------------------------------------------
(***************************************************************************)
(* One upload.                                                             *)
(***************************************************************************)

\* A build always creates; a sync updates the asset of the lock entry.
Creates(p) == p = "build" \/ proc[p].lock[proc[p].file] = NoEntry

\* The id of the asset that a request is about.
Target(p) == IF Creates(p) THEN Len(server) + 1 ELSE proc[p].lock[proc[p].file].id

\* The server carries out the request.  An asset that is updated is not what
\* its lock entry says until the entry is saved.
Execute(p) ==
    /\ server' = [i \in 1 .. Len(server) \cup {Target(p)} |-> IF i = Target(p) THEN proc[p].text ELSE server[i]]
    /\ tainted' = IF Creates(p) THEN tainted ELSE tainted \cup {Target(p)}

\* The process goes on with its next file.
NextFile(r) ==
    [r EXCEPT !.pc = "next", !.todo = @ \ {r.file},
              !.file = <<>>, !.hash = NoText, !.text = NoText, !.id = 0, !.tries = 0]

\* A file that failed keeps its lock entry; a build with a failed file fails.
UploadFails(p) == proc' = [proc EXCEPT ![p] = [NextFile(@) EXCEPT !.failed = TRUE]]

\* do, when an attempt is answered.  Open Cloud is taken to answer an update
\* with the id that was updated, or none, and the id of a new decal stands for
\* that of its image, which ResolveImageID puts in its place.
Answered(p) ==
    /\ proc[p].pc = "send"
    /\ Execute(p)
    /\ proc' = [proc EXCEPT ![p] = [@ EXCEPT !.pc = "poll", !.id = Target(p)]]
    /\ UNCHANGED <<setup, disk, lockfile, broken, faults, builds, abandoned>>

Attempts(tries) == tries < MaxAttempts

\* do, when an attempt is not answered, or with a 5xx: the server may have
\* carried it out.
NotAnswered(p) ==
    /\ Fault("lost")
    /\ proc[p].pc = "send"
    /\ \/ /\ Execute(p)
          /\ abandoned' = IF Creates(p) THEN abandoned \cup {Target(p)} ELSE abandoned
       \/ UNCHANGED <<server, tainted, abandoned>>
    /\ \/ Attempts(proc[p].tries + 1) /\ proc' = [proc EXCEPT ![p].tries = @ + 1]
       \/ ~Attempts(proc[p].tries + 1) /\ UploadFails(p)
    /\ UNCHANGED <<setup, disk, lockfile, broken, builds>>

\* Any other status, or a file that cannot be read.
Refused(p) ==
    /\ Fault("refuse")
    /\ proc[p].pc = "send"
    /\ UploadFails(p)
    /\ UNCHANGED <<setup, disk, lockfile, broken, server, builds, abandoned, tainted>>

\* An asset that was created and is not in any lock entry.
InFlight(p) == IF proc[p].pc = "poll" /\ Creates(p) THEN {proc[p].id} ELSE {}

\* PollOperation or ResolveImageID fails.
PollFails(p) ==
    /\ Fault("refuse")
    /\ proc[p].pc = "poll"
    /\ UploadFails(p)
    /\ abandoned' = abandoned \cup InFlight(p)
    /\ UNCHANGED <<setup, disk, lockfile, broken, server, builds, tainted>>
-------------------------------------------------------------------------------
(***************************************************************************)
(* Recording, saving and ending.                                           *)
(***************************************************************************)

\* Sync saves after each upload, a build at its end.
SavesNow(p) == p = "sync"

RecordedHash(p) == proc[p].hash

\* Lockfile.Save replaces the whole file.  What p has uploaded replaces what
\* was recorded for the same files.  What the other process saved since p
\* loaded the lockfile is lost, and so is a lockfile that p could not parse.
Save(p, lock, uploaded, suspect) ==
    LET over == IF proc[p].other THEN Files ELSE uploaded
        back == {f \in over \ uploaded : lock[f] # lockfile[f]}
    IN  /\ lockfile' = lock
        /\ broken' = FALSE
        /\ abandoned' = (abandoned \cup {lockfile[f].id : f \in over}) \ (Ids(lock) \cup {0})
        /\ tainted' = suspect \cup ({lock[f].id : f \in back} \ {0})

\* The other process has loaded a lockfile that is no more.
Overtaken(p, r) ==
    [q \in Procs |->
        IF q = p THEN r
        ELSE [proc[q] EXCEPT !.other = @ \/ proc[q].pc \notin {"idle", "load"}]]

\* The upload is done: the entry is recorded, with the hash of before.
Record(p) ==
    /\ proc[p].pc = "poll"
    /\ LET file == proc[p].file
           lock == [proc[p].lock EXCEPT ![file] = [hash |-> RecordedHash(p), id |-> proc[p].id]]
           added == proc[p].added \cup {file}
           suspect == IF proc[p].hash = proc[p].text THEN tainted \ {proc[p].id}
                      ELSE tainted \cup {proc[p].id}
           next == [NextFile(proc[p]) EXCEPT !.lock = lock, !.added = added]
       IN  \/ /\ SavesNow(p)
              /\ Save(p, lock, added, suspect)
              /\ proc' = Overtaken(p, [next EXCEPT !.added = {}])
           \/ /\ ~SavesNow(p)
              /\ proc' = [proc EXCEPT ![p] = next]
              /\ tainted' = suspect
              /\ UNCHANGED <<lockfile, broken, abandoned>>
    /\ UNCHANGED <<setup, disk, server, faults, builds>>

\* What the end of p cuts loose.
Loose(p) == InFlight(p) \cup (IF p = "build" THEN {proc[p].lock[f].id : f \in proc[p].added} ELSE {})

End(p) == proc' = [proc EXCEPT ![p] = Idle]

\* Sync returns when its lockfile cannot be saved.
SyncSaveFails ==
    /\ Fault("save")
    /\ proc["sync"].pc = "poll"
    /\ End("sync")
    /\ abandoned' = abandoned \cup Loose("sync")
    /\ UNCHANGED <<setup, disk, lockfile, broken, server, builds, tainted>>

EndSync ==
    /\ proc["sync"].pc = "next"
    /\ proc["sync"].todo = {}
    /\ End("sync")
    /\ UNCHANGED <<setup, disk, lockfile, broken, server, faults, builds, abandoned, tainted>>

\* A build that succeeds saves what it has added.
EndBuild ==
    /\ proc["build"].pc = "next"
    /\ proc["build"].todo = {}
    /\ ~proc["build"].failed
    /\ \/ /\ proc["build"].added = {}
          /\ End("build")
          /\ UNCHANGED <<lockfile, broken, abandoned, tainted>>
       \/ /\ proc["build"].added # {}
          /\ Save("build", proc["build"].lock, proc["build"].added, tainted)
          /\ proc' = Overtaken("build", Idle)
    /\ UNCHANGED <<setup, disk, server, faults, builds>>

\* A build that fails, for whatever reason, saves nothing.
BuildFails ==
    /\ proc["build"].pc = "next"
    /\ End("build")
    /\ abandoned' = abandoned \cup Loose("build")
    /\ UNCHANGED <<setup, disk, lockfile, broken, server, faults, builds, tainted>>

Crash(p) ==
    /\ Fault("crash")
    /\ proc[p].pc # "idle"
    /\ End(p)
    /\ abandoned' = abandoned \cup Loose(p)
    /\ UNCHANGED <<setup, disk, lockfile, broken, server, builds, tainted>>

Step(p) ==
    \/ Answered(p) \/ NotAnswered(p) \/ Refused(p) \/ PollFails(p) \/ Record(p)
    \/ p = "sync" /\ (Load \/ EndSync \/ SyncSaveFails \/ \E f \in Files : SyncReads(f))
    \/ p = "build" /\ (BuildReads \/ EndBuild \/ BuildFails
                        \/ \E f \in Files : ResolveHit(f) \/ ResolveMiss(f))

Next ==
    \/ \E f \in Files, t \in Texts : Edit(f, t)
    \/ Break \/ Mend
    \/ StartSync
    \/ \E F \in SUBSET Files : StartBuild(F)
    \/ \E p \in Procs : Step(p) \/ Crash(p)

Spec == Init /\ [][Next]_vars

\* A process that runs goes on, and the server answers.
Fairness == \A p \in Procs : WF_vars(Step(p))

FairSpec == Spec /\ Fairness
-------------------------------------------------------------------------------
Entries == {NoEntry} \cup [hash : Texts, id : 1 .. Len(server)]

TypeOK ==
    /\ setup \in Setups
    /\ disk \in [Files -> Texts]
    /\ lockfile \in [Files -> Entries] /\ broken \in BOOLEAN
    /\ server \in Seq(Texts)
    /\ \A p \in Procs :
        /\ proc[p].pc \in {"idle", "load", "next", "read", "send", "poll"}
        /\ proc[p].lock \in [Files -> Entries]
        /\ proc[p].added \subseteq Files /\ proc[p].todo \subseteq Files \ proc[p].added
        /\ proc[p].tries \in 0 .. MaxAttempts - 1
        /\ proc[p].pc \in {"read", "send", "poll"} => proc[p].file \in proc[p].todo
    /\ faults \in 0 .. setup.faults /\ builds \in 0 .. MaxBuilds
    /\ abandoned \subseteq 1 .. Len(server) /\ tainted \subseteq 1 .. Len(server)

\* The content of an asset is the one its lock entry has the hash of, so a file
\* that counts as unchanged is on the server.  The exceptions are tainted: a
\* file that was changed between the hash and the upload, an update that was
\* carried out and not recorded (the file may later be changed back), and an
\* entry that a process put back over a newer one of the other process.
LockTruthful ==
    \A f \in Files :
        lockfile[f] # NoEntry /\ lockfile[f].id \notin tainted => server[lockfile[f].id] = lockfile[f].hash

\* Each asset is in the lockfile, in the hands of a running process, or was cut
\* loose by an event that is known: an attempt without an answer, a failed poll
\* or save, a build that failed or that uploaded a file anew, an overwritten
\* lockfile, and a crash, which costs a sync the asset in flight and nothing of
\* what it had uploaded before.
AssetsAccounted ==
    1 .. Len(server) \subseteq Ids(lockfile) \cup abandoned \cup UNION {Loose(p) : p \in Procs}

\* "Updates keep asset ids stable": a recorded id is replaced by a build only, or
\* by a process that has not seen the last lockfile.
IdsStable ==
    [][\A f \in Files :
        lockfile[f] # NoEntry /\ lockfile'[f].id # lockfile[f].id =>
            f \in proc["build"].added \/ \E p \in Procs : proc[p].other]_vars

\* A sync that comes to its end with no failure to report has recorded every
\* file with the hash of its scan, the files it skipped, retried or found again
\* after a crash included, unless a build has saved its lockfile meanwhile.
SyncRecordsAll ==
    proc["sync"].pc = "next" /\ proc["sync"].todo = {} /\ ~proc["sync"].failed /\ ~proc["sync"].other =>
        \A f \in Files : lockfile[f].hash = proc["sync"].seen[f]

\* All files are recorded as they are.
Agrees == \A f \in Files : lockfile[f].hash = disk[f]

\* When sync is run again and again, the lockfile catches up with the files,
\* whatever earlier runs were aborted and whatever failed, if edits and faults
\* end and the lockfile can be parsed.
SyncsCatchUp ==
    []<><<StartSync>>_vars =>
        \/ []<><<\E f \in Files, t \in Texts : Edit(f, t)>>_vars
        \/ []<>(broken \/ Agrees)
===============================================================================
