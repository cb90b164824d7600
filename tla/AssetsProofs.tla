----------------------------- MODULE AssetsProofs -----------------------------
(***************************************************************************)
(* What the lockfile of the assets may be trusted with, for any files,     *)
(* texts, faults and number of attempts, with a sync and a build at once.  *)
(*                                                                         *)
(* SyncsCatchUp is only model-checked; SyncIsComplete and ProcessesAdvance *)
(* are what it rests on.                                                   *)
(***************************************************************************)
EXTENDS Assets, TLAPS

Records ==
    [pc : {"idle", "load", "next", "read", "send", "poll"}, lock : [Files -> Entries],
     seen : {<<>>} \cup [Files -> Texts], todo : SUBSET Files, added : SUBSET Files, failed : BOOLEAN,
     file : {<<>>} \cup Files, hash : Texts \cup {NoText}, text : Texts \cup {NoText},
     id : 0 .. Len(server), tries : 0 .. MaxAttempts - 1, other : BOOLEAN]

\* What a process has in hand at each point of its loop.
ProcOK(p, r) ==
    /\ r \in Records
    /\ r.todo \cap r.added = {}
    /\ r.pc = "idle" => r = Idle
    /\ p = "sync" => r.added = {} /\ r.pc # "read" /\ (r.pc # "idle" => r.seen \in [Files -> Texts])
    /\ p = "build" => r.pc # "load"
    /\ r.pc \in {"read", "send", "poll"} => r.file \in r.todo /\ r.hash \in Texts
    /\ r.pc \in {"send", "poll"} => r.text \in Texts
    /\ r.pc = "poll" => r.id # 0
    /\ \A f \in r.added : r.lock[f].id # 0

Types ==
    /\ setup \in Setups
    /\ disk \in [Files -> Texts]
    /\ lockfile \in [Files -> Entries] /\ broken \in BOOLEAN
    /\ server \in Seq(Texts)
    /\ DOMAIN proc = Procs
    /\ \A p \in Procs : ProcOK(p, proc[p])
    /\ faults \in 0 .. setup.faults /\ builds \in 0 .. MaxBuilds
    /\ abandoned \subseteq 1 .. Len(server) /\ tainted \subseteq 1 .. Len(server)
-------------------------------------------------------------------------------
(***************************************************************************)
(* Types.                                                                  *)
(***************************************************************************)
LEMMA TypesImply == Types => TypeOK
BY DEF Types, TypeOK, ProcOK, Records, Procs

LEMMA NoLockType == Len(server) \in Nat => NoLock \in [Files -> Entries]
BY DEF NoLock, Entries

LEMMA EntryIds ==
    ASSUME Len(server) \in Nat, NEW e \in Entries
    PROVE  /\ e.id \in 0 .. Len(server)
           /\ e.id # 0 => e.id \in 1 .. Len(server)
           /\ e.id = 0 <=> e = NoEntry
<1>1. NoEntry.id = 0
  BY DEF NoEntry
<1>2. CASE e = NoEntry
  BY <1>1, <1>2
<1>3. CASE e \in [hash : Texts, id : 1 .. Len(server)]
  BY <1>1, <1>3
<1> QED
  BY <1>2, <1>3 DEF Entries

LEMMA IdleType == Len(server) \in Nat => \A p \in Procs : ProcOK(p, Idle)
<1> SUFFICES ASSUME Len(server) \in Nat, NEW p \in Procs
             PROVE  ProcOK(p, Idle)
  OBVIOUS
<1>1. NoLock \in [Files -> Entries]
  BY NoLockType
<1>2. Idle \in Records
  BY <1>1, AttemptsAssumption DEF Idle, Records
<1> QED
  BY <1>2 DEF Idle, ProcOK

LEMMA TypesInit == Init => Types
<1> SUFFICES ASSUME Init
             PROVE  Types
  OBVIOUS
<1>1. server \in Seq(Texts) /\ Len(server) = 0
  BY DEF Init
<1>2. lockfile \in [Files -> Entries]
  BY <1>1, NoLockType DEF Init
<1>3. \A p \in Procs : ProcOK(p, proc[p])
  BY <1>1, IdleType DEF Init
<1>4. (CHOOSE t \in Texts : TRUE) \in Texts
  BY TextsAssumption
<1>5. disk \in [Files -> Texts]
  BY <1>4 DEF Init
<1>6. faults \in 0 .. setup.faults /\ builds \in 0 .. MaxBuilds
  BY BoundAssumption DEF Init
<1>7. DOMAIN proc = Procs
  BY DEF Init
<1>8. setup \in Setups /\ broken \in BOOLEAN /\ abandoned = {} /\ tainted = {}
  BY Zenon DEF Init
<1> QED
  BY <1>1, <1>2, <1>3, <1>5, <1>6, <1>7, <1>8, Zenon DEF Types

\* More assets make no type smaller.
LEMMA TypesGrow ==
    ASSUME Types, server' \in Seq(Texts), Len(server) <= Len(server')
    PROVE  /\ Len(server) \in Nat /\ Len(server') \in Nat
           /\ Entries \subseteq Entries'
           /\ lockfile \in [Files -> Entries']
           /\ \A r : \A p \in Procs : ProcOK(p, r) => ProcOK(p, r)'
           /\ abandoned \subseteq 1 .. Len(server') /\ tainted \subseteq 1 .. Len(server')
<1>1. Len(server) \in Nat /\ Len(server') \in Nat
  BY DEF Types
<1>2. Entries \subseteq Entries'
  BY <1>1 DEF Entries
<1>3. [Files -> Entries] \subseteq [Files -> Entries']
  BY <1>2
<1>4. Records \subseteq Records'
  BY <1>1, <1>3 DEF Records
<1> QED
  BY <1>1, <1>2, <1>3, <1>4 DEF ProcOK, Types

\* Steps of one process that send nothing and save nothing.
LEMMA TypesKept ==
    ASSUME Types, UNCHANGED <<setup, server>>,
           disk' \in [Files -> Texts], lockfile' = lockfile, broken' \in BOOLEAN,
           faults' \in 0 .. setup.faults, builds' \in 0 .. MaxBuilds,
           abandoned' \subseteq 1 .. Len(server), tainted' = tainted,
           DOMAIN proc' = Procs,
           \A p \in Procs : proc'[p] = proc[p] \/ ProcOK(p, proc'[p])
    PROVE  Types'
<1>1. \A r : \A p \in Procs : ProcOK(p, r) => ProcOK(p, r)'
  BY ZenonT(60) DEF ProcOK, Records, Entries
<1>2. (\A p \in Procs : ProcOK(p, proc[p]))'
  BY <1>1, Zenon DEF Types
<1>3. lockfile' \in [Files -> Entries']
  BY Zenon DEF Types, Entries
<1> QED
  BY <1>2, <1>3, ZenonT(60) DEF Types

LEMMA FaultType == ASSUME Types, NEW k, Fault(k) PROVE faults' \in 0 .. setup.faults
BY BoundAssumption DEF Types, Fault

\* The end of an upload.
LEMMA NextFileType ==
    ASSUME Len(server) \in Nat, NEW p \in Procs, NEW r, ProcOK(p, r), r.pc \in {"send", "poll"}
    PROVE  /\ ProcOK(p, NextFile(r))
           /\ NextFile(r).lock = r.lock /\ NextFile(r).added = r.added
           /\ NextFile(r).other = r.other /\ NextFile(r).pc = "next"
           /\ NextFile(r).todo = r.todo \ {r.file} /\ NextFile(r).seen = r.seen
           /\ ProcOK(p, [NextFile(r) EXCEPT !.failed = TRUE])
           /\ [NextFile(r) EXCEPT !.failed = TRUE].lock = r.lock
           /\ [NextFile(r) EXCEPT !.failed = TRUE].added = r.added
           /\ [NextFile(r) EXCEPT !.failed = TRUE].other = r.other
           /\ [NextFile(r) EXCEPT !.failed = TRUE].pc = "next"
<1>1. 0 \in 0 .. Len(server) /\ 0 \in 0 .. MaxAttempts - 1 /\ r.todo \ {r.file} \in SUBSET Files
  BY AttemptsAssumption DEF ProcOK, Records
<1>2. NextFile(r) \in Records
  BY <1>1, ZenonT(60) DEF NextFile, ProcOK, Records
<1>3. [NextFile(r) EXCEPT !.failed = TRUE] \in Records
  BY <1>2, ZenonT(60) DEF Records
<1>5. /\ NextFile(r).lock = r.lock /\ NextFile(r).added = r.added
      /\ NextFile(r).other = r.other /\ NextFile(r).pc = "next"
      /\ NextFile(r).todo = r.todo \ {r.file} /\ NextFile(r).seen = r.seen
  BY ZenonT(60) DEF NextFile, ProcOK, Records
<1> DEFINE s == [NextFile(r) EXCEPT !.failed = TRUE]
<1>6. /\ s.lock = r.lock /\ s.added = r.added /\ s.other = r.other /\ s.pc = "next"
      /\ s.todo = r.todo \ {r.file} /\ s.seen = r.seen
  BY <1>2, <1>5, ZenonT(60) DEF Records
<1> HIDE DEF s
<1>7. ProcOK(p, NextFile(r))
  BY <1>2, <1>5, ZenonT(60) DEF ProcOK
<1>8. ProcOK(p, s)
  BY <1>3, <1>6, ZenonT(60) DEF ProcOK, s
<1> QED
  BY <1>5, <1>6, <1>7, <1>8, ZenonT(60) DEF s

-------------------------------------------------------------------------------
(***************************************************************************)
(* Quiet steps: they send nothing and save nothing, and a process keeps    *)
(* its lock or gets a new one from the disk.                               *)
(***************************************************************************)
Running(p) == proc[p].pc \notin {"idle", "load"}

Kept(p) ==
    /\ proc'[p].lock = proc[p].lock /\ proc'[p].added = proc[p].added /\ proc'[p].other = proc[p].other
    /\ Running(p)' => Running(p)
    /\ proc'[p].pc = "poll" =>
        /\ proc[p].pc = "poll"
        /\ proc'[p].id = proc[p].id /\ proc'[p].file = proc[p].file
        /\ proc'[p].text = proc[p].text /\ proc'[p].hash = proc[p].hash

Renewed(p) ==
    /\ proc'[p].lock \in {NoLock, lockfile} /\ proc'[p].added = {} /\ proc'[p].pc # "poll"
    /\ Running(p)' /\ ~proc'[p].other => proc'[p].lock = lockfile

Quiet ==
    /\ Types'
    /\ UNCHANGED <<lockfile, server, tainted>>
    /\ \A p \in Procs : Kept(p) \/ Renewed(p)
    /\ abandoned \subseteq abandoned'
    /\ \A p \in Procs : Loose(p) \subseteq Loose(p)' \cup abandoned'

LEMMA ProcStep ==
    ASSUME Types, NEW p \in Procs, NEW r, proc' = [proc EXCEPT ![p] = r]
    PROVE  /\ DOMAIN proc' = Procs /\ proc'[p] = r
           /\ \A q \in Procs : q # p => proc'[q] = proc[q]
BY Zenon DEF Types

LEMMA SameKept ==
    ASSUME NEW p \in Procs, proc'[p] = proc[p]
    PROVE  Kept(p) /\ Loose(p)' = Loose(p)
BY Zenon DEF Kept, Running, Loose, InFlight, Creates

LEMMA LooseKept ==
    ASSUME NEW p \in Procs, Kept(p), proc[p].pc = "poll" => proc'[p].pc = "poll"
    PROVE  Loose(p)' = Loose(p)
<1>1. InFlight(p)' = InFlight(p)
  BY Zenon DEF Kept, InFlight, Creates
<1> QED
  BY <1>1, Zenon DEF Kept, Loose

\* One process takes a quiet step.
LEMMA QuietStep ==
    ASSUME Types, UNCHANGED <<setup, lockfile, server, tainted>>,
           disk' \in [Files -> Texts], broken' \in BOOLEAN,
           faults' \in 0 .. setup.faults, builds' \in 0 .. MaxBuilds,
           abandoned \subseteq abandoned', abandoned' \subseteq 1 .. Len(server),
           NEW p \in Procs, NEW r, proc' = [proc EXCEPT ![p] = r],
           ProcOK(p, r), Kept(p) \/ Renewed(p),
           Loose(p) \subseteq Loose(p)' \cup abandoned'
    PROVE  Quiet
<1>1. /\ DOMAIN proc' = Procs /\ proc'[p] = r
      /\ \A q \in Procs : q # p => proc'[q] = proc[q]
  BY ProcStep, Zenon
<1>2. Types'
  BY <1>1, TypesKept, ZenonT(60)
<1>3. \A q \in Procs : q # p => Kept(q) /\ Loose(q)' = Loose(q)
  BY <1>1, SameKept, Zenon
<1> QED
  BY <1>2, <1>3, ZenonT(60) DEF Quiet

\* No process moves.
LEMMA QuietStill ==
    ASSUME Types, UNCHANGED <<setup, lockfile, server, proc, tainted, abandoned>>,
           disk' \in [Files -> Texts], broken' \in BOOLEAN,
           faults' \in 0 .. setup.faults, builds' \in 0 .. MaxBuilds
    PROVE  Quiet
<1>1. Types'
  BY TypesKept, ZenonT(60) DEF Types
<1>2. \A q \in Procs : Kept(q) /\ Loose(q)' = Loose(q)
  BY SameKept, Zenon
<1> QED
  BY <1>1, <1>2, ZenonT(60) DEF Quiet

LEMMA EditQuiet == ASSUME Types, NEW f \in Files, NEW t \in Texts, Edit(f, t) PROVE Quiet
<1>1. disk' \in [Files -> Texts]
  BY DEF Edit, Types
<1> QED
  BY <1>1, QuietStill, ZenonT(60) DEF Edit, Types

LEMMA MergeQuiet == ASSUME Types, Break \/ Mend PROVE Quiet
<1>1. faults' \in 0 .. setup.faults
  BY FaultType DEF Break, Mend, Types
<1>2. broken' \in BOOLEAN
  BY Zenon DEF Break, Mend
<1> QED
  BY <1>1, <1>2, QuietStill, ZenonT(60) DEF Break, Mend, Types

LEMMA StartSyncQuiet == ASSUME Types, StartSync PROVE Quiet
<1> DEFINE r == [proc["sync"] EXCEPT !.pc = "load", !.seen = disk]
<1>1. "sync" \in Procs /\ ProcOK("sync", proc["sync"]) /\ proc["sync"].pc = "idle"
  BY Zenon DEF Types, Procs, StartSync
<1>2. proc' = [proc EXCEPT !["sync"] = r]
  BY Zenon DEF StartSync
<1>3. r \in Records
  BY <1>1, ZenonT(60) DEF ProcOK, Records, Types
<1>4. /\ r.pc = "load" /\ r.lock = proc["sync"].lock /\ r.added = proc["sync"].added
      /\ r.other = proc["sync"].other /\ r.todo = proc["sync"].todo /\ r.seen = disk
  BY <1>1, ZenonT(60) DEF ProcOK, Records
<1> HIDE DEF r
<1>5. ProcOK("sync", r)
  BY <1>1, <1>3, <1>4, ZenonT(60) DEF ProcOK, Types
<1>6. Kept("sync") /\ proc["sync"].pc # "poll"
  BY <1>1, <1>2, <1>4, ProcStep, ZenonT(60) DEF Kept, Running
<1>7. Loose("sync")' = Loose("sync")
  BY <1>1, <1>6, LooseKept, Zenon
<1> QED
  BY <1>1, <1>2, <1>5, <1>6, <1>7, QuietStep, ZenonT(60) DEF StartSync, Types

LEMMA EndQuiet ==
    ASSUME Types, NEW p \in Procs, End(p), UNCHANGED <<setup, disk, lockfile, server, tainted, builds>>,
           broken' \in BOOLEAN, faults' \in 0 .. setup.faults,
           abandoned' = abandoned \cup Loose(p) \/ (abandoned' = abandoned /\ Loose(p) = {})
    PROVE  Quiet
<1>1. Len(server) \in Nat
  BY DEF Types
<1>2. ProcOK(p, Idle)
  BY <1>1, IdleType
<1>3. Renewed(p)
  BY ProcStep, ZenonT(60) DEF End, Renewed, Running, Idle
<1>4. Loose(p) \subseteq 1 .. Len(server)
  <2>1. ProcOK(p, proc[p])
    BY Zenon DEF Types
  <2>2. InFlight(p) \subseteq 1 .. Len(server)
    BY <1>1, <2>1 DEF InFlight, ProcOK, Records
  <2>3. \A f \in proc[p].added : proc[p].lock[f].id \in 1 .. Len(server)
    <3>1. \A f \in proc[p].added : proc[p].lock[f] \in Entries /\ proc[p].lock[f].id # 0
      BY <2>1, ZenonT(60) DEF ProcOK, Records
    <3> QED
      BY <1>1, <3>1, EntryIds, Zenon
  <2> QED
    BY <2>2, <2>3, Zenon DEF Loose
<1>5. abandoned \subseteq abandoned' /\ abandoned' \subseteq 1 .. Len(server) /\ Loose(p) \subseteq abandoned'
  BY <1>4, ZenonT(60) DEF Types
<1> QED
  BY <1>2, <1>3, <1>5, QuietStep, ZenonT(60) DEF End, Types

LEMMA NoneLoose ==
    ASSUME Types, NEW p \in Procs, proc[p].pc # "poll", proc[p].added = {}
    PROVE  Loose(p) = {}
BY Zenon DEF Loose, InFlight

LEMMA LoadQuiet == ASSUME Types, Load PROVE Quiet
<1>1. /\ "sync" \in Procs /\ ProcOK("sync", proc["sync"]) /\ proc["sync"].pc = "load"
      /\ lockfile \in [Files -> Entries]
  BY Zenon DEF Types, Procs, Load
<1>2. Loose("sync") = {}
  BY <1>1, NoneLoose, Zenon DEF ProcOK
<1>3. CASE broken
  BY <1>1, <1>2, <1>3, EndQuiet, ZenonT(60) DEF Load, End, Types
<1>4. CASE ~broken
  <2> DEFINE T == {f \in Files : ~Unchanged(lockfile, f, proc["sync"].seen[f])}
             r == [proc["sync"] EXCEPT !.pc = "next", !.lock = lockfile, !.todo = T]
  <2>1. proc' = [proc EXCEPT !["sync"] = r]
    BY <1>4, Zenon DEF Load
  <2>2. T \in SUBSET Files
    BY Zenon
  <2> HIDE DEF T
  <2>3. r \in Records
    BY <1>1, <2>2, ZenonT(60) DEF ProcOK, Records
  <2>4. /\ r.pc = "next" /\ r.lock = lockfile /\ r.added = proc["sync"].added
        /\ r.todo = T /\ r.seen = proc["sync"].seen
    BY <1>1, ZenonT(60) DEF ProcOK, Records
  <2> HIDE DEF r
  <2>5. ProcOK("sync", r)
    BY <1>1, <2>3, <2>4, ZenonT(60) DEF ProcOK
  <2>6. Renewed("sync")
    BY <1>1, <2>1, <2>4, ProcStep, ZenonT(60) DEF Renewed, Running, ProcOK
  <2> QED
    BY <1>1, <1>2, <2>1, <2>5, <2>6, QuietStep, ZenonT(60) DEF Load, Types
<1> QED
  BY <1>3, <1>4, Zenon

LEMMA StartBuildQuiet == ASSUME Types, NEW F \in SUBSET Files, StartBuild(F) PROVE Quiet
<1>1. /\ "build" \in Procs /\ ProcOK("build", proc["build"]) /\ proc["build"].pc = "idle"
      /\ lockfile \in [Files -> Entries] /\ broken \in BOOLEAN /\ Len(server) \in Nat
  BY DEF Types, Procs, StartBuild
<1>2. proc["build"] = Idle
  BY <1>1, Zenon DEF ProcOK
<1>3. proc["build"].added = {} /\ Loose("build") = {}
  <2>1. Idle.added = {}
    BY DEF Idle
  <2> QED
    BY <1>1, <1>2, <2>1, NoneLoose, Zenon
<1>4. builds' \in 0 .. MaxBuilds
  BY BoundAssumption DEF StartBuild, Types
<1> DEFINE L == IF broken THEN NoLock ELSE lockfile
           r == [proc["build"] EXCEPT !.pc = "next", !.todo = F, !.other = broken, !.lock = L]
<1>5. proc' = [proc EXCEPT !["build"] = r]
  BY Zenon DEF StartBuild
<1>6. L \in [Files -> Entries]
  BY <1>1, NoLockType, Zenon
<1>7. L \in {NoLock, lockfile} /\ (~broken => L = lockfile)
  BY Zenon
<1> HIDE DEF L
<1>8. r \in Records
  BY <1>1, <1>6, ZenonT(60) DEF ProcOK, Records
<1>9. /\ r.pc = "next" /\ r.lock = L /\ r.added = proc["build"].added
      /\ r.todo = F /\ r.other = broken
  BY <1>1, ZenonT(60) DEF ProcOK, Records
<1> HIDE DEF r
<1>10. ProcOK("build", r)
  BY <1>3, <1>8, <1>9, ZenonT(60) DEF ProcOK
<1>11. Renewed("build")
  BY <1>1, <1>3, <1>5, <1>7, <1>9, ProcStep, ZenonT(60) DEF Renewed, Running
<1> QED
  BY <1>1, <1>3, <1>4, <1>5, <1>10, <1>11, QuietStep, ZenonT(60) DEF StartBuild, Types

LEMMA SyncReadsQuiet == ASSUME Types, NEW f \in Files, SyncReads(f) PROVE Quiet
<1> DEFINE r == [proc["sync"] EXCEPT !.pc = "send", !.file = f, !.hash = proc["sync"].seen[f],
                                     !.text = disk[f], !.tries = 0]
<1>1. /\ "sync" \in Procs /\ ProcOK("sync", proc["sync"]) /\ proc["sync"].pc = "next"
      /\ f \in proc["sync"].todo /\ disk[f] \in Texts /\ 0 \in 0 .. MaxAttempts - 1
  BY AttemptsAssumption DEF Types, Procs, SyncReads
<1>2. proc["sync"].seen[f] \in Texts
  BY <1>1 DEF ProcOK
<1>3. proc' = [proc EXCEPT !["sync"] = r]
  BY Zenon DEF SyncReads
<1>4. r \in Records
  BY <1>1, <1>2, ZenonT(60) DEF ProcOK, Records
<1>5. /\ r.pc = "send" /\ r.lock = proc["sync"].lock /\ r.added = proc["sync"].added
      /\ r.other = proc["sync"].other /\ r.todo = proc["sync"].todo /\ r.seen = proc["sync"].seen
      /\ r.file = f /\ r.hash = proc["sync"].seen[f] /\ r.text = disk[f]
  BY <1>1, ZenonT(60) DEF ProcOK, Records
<1> HIDE DEF r
<1>6. ProcOK("sync", r)
  BY <1>1, <1>2, <1>4, <1>5, ZenonT(60) DEF ProcOK
<1>7. Kept("sync")
  BY <1>1, <1>3, <1>5, ProcStep, ZenonT(60) DEF Kept, Running
<1>8. Loose("sync")' = Loose("sync")
  BY <1>1, <1>7, LooseKept, Zenon
<1> QED
  BY <1>1, <1>3, <1>6, <1>7, <1>8, QuietStep, ZenonT(60) DEF SyncReads, Types

LEMMA ResolveHitQuiet == ASSUME Types, NEW f \in Files, ResolveHit(f) PROVE Quiet
<1> DEFINE r == [proc["build"] EXCEPT !.todo = @ \ {f}]
<1>1. "build" \in Procs /\ ProcOK("build", proc["build"]) /\ proc["build"].pc = "next"
  BY Zenon DEF Types, Procs, ResolveHit
<1>2. proc' = [proc EXCEPT !["build"] = r]
  BY Zenon DEF ResolveHit
<1>3. r \in Records
  <2>1. proc["build"].todo \ {f} \in SUBSET Files
    BY <1>1, ZenonT(60) DEF ProcOK, Records
  <2> QED
    BY <1>1, <2>1, ZenonT(60) DEF ProcOK, Records
<1>4. /\ r.pc = "next" /\ r.lock = proc["build"].lock /\ r.added = proc["build"].added
      /\ r.other = proc["build"].other /\ r.todo = proc["build"].todo \ {f}
  BY <1>1, ZenonT(60) DEF ProcOK, Records
<1> HIDE DEF r
<1>5. ProcOK("build", r)
  BY <1>1, <1>3, <1>4, ZenonT(60) DEF ProcOK
<1>6. Kept("build")
  BY <1>1, <1>2, <1>4, ProcStep, ZenonT(60) DEF Kept, Running
<1>7. Loose("build")' = Loose("build")
  BY <1>1, <1>6, LooseKept, Zenon
<1> QED
  BY <1>1, <1>2, <1>5, <1>6, <1>7, QuietStep, ZenonT(60) DEF ResolveHit, Types

LEMMA ResolveMissQuiet == ASSUME Types, NEW f \in Files, ResolveMiss(f) PROVE Quiet
<1> DEFINE r == [proc["build"] EXCEPT !.pc = "read", !.file = f, !.hash = disk[f]]
<1>1. /\ "build" \in Procs /\ ProcOK("build", proc["build"]) /\ proc["build"].pc = "next"
      /\ f \in proc["build"].todo /\ disk[f] \in Texts
  BY DEF Types, Procs, ResolveMiss
<1>2. proc' = [proc EXCEPT !["build"] = r]
  BY Zenon DEF ResolveMiss
<1>3. r \in Records
  BY <1>1, ZenonT(60) DEF ProcOK, Records
<1>4. /\ r.pc = "read" /\ r.lock = proc["build"].lock /\ r.added = proc["build"].added
      /\ r.other = proc["build"].other /\ r.todo = proc["build"].todo
      /\ r.file = f /\ r.hash = disk[f]
  BY <1>1, ZenonT(60) DEF ProcOK, Records
<1> HIDE DEF r
<1>5. ProcOK("build", r)
  BY <1>1, <1>3, <1>4, ZenonT(60) DEF ProcOK
<1>6. Kept("build")
  BY <1>1, <1>2, <1>4, ProcStep, ZenonT(60) DEF Kept, Running
<1>7. Loose("build")' = Loose("build")
  BY <1>1, <1>6, LooseKept, Zenon
<1> QED
  BY <1>1, <1>2, <1>5, <1>6, <1>7, QuietStep, ZenonT(60) DEF ResolveMiss, Types

LEMMA BuildReadsQuiet == ASSUME Types, BuildReads PROVE Quiet
<1> DEFINE t == disk[proc["build"].file]
           r == [proc["build"] EXCEPT !.pc = "send", !.text = t, !.tries = 0]
<1>1. /\ "build" \in Procs /\ ProcOK("build", proc["build"]) /\ proc["build"].pc = "read"
      /\ 0 \in 0 .. MaxAttempts - 1
  BY AttemptsAssumption DEF Types, Procs, BuildReads
<1>2. proc' = [proc EXCEPT !["build"] = r]
  BY Zenon DEF BuildReads
<1>3. t \in Texts
  BY <1>1, ZenonT(60) DEF Types, ProcOK, Records
<1> HIDE DEF t
<1>4. r \in Records
  BY <1>1, <1>3, ZenonT(60) DEF ProcOK, Records
<1>5. /\ r.pc = "send" /\ r.lock = proc["build"].lock /\ r.added = proc["build"].added
      /\ r.other = proc["build"].other /\ r.todo = proc["build"].todo
      /\ r.file = proc["build"].file /\ r.hash = proc["build"].hash /\ r.text = t
  BY <1>1, ZenonT(60) DEF ProcOK, Records
<1> HIDE DEF r
<1>6. ProcOK("build", r)
  BY <1>1, <1>3, <1>4, <1>5, ZenonT(60) DEF ProcOK
<1>7. Kept("build")
  BY <1>1, <1>2, <1>5, ProcStep, ZenonT(60) DEF Kept, Running
<1>8. Loose("build")' = Loose("build")
  BY <1>1, <1>7, LooseKept, Zenon
<1> QED
  BY <1>1, <1>2, <1>6, <1>7, <1>8, QuietStep, ZenonT(60) DEF BuildReads, Types

LEMMA FailsQuiet == ASSUME Types, NEW p \in Procs, Refused(p) \/ PollFails(p) PROVE Quiet
<1> DEFINE r == [NextFile(proc[p]) EXCEPT !.failed = TRUE]
<1>1. Len(server) \in Nat /\ ProcOK(p, proc[p])
  BY DEF Types
<1>2. proc[p].pc \in {"send", "poll"} /\ proc' = [proc EXCEPT ![p] = r]
  BY Zenon DEF Refused, PollFails, UploadFails
<1>3. /\ ProcOK(p, r) /\ r.lock = proc[p].lock /\ r.added = proc[p].added
      /\ r.other = proc[p].other /\ r.pc = "next"
  BY <1>1, <1>2, NextFileType, ZenonT(60)
<1> HIDE DEF r
<1>4. Kept(p) /\ proc'[p].pc = "next"
  BY <1>2, <1>3, ProcStep, ZenonT(60) DEF Kept, Running
<1>5. abandoned' = abandoned \cup InFlight(p)
  BY ZenonT(60) DEF Refused, PollFails, InFlight
<1>6. InFlight(p) \subseteq 1 .. Len(server)
  BY <1>1 DEF InFlight, ProcOK, Records
<1>7. Loose(p) \subseteq Loose(p)' \cup abandoned'
  BY <1>4, <1>5, ZenonT(60) DEF Loose, Kept
<1>8. faults' \in 0 .. setup.faults
  BY FaultType, Zenon DEF Refused, PollFails
<1>9. abandoned \subseteq abandoned' /\ abandoned' \subseteq 1 .. Len(server)
  BY <1>5, <1>6, ZenonT(60) DEF Types
<1> QED
  BY <1>2, <1>3, <1>4, <1>7, <1>8, <1>9, QuietStep, ZenonT(60) DEF Refused, PollFails, Types

LEMMA EndingsQuiet ==
    ASSUME Types,
           SyncSaveFails \/ EndSync \/ BuildFails \/ (EndBuild /\ proc["build"].added = {})
             \/ \E p \in Procs : Crash(p)
    PROVE  Quiet
<1>1. "sync" \in Procs /\ "build" \in Procs /\ ProcOK("sync", proc["sync"])
  BY Zenon DEF Types, Procs
<1>2. CASE SyncSaveFails
  BY <1>1, <1>2, FaultType, EndQuiet, ZenonT(60) DEF SyncSaveFails, Types
<1>3. CASE EndSync
  <2>1. Loose("sync") = {}
    BY <1>1, <1>3, NoneLoose, Zenon DEF EndSync, ProcOK
  <2> QED
    BY <1>1, <1>3, <2>1, EndQuiet, ZenonT(60) DEF EndSync, Types
<1>4. CASE BuildFails
  BY <1>1, <1>4, EndQuiet, ZenonT(60) DEF BuildFails, Types
<1>5. CASE EndBuild /\ proc["build"].added = {}
  <2>1. Loose("build") = {}
    BY <1>1, <1>5, NoneLoose, Zenon DEF EndBuild
  <2>2. End("build") /\ UNCHANGED <<lockfile, broken, abandoned, tainted>>
    BY <1>5, Zenon DEF EndBuild
  <2> QED
    BY <1>1, <1>5, <2>1, <2>2, EndQuiet, ZenonT(60) DEF EndBuild, Types
<1>6. ASSUME NEW p \in Procs, Crash(p)
      PROVE  Quiet
  BY <1>6, FaultType, EndQuiet, ZenonT(60) DEF Crash, Types
<1> QED
  BY <1>2, <1>3, <1>4, <1>5, <1>6, Zenon
-------------------------------------------------------------------------------
(***************************************************************************)
(* The inductive invariant.                                                *)
(***************************************************************************)

\* An asset in flight is in nobody's lock.
FlightInv ==
    \A p \in Procs : proc[p].pc = "poll" /\ Creates(p) =>
        /\ \A f \in Files : lockfile[f].id # proc[p].id
        /\ \A q \in Procs, f \in Files : proc[q].lock[f].id # proc[p].id
        /\ \A q \in Procs : q # p /\ proc[q].pc = "poll" => proc[q].id # proc[p].id

\* What a build has added is in its own lock only.
AddedInv ==
    \A f \in proc["build"].added, g \in Files :
        /\ lockfile[g].id # proc["build"].lock[f].id
        /\ proc["sync"].lock[g].id # proc["build"].lock[f].id

\* No two files share an asset.
Injective(lock) == \A f, g \in Files : lock[f].id = lock[g].id /\ lock[f].id # 0 => f = g

InjectiveInv == Injective(lockfile) /\ \A p \in Procs : Injective(proc[p].lock)

\* A process that was not overtaken has the lockfile and what it has added.
SameInv ==
    \A p \in Procs : Running(p) /\ ~proc[p].other =>
        \A f \in Files \ proc[p].added : proc[p].lock[f] = lockfile[f]

\* What an upload has put on the server stays there while it is polled.
UploadInv ==
    \A p \in Procs : proc[p].pc = "poll" =>
        /\ server[proc[p].id] = proc[p].text
        /\ ~Creates(p) => proc[p].id = proc[p].lock[proc[p].file].id

TruthInv ==
    /\ LockTruthful
    /\ \A f \in proc["build"].added :
        proc["build"].lock[f].id \notin tainted =>
            server[proc["build"].lock[f].id] = proc["build"].lock[f].hash

AInv ==
    Types /\ FlightInv /\ AddedInv /\ InjectiveInv /\ SameInv /\ UploadInv /\ TruthInv /\ AssetsAccounted
-------------------------------------------------------------------------------
LEMMA NoLockIds == \A f \in Files : NoLock[f].id = 0 /\ NoLock[f] = NoEntry
BY DEF NoLock, NoEntry

\* A quiet step keeps the invariant.
LEMMA QuietInv == AInv /\ Quiet => AInv'
<1> SUFFICES ASSUME AInv, Quiet
             PROVE  AInv'
  OBVIOUS
<1>1. /\ UNCHANGED <<lockfile, server, tainted>>
      /\ \A p \in Procs : Kept(p) \/ Renewed(p)
      /\ "sync" \in Procs /\ "build" \in Procs
  BY Zenon DEF Quiet, Procs
<1>2. \A p \in Procs : proc[p].pc = "poll" => proc[p].id # 0
  BY Zenon DEF AInv, Types, ProcOK
<1>3. \A p \in Procs : proc'[p].pc = "poll" => Kept(p) /\ (Creates(p)' = Creates(p))
  BY <1>1, Zenon DEF Kept, Renewed, Creates
<1>4. \A p \in Procs, f \in Files :
        proc'[p].lock[f] \in {proc[p].lock[f], NoEntry, lockfile[f]}
  BY <1>1, NoLockIds, Zenon DEF Kept, Renewed
<1>5. NoEntry.id = 0
  BY DEF NoEntry
<1>6. FlightInv'
  <2> SUFFICES ASSUME NEW p \in Procs, proc'[p].pc = "poll", Creates(p)'
               PROVE  /\ \A f \in Files : lockfile'[f].id # proc'[p].id
                      /\ \A q \in Procs, f \in Files : proc'[q].lock[f].id # proc'[p].id
                      /\ \A q \in Procs : q # p /\ proc'[q].pc = "poll" => proc'[q].id # proc'[p].id
    BY Zenon DEF FlightInv
  <2>1. proc'[p].id = proc[p].id /\ proc[p].pc = "poll" /\ Creates(p) /\ proc[p].id # 0
    BY <1>2, <1>3, Zenon DEF Kept
  <2>2. /\ \A f \in Files : lockfile[f].id # proc[p].id
        /\ \A q \in Procs, f \in Files : proc[q].lock[f].id # proc[p].id
        /\ \A q \in Procs : q # p /\ proc[q].pc = "poll" => proc[q].id # proc[p].id
    BY <2>1, Zenon DEF AInv, FlightInv
  <2>3. \A q \in Procs, f \in Files : proc'[q].lock[f].id # proc[p].id
    BY <1>4, <1>5, <2>1, <2>2, Zenon
  <2>4. \A q \in Procs : q # p /\ proc'[q].pc = "poll" => proc'[q].id # proc[p].id
    BY <1>3, <2>2, Zenon DEF Kept
  <2> QED
    BY <1>1, <2>1, <2>2, <2>3, <2>4, Zenon
<1>7. \A f \in proc'["build"].added :
        f \in proc["build"].added /\ proc'["build"].lock = proc["build"].lock
  BY <1>1, Zenon DEF Kept, Renewed
<1>8. AddedInv'
  <2> SUFFICES ASSUME NEW f \in proc'["build"].added, NEW g \in Files
               PROVE  /\ lockfile'[g].id # proc'["build"].lock[f].id
                      /\ proc'["sync"].lock[g].id # proc'["build"].lock[f].id
    BY Zenon DEF AddedInv
  <2>1. proc["build"].lock[f].id # 0
    BY <1>1, <1>7, Zenon DEF AInv, Types, ProcOK
  <2>2. f \in proc["build"].added /\ proc'["build"].lock[f].id = proc["build"].lock[f].id /\ lockfile' = lockfile
    BY <1>1, <1>7, Zenon
  <2>3. /\ lockfile[g].id # proc["build"].lock[f].id
        /\ proc["sync"].lock[g].id # proc["build"].lock[f].id
    BY <2>2, Zenon DEF AInv, AddedInv
  <2>4. proc'["sync"].lock[g].id # proc["build"].lock[f].id
    <3>1. NoEntry.id = 0
      BY DEF NoEntry
    <3>2. proc'["sync"].lock[g] \in {proc["sync"].lock[g], NoEntry, lockfile[g]}
      BY <1>1, <1>4, Zenon
    <3> QED
      BY <2>1, <2>3, <3>1, <3>2, Zenon
  <2> QED
    BY <2>2, <2>3, <2>4, Zenon
<1>9. InjectiveInv'
  <2>1. Injective(NoLock)
    BY NoLockIds, Zenon DEF Injective
  <2>2. \A p \in Procs : proc'[p].lock \in {proc[p].lock, NoLock, lockfile}
    BY <1>1, Zenon DEF Kept, Renewed
  <2>3. Injective(lockfile)' /\ \A p \in Procs : Injective(proc[p].lock)
    BY <1>1, Zenon DEF AInv, InjectiveInv, Injective
  <2>4. ASSUME NEW p \in Procs
        PROVE  Injective(proc[p].lock)'
    <3>1. Injective(proc[p].lock) /\ Injective(lockfile)
      BY Zenon DEF AInv, InjectiveInv
    <3>2. Injective(proc'[p].lock)
      BY <2>1, <2>2, <3>1, Zenon
    <3> QED
      BY <3>2, Zenon DEF Injective
  <2> QED
    BY <2>3, <2>4, Zenon DEF InjectiveInv
<1>10. SameInv'
  <2> SUFFICES ASSUME NEW p \in Procs, Running(p)', ~proc'[p].other, NEW f \in Files \ proc'[p].added
               PROVE  proc'[p].lock[f] = lockfile[f]
    BY <1>1, Zenon DEF SameInv
  <2>1. CASE Kept(p)
    BY <2>1, Zenon DEF Kept, AInv, SameInv
  <2>2. CASE Renewed(p)
    BY <2>2, Zenon DEF Renewed
  <2> QED
    BY <1>1, <2>1, <2>2, Zenon
<1>11. UploadInv'
  <2>1. ASSUME NEW p \in Procs, proc'[p].pc = "poll"
        PROVE  /\ server'[proc'[p].id] = proc'[p].text
               /\ ~Creates(p)' => proc'[p].id = proc'[p].lock[proc'[p].file].id
    <3>1. Kept(p) /\ Creates(p)' = Creates(p)
      BY <1>3, <2>1, Zenon
    <3>2. /\ proc[p].pc = "poll" /\ proc'[p].id = proc[p].id /\ proc'[p].text = proc[p].text
          /\ proc'[p].file = proc[p].file /\ proc'[p].lock = proc[p].lock
      BY <2>1, <3>1, Zenon DEF Kept
    <3>3. server[proc[p].id] = proc[p].text /\ (~Creates(p) => proc[p].id = proc[p].lock[proc[p].file].id)
      BY <3>2, Zenon DEF AInv, UploadInv
    <3> QED
      BY <1>1, <3>1, <3>2, <3>3, Zenon
  <2> QED
    BY <2>1, Zenon DEF UploadInv
<1>12. TruthInv'
  BY <1>1, <1>7, ZenonT(60) DEF AInv, TruthInv, LockTruthful
<1>13. AssetsAccounted'
  <2>1. Ids(lockfile)' = Ids(lockfile) /\ Len(server)' = Len(server)
    BY <1>1, Zenon DEF Ids
  <2>2. ASSUME NEW i \in 1 .. Len(server)
        PROVE  i \in Ids(lockfile) \cup abandoned' \cup UNION {Loose(p)' : p \in Procs}
    <3>1. i \in Ids(lockfile) \cup abandoned \/ \E p \in Procs : i \in Loose(p)
      BY Zenon DEF AInv, AssetsAccounted
    <3> QED
      BY <3>1, Zenon DEF Quiet
  <2> QED
    BY <2>1, <2>2, Zenon DEF AssetsAccounted
<1> QED
  BY <1>6, <1>8, <1>9, <1>10, <1>11, <1>12, <1>13, Zenon DEF AInv, Quiet
-------------------------------------------------------------------------------
(***************************************************************************)
(* Uploads.                                                                *)
(***************************************************************************)
LEMMA LockIds ==
    ASSUME Types
    PROVE  /\ Len(server) \in Nat
           /\ \A f \in Files : lockfile[f].id \in 0 .. Len(server) /\ lockfile[f] \in Entries
           /\ \A p \in Procs, f \in Files : proc[p].lock[f].id \in 0 .. Len(server) /\ proc[p].lock[f] \in Entries
           /\ \A p \in Procs : proc[p].id \in 0 .. Len(server)
<1>1. Len(server) \in Nat
  BY DEF Types
<1>2. /\ \A f \in Files : lockfile[f] \in Entries
      /\ \A p \in Procs, f \in Files : proc[p].lock[f] \in Entries
      /\ \A p \in Procs : proc[p].id \in 0 .. Len(server)
  <2>1. \A p \in Procs : proc[p] \in Records
    BY Zenon DEF Types, ProcOK
  <2>2. \A p \in Procs : proc[p].lock \in [Files -> Entries] /\ proc[p].id \in 0 .. Len(server)
    BY <2>1, Zenon DEF Records
  <2>3. lockfile \in [Files -> Entries]
    BY Zenon DEF Types
  <2> QED
    BY <2>2, <2>3, Zenon
<1> QED
  BY <1>1, <1>2, EntryIds, Zenon

LEMMA Targets ==
    ASSUME Types, NEW p \in Procs, proc[p].pc = "send"
    PROVE  /\ proc[p].file \in Files /\ proc[p].text \in Texts
           /\ Creates(p) => Target(p) = Len(server) + 1
           /\ ~Creates(p) => /\ p = "sync" /\ Target(p) = proc[p].lock[proc[p].file].id
                             /\ Target(p) \in 1 .. Len(server)
<1>1. proc[p].file \in Files /\ proc[p].text \in Texts
  BY ZenonT(60) DEF Types, ProcOK, Records
<1>2. ~Creates(p) => p = "sync" /\ proc[p].lock[proc[p].file] # NoEntry
  BY Zenon DEF Creates, Procs
<1>3. ~Creates(p) => proc[p].lock[proc[p].file].id \in 1 .. Len(server)
  BY <1>1, <1>2, LockIds, EntryIds, Zenon
<1> QED
  BY <1>1, <1>2, <1>3, Zenon DEF Target

LEMMA Executed ==
    ASSUME Types, NEW p \in Procs, proc[p].pc = "send", Execute(p)
    PROVE  /\ server' \in Seq(Texts) /\ Len(server') \in Nat
           /\ Len(server') = IF Creates(p) THEN Len(server) + 1 ELSE Len(server)
           /\ server'[Target(p)] = proc[p].text
           /\ \A i \in 1 .. Len(server) : i # Target(p) => server'[i] = server[i]
           /\ tainted \subseteq tainted' /\ tainted' \subseteq 1 .. Len(server')
           /\ ~Creates(p) => Target(p) \in tainted'
<1> DEFINE n == IF Creates(p) THEN Len(server) + 1 ELSE Len(server)
<1>1. Len(server) \in Nat /\ server \in [1 .. Len(server) -> Texts]
  BY DEF Types
<1>2. n \in Nat /\ 1 .. Len(server) \cup {Target(p)} = 1 .. n
  BY <1>1, Targets
<1>3. server' \in [1 .. n -> Texts]
  BY <1>1, <1>2, Targets DEF Execute
<1>4. server' \in Seq(Texts)
  BY <1>2, <1>3
<1>5. Len(server') = n
  BY <1>2, <1>3, <1>4
<1>6. server'[Target(p)] = proc[p].text /\ \A i \in 1 .. Len(server) : i # Target(p) => server'[i] = server[i]
  BY <1>1 DEF Execute
<1>7. tainted \subseteq tainted' /\ (~Creates(p) => Target(p) \in tainted')
  BY Zenon DEF Execute
<1>8. tainted' \subseteq 1 .. Len(server) \cup {Target(p)}
  BY Zenon DEF Execute, Types
<1> QED
  BY <1>2, <1>4, <1>5, <1>6, <1>7, <1>8

\* The locks stay.
LEMMA LocksKept ==
    ASSUME AddedInv, InjectiveInv, SameInv, lockfile' = lockfile,
           \A q \in Procs : proc'[q].lock = proc[q].lock /\ proc'[q].added = proc[q].added,
           \A q \in Procs : proc'[q].other = proc[q].other /\ (Running(q)' => Running(q))
    PROVE  AddedInv' /\ InjectiveInv' /\ SameInv'
<1>1. "sync" \in Procs /\ "build" \in Procs
  BY Zenon DEF Procs
<1>2. AddedInv'
  <2>1. proc'["build"].lock = proc["build"].lock /\ proc'["build"].added = proc["build"].added
    BY <1>1, Zenon
  <2>2. proc'["sync"].lock = proc["sync"].lock
    BY <1>1, Zenon
  <2> QED
    BY <2>1, <2>2, ZenonT(60) DEF AddedInv
<1>3. InjectiveInv'
  <2>1. ASSUME NEW q \in Procs
        PROVE  Injective(proc[q].lock)'
    <3>1. Injective(proc[q].lock) /\ proc'[q].lock = proc[q].lock
      BY Zenon DEF InjectiveInv
    <3>2. Injective(proc'[q].lock)
      BY <3>1, Zenon
    <3> QED
      BY <3>2, Zenon DEF Injective
  <2>2. Injective(lockfile)'
    BY Zenon DEF InjectiveInv, Injective
  <2> QED
    BY <2>1, <2>2, Zenon DEF InjectiveInv
<1>4. SameInv'
  <2> SUFFICES ASSUME NEW q \in Procs, Running(q)', ~proc'[q].other, NEW f \in Files \ proc'[q].added
               PROVE  proc'[q].lock[f] = lockfile[f]
    BY Zenon DEF SameInv
  <2>1. /\ Running(q) /\ ~proc[q].other /\ f \in Files \ proc[q].added
        /\ proc'[q].lock = proc[q].lock
    BY Zenon
  <2> QED
    BY <2>1, Zenon DEF SameInv
<1> QED
  BY <1>2, <1>3, <1>4

\* The server carries out a request, and p has its answer or not.
Sent(p) ==
    /\ proc[p].pc = "send" /\ Execute(p) /\ Types' /\ lockfile' = lockfile
    /\ \A q \in Procs : q # p => proc'[q] = proc[q]
    /\ proc'[p].lock = proc[p].lock /\ proc'[p].added = proc[p].added /\ proc'[p].other = proc[p].other
    /\ abandoned \subseteq abandoned'
    /\ \/ /\ proc'[p].pc = "poll" /\ proc'[p].id = Target(p)
          /\ proc'[p].file = proc[p].file /\ proc'[p].text = proc[p].text
       \/ proc'[p].pc # "poll" /\ (Creates(p) => Target(p) \in abandoned')

LEMMA ExecuteInv ==
    ASSUME AInv, NEW p \in Procs, Sent(p)
    PROVE  AInv'
<1>1. /\ Types /\ FlightInv /\ AddedInv /\ InjectiveInv /\ SameInv /\ UploadInv /\ TruthInv /\ AssetsAccounted
      /\ "sync" \in Procs /\ "build" \in Procs
  BY Zenon DEF AInv, Procs
<1>s. proc[p].pc = "send" /\ Execute(p) /\ Types' /\ lockfile' = lockfile /\ abandoned \subseteq abandoned'
  BY Zenon DEF Sent
<1>q. \A q \in Procs : q # p => proc'[q] = proc[q]
  BY Zenon DEF Sent
<1>p. /\ proc'[p].pc = "poll" =>
           /\ proc'[p].id = Target(p) /\ proc'[p].file = proc[p].file /\ proc'[p].text = proc[p].text
           /\ Creates(p)' = Creates(p)
      /\ proc'[p].pc # "poll" /\ Creates(p) => Target(p) \in abandoned'
  BY Zenon DEF Sent, Creates
<1>t. /\ proc[p].file \in Files
      /\ Creates(p) => Target(p) = Len(server) + 1
      /\ ~Creates(p) => /\ p = "sync" /\ Target(p) = proc[p].lock[proc[p].file].id
                        /\ Target(p) \in 1 .. Len(server)
  BY <1>1, <1>s, Targets, Zenon
<1>2. /\ \A q \in Procs : proc'[q].lock = proc[q].lock /\ proc'[q].added = proc[q].added
      /\ \A q \in Procs : proc'[q].other = proc[q].other /\ (Running(q)' => Running(q))
  BY Zenon DEF Running, Sent
<1>3. \A q \in Procs : proc[q].pc = "poll" => proc[q].id \in 1 .. Len(server)
  <2>1. \A q \in Procs : proc[q].pc = "poll" => proc[q].id # 0
    BY <1>1, Zenon DEF Types, ProcOK
  <2> QED
    BY <1>1, <2>1, LockIds
<1>c. \A r \in Procs : r # p /\ proc'[r].pc = "poll" =>
        proc'[r] = proc[r] /\ proc[r].pc = "poll" /\ (Creates(r)' = Creates(r))
  BY <1>q, Zenon DEF Creates
<1>d. ASSUME NEW r \in Procs, r # p, proc[r].pc = "poll", Creates(r) \/ ~Creates(p)
      PROVE  proc[r].id # Target(p)
  <2>1. CASE Creates(p)
    BY <1>1, <1>3, <1>d, <1>t, <2>1, LockIds
  <2>2. CASE ~Creates(p)
    <3>1. Creates(r)
      BY <1>d, <1>t, <2>2, Zenon DEF Creates, Procs
    <3>2. \A f \in Files : proc[p].lock[f].id # proc[r].id
      BY <1>1, <1>d, <3>1, Zenon DEF FlightInv
    <3> QED
      BY <1>t, <2>2, <3>2, Zenon
  <2> QED
    BY <2>1, <2>2
<1>4. FlightInv'
  <2>1. ASSUME NEW r \in Procs, proc'[r].pc = "poll", Creates(r)'
        PROVE  /\ \A f \in Files : lockfile[f].id # proc'[r].id
               /\ \A q \in Procs, f \in Files : proc[q].lock[f].id # proc'[r].id
               /\ \A q \in Procs : q # r /\ proc'[q].pc = "poll" => proc'[q].id # proc'[r].id
    <3>1. CASE r = p
      <4>1. proc'[r].id = Len(server) + 1
        BY <1>p, <1>t, <2>1, <3>1, Zenon
      <4>2. \A q \in Procs : q # r /\ proc'[q].pc = "poll" => proc'[q].id \in 1 .. Len(server)
        BY <1>3, <1>c, <3>1, Zenon
      <4> QED
        BY <1>1, <4>1, <4>2, LockIds
    <3>2. CASE r # p
      <4>1. proc'[r] = proc[r] /\ proc[r].pc = "poll" /\ Creates(r)
        BY <1>c, <2>1, <3>2, Zenon
      <4>2. /\ \A f \in Files : lockfile[f].id # proc[r].id
            /\ \A q \in Procs, f \in Files : proc[q].lock[f].id # proc[r].id
            /\ \A q \in Procs : q # r /\ proc[q].pc = "poll" => proc[q].id # proc[r].id
        BY <1>1, <4>1, Zenon DEF FlightInv
      <4>3. \A q \in Procs : q # r /\ proc'[q].pc = "poll" => proc'[q].id # proc[r].id
        BY <1>c, <1>d, <1>p, <3>2, <4>1, <4>2, Zenon
      <4> QED
        BY <4>1, <4>2, <4>3, Zenon
    <3> QED
      BY <3>1, <3>2, Zenon
  <2>2. /\ \A f \in Files : lockfile'[f] = lockfile[f]
        /\ \A q \in Procs, f \in Files : proc'[q].lock[f] = proc[q].lock[f]
    BY <1>2, <1>s, Zenon
  <2>3. ASSUME NEW r \in Procs, proc'[r].pc = "poll", Creates(r)'
        PROVE  /\ \A f \in Files : lockfile'[f].id # proc'[r].id
               /\ \A q \in Procs, f \in Files : proc'[q].lock[f].id # proc'[r].id
    <3>1. /\ \A f \in Files : lockfile[f].id # proc'[r].id
          /\ \A q \in Procs, f \in Files : proc[q].lock[f].id # proc'[r].id
      BY <2>1, <2>3, Zenon
    <3> QED
      BY <2>2, <3>1
  <2> QED
    BY <2>1, <2>3, ZenonT(60) DEF FlightInv
<1>5. AddedInv' /\ InjectiveInv' /\ SameInv'
  BY <1>1, <1>2, <1>s, LocksKept, Zenon
<1>7. UploadInv'
  <2>1. ASSUME NEW r \in Procs, proc'[r].pc = "poll"
        PROVE  /\ server'[proc'[r].id] = proc'[r].text
               /\ ~Creates(r)' => proc'[r].id = proc[r].lock[proc'[r].file].id
    <3>1. CASE r = p
      <4>1. server'[Target(p)] = proc[p].text
        BY <1>1, <1>s, Executed, Zenon
      <4> QED
        BY <1>p, <1>t, <2>1, <3>1, <4>1, Zenon
    <3>2. CASE r # p
      <4>1. proc'[r] = proc[r] /\ proc[r].pc = "poll" /\ (Creates(r)' = Creates(r))
        BY <1>c, <2>1, <3>2, Zenon
      <4>2. Creates(r) \/ ~Creates(p) => server'[proc[r].id] = server[proc[r].id]
        BY <1>1, <1>3, <1>d, <1>s, <3>2, <4>1, Executed, Zenon
      <4>3. Creates(p) => server'[proc[r].id] = server[proc[r].id]
        <5>1. Creates(p) => proc[r].id # Target(p)
          BY <1>1, <1>3, <1>t, <4>1, LockIds
        <5> QED
          BY <1>1, <1>3, <1>s, <4>1, <5>1, Executed, Zenon
      <4> QED
        BY <1>1, <4>1, <4>2, <4>3, Zenon DEF UploadInv
    <3> QED
      BY <3>1, <3>2, Zenon
  <2> QED
    BY <1>2, <2>1, ZenonT(60) DEF UploadInv
<1>8. ASSUME NEW i \in 0 .. Len(server), i # 0, i \notin tainted'
      PROVE  server'[i] = server[i] /\ i \notin tainted
  <2>1. Len(server) \in Nat /\ (~Creates(p) => Target(p) \in tainted') /\ tainted \subseteq tainted'
    BY <1>1, <1>s, Executed, LockIds, Zenon
  <2>2. i \in 1 .. Len(server) /\ i # Target(p)
    BY <1>8, <1>t, <2>1
  <2> QED
    BY <1>1, <1>8, <1>s, <2>1, <2>2, Executed, Zenon
<1>9. TruthInv'
  <2>1. ASSUME NEW f \in Files, lockfile[f] # NoEntry, lockfile[f].id \notin tainted'
        PROVE  server'[lockfile[f].id] = lockfile[f].hash
    <3>1. lockfile[f].id \in 0 .. Len(server) /\ lockfile[f].id # 0
      BY <1>1, <2>1, LockIds, EntryIds, Zenon
    <3> QED
      BY <1>1, <1>8, <2>1, <3>1, Zenon DEF TruthInv, LockTruthful
  <2>2. ASSUME NEW f \in proc["build"].added, proc["build"].lock[f].id \notin tainted'
        PROVE  server'[proc["build"].lock[f].id] = proc["build"].lock[f].hash
    <3>1. f \in Files /\ proc["build"].lock[f].id # 0
      BY <1>1, ZenonT(60) DEF Types, ProcOK, Records
    <3> QED
      BY <1>1, <1>8, <2>2, <3>1, LockIds, Zenon DEF TruthInv
  <2>3. proc'["build"].lock = proc["build"].lock /\ proc'["build"].added = proc["build"].added
    BY <1>1, <1>2, Zenon
  <2> QED
    BY <1>s, <2>1, <2>2, <2>3, ZenonT(60) DEF TruthInv, LockTruthful
<1>10. AssetsAccounted'
  <2>1. ASSUME NEW q \in Procs
        PROVE  Loose(q) \subseteq Loose(q)'
    <3>1. CASE q = p
      <4>1. InFlight(p) = {}
        BY <1>s, Zenon DEF InFlight
      <4>2. proc'[p].lock = proc[p].lock /\ proc'[p].added = proc[p].added
        BY <1>2, Zenon
      <4> QED
        BY <3>1, <4>1, <4>2, ZenonT(60) DEF Loose
    <3>2. CASE q # p
      BY <1>q, <3>2, SameKept, Zenon
    <3> QED
      BY <3>1, <3>2
  <2>2. ASSUME NEW i \in 1 .. Len(server')
        PROVE  i \in Ids(lockfile) \cup abandoned' \cup UNION {Loose(q)' : q \in Procs}
    <3>1. CASE i \in 1 .. Len(server)
      <4>1. i \in Ids(lockfile) \cup abandoned \/ \E q \in Procs : i \in Loose(q)
        BY <1>1, <3>1, Zenon DEF AssetsAccounted
      <4> QED
        BY <1>s, <2>1, <4>1, Zenon
    <3>2. CASE i \notin 1 .. Len(server)
      <4>1. Creates(p) /\ i = Target(p)
        BY <1>1, <1>s, <1>t, <2>2, <3>2, Executed, LockIds
      <4>2. proc'[p].pc = "poll" => i \in Loose(p)'
        BY <1>p, <4>1, ZenonT(60) DEF Loose, InFlight
      <4> QED
        BY <1>p, <4>1, <4>2, Zenon
    <3> QED
      BY <3>1, <3>2
  <2>3. Ids(lockfile)' = Ids(lockfile)
    BY <1>s, Zenon DEF Ids
  <2> QED
    BY <2>2, <2>3, Zenon DEF AssetsAccounted
<1> QED
  BY <1>4, <1>5, <1>7, <1>9, <1>10, <1>s, Zenon DEF AInv

LEMMA SentTypes ==
    ASSUME Types, NEW p \in Procs, proc[p].pc = "send", Execute(p),
           UNCHANGED <<setup, disk, lockfile, broken, builds>>,
           faults' \in 0 .. setup.faults, abandoned' \subseteq 1 .. Len(server'),
           DOMAIN proc' = Procs, ProcOK(p, proc[p])', \A q \in Procs : q # p => proc'[q] = proc[q]
    PROVE  Types'
<1>1. /\ server' \in Seq(Texts) /\ Len(server) <= Len(server')
      /\ tainted' \subseteq 1 .. Len(server')
  BY Executed, LockIds
<1>2. lockfile \in [Files -> Entries'] /\ \A s : \A q \in Procs : ProcOK(q, s) => ProcOK(q, s)'
  BY <1>1, TypesGrow, Zenon
<1>3. ASSUME NEW q \in Procs, q # p
      PROVE  ProcOK(q, proc[q])'
  <2>1. ProcOK(q, proc[q]) /\ proc'[q] = proc[q]
    BY <1>3, Zenon DEF Types
  <2>2. \A s : s = proc[q] => ProcOK(q, s)'
    BY <1>2, <2>1, Zenon
  <2> QED
    BY <2>1, <2>2, Zenon
<1>4. (\A q \in Procs : ProcOK(q, proc[q]))'
  BY <1>3, Zenon
<1> QED
  BY <1>1, <1>2, <1>4, ZenonT(60) DEF Types

LEMMA AnsweredInv == ASSUME AInv, NEW p \in Procs, Answered(p) PROVE AInv'
<1> DEFINE r == [proc[p] EXCEPT !.pc = "poll", !.id = Target(p)]
<1>1. Types /\ ProcOK(p, proc[p])
  BY Zenon DEF AInv, Types
<1>2. proc[p].pc = "send" /\ Execute(p) /\ proc' = [proc EXCEPT ![p] = r]
  BY Zenon DEF Answered
<1>3. /\ server' \in Seq(Texts) /\ Len(server) <= Len(server')
      /\ tainted' \subseteq 1 .. Len(server')
      /\ Target(p) \in 0 .. Len(server') /\ Target(p) # 0
  BY <1>1, <1>2, Executed, Targets, LockIds
<1>4. /\ lockfile \in [Files -> Entries'] /\ abandoned \subseteq 1 .. Len(server')
      /\ \A s : \A q \in Procs : ProcOK(q, s) => ProcOK(q, s)'
  BY <1>1, <1>3, TypesGrow, Zenon
<1>5. proc[p] \in Records' /\ ProcOK(p, proc[p])
  BY <1>1, <1>4, Zenon DEF ProcOK
<1>6. r \in Records'
  BY <1>3, <1>5, ZenonT(60) DEF Records
<1>7. /\ r.pc = "poll" /\ r.id = Target(p) /\ r.lock = proc[p].lock /\ r.added = proc[p].added
      /\ r.other = proc[p].other /\ r.todo = proc[p].todo /\ r.seen = proc[p].seen
      /\ r.file = proc[p].file /\ r.hash = proc[p].hash /\ r.text = proc[p].text
  BY <1>5, ZenonT(60) DEF ProcOK, Records
<1>8. /\ DOMAIN proc' = Procs /\ proc'[p] = r
      /\ \A q \in Procs : q # p => proc'[q] = proc[q]
  BY <1>1, <1>2, ProcStep, Zenon
<1> HIDE DEF r
<1>9. Types'
  <2>1. ProcOK(p, proc[p])'
    BY <1>2, <1>3, <1>5, <1>6, <1>7, <1>8, ZenonT(60) DEF ProcOK
  <2> QED
    BY <1>1, <1>2, <1>4, <1>8, <2>1, SentTypes, ZenonT(60) DEF Types, Answered
<1>10. Sent(p)
  BY <1>2, <1>7, <1>8, <1>9, ZenonT(60) DEF Sent, Answered
<1> QED
  BY <1>10, ExecuteInv, Zenon

\* An attempt without an answer is repeated, or was the last.
LEMMA Unanswered ==
    ASSUME Types, NEW p \in Procs, NotAnswered(p)
    PROVE  \E r :
             /\ proc' = [proc EXCEPT ![p] = r] /\ ProcOK(p, r) /\ r.pc \in {"send", "next"}
             /\ r.lock = proc[p].lock /\ r.added = proc[p].added /\ r.other = proc[p].other
<1>1. Len(server) \in Nat /\ ProcOK(p, proc[p]) /\ proc[p].pc = "send"
  BY DEF Types, NotAnswered
<1>2. CASE Attempts(proc[p].tries + 1) /\ proc' = [proc EXCEPT ![p].tries = @ + 1]
  <2> DEFINE n == proc[p].tries + 1
             r == [proc[p] EXCEPT !.tries = n]
  <2>1. proc' = [proc EXCEPT ![p] = r]
    BY <1>2, Zenon
  <2>2. n \in 0 .. MaxAttempts - 1
    BY <1>1, <1>2, AttemptsAssumption DEF Attempts, ProcOK, Records
  <2> HIDE DEF n
  <2>3. r \in Records
    BY <1>1, <2>2, ZenonT(60) DEF ProcOK, Records
  <2>4. /\ r.pc = "send" /\ r.lock = proc[p].lock /\ r.added = proc[p].added
        /\ r.other = proc[p].other /\ r.todo = proc[p].todo /\ r.seen = proc[p].seen
        /\ r.file = proc[p].file /\ r.hash = proc[p].hash /\ r.text = proc[p].text
    BY <1>1, ZenonT(60) DEF ProcOK, Records
  <2> HIDE DEF r
  <2>5. ProcOK(p, r)
    BY <1>1, <2>3, <2>4, ZenonT(60) DEF ProcOK
  <2> QED
    BY <2>1, <2>4, <2>5, Zenon
<1>3. CASE UploadFails(p)
  BY <1>1, <1>3, NextFileType, ZenonT(60) DEF UploadFails
<1> QED
  BY <1>2, <1>3, Zenon DEF NotAnswered

LEMMA NotAnsweredInv == ASSUME AInv, NEW p \in Procs, NotAnswered(p) PROVE AInv'
<1>1. Types
  BY Zenon DEF AInv
<1>2. PICK r :
        /\ proc' = [proc EXCEPT ![p] = r] /\ ProcOK(p, r) /\ r.pc \in {"send", "next"}
        /\ r.lock = proc[p].lock /\ r.added = proc[p].added /\ r.other = proc[p].other
  BY <1>1, Unanswered, Zenon
<1>3. /\ DOMAIN proc' = Procs /\ proc'[p] = r
      /\ \A q \in Procs : q # p => proc'[q] = proc[q]
  BY <1>1, <1>2, ProcStep, Zenon
<1>4. proc[p].pc = "send" /\ faults' \in 0 .. setup.faults
  BY <1>1, FaultType, Zenon DEF NotAnswered
<1>5. CASE UNCHANGED <<server, tainted, abandoned>>
  <2>1. Kept(p)
    BY <1>2, <1>3, <1>4, ZenonT(60) DEF Kept, Running
  <2>2. Loose(p)' = Loose(p)
    BY <1>4, <2>1, LooseKept, Zenon
  <2>3. Quiet
    BY <1>1, <1>2, <1>4, <1>5, <2>1, <2>2, QuietStep, ZenonT(60) DEF NotAnswered, Types
  <2> QED
    BY <2>3, QuietInv, Zenon
<1>6. CASE Execute(p) /\ abandoned' = IF Creates(p) THEN abandoned \cup {Target(p)} ELSE abandoned
  <2>1. server' \in Seq(Texts) /\ Len(server) <= Len(server') /\ (Creates(p) => Target(p) \in 1 .. Len(server'))
    BY <1>1, <1>4, <1>6, Executed, Targets, LockIds
  <2>2. abandoned \subseteq 1 .. Len(server') /\ \A s : \A q \in Procs : ProcOK(q, s) => ProcOK(q, s)'
    BY <1>1, <2>1, TypesGrow, Zenon
  <2>3. abandoned \subseteq abandoned' /\ abandoned' \subseteq 1 .. Len(server')
    BY <1>6, <2>1, <2>2, Zenon
  <2>4. ProcOK(p, proc[p])'
    BY <1>2, <1>3, <2>2, Zenon
  <2>5. Types'
    BY <1>1, <1>3, <1>4, <1>6, <2>3, <2>4, SentTypes, ZenonT(60) DEF NotAnswered
  <2>6. Sent(p)
    BY <1>2, <1>3, <1>4, <1>6, <2>3, <2>5, ZenonT(60) DEF Sent, NotAnswered
  <2> QED
    BY <2>6, ExecuteInv, Zenon
<1> QED
  BY <1>5, <1>6, Zenon DEF NotAnswered
-------------------------------------------------------------------------------
(***************************************************************************)
(* Recording and saving.                                                   *)
(***************************************************************************)
Entry(p) == [hash |-> proc[p].hash, id |-> proc[p].id]

NewLock(p) == [proc[p].lock EXCEPT ![proc[p].file] = Entry(p)]

Suspect(p) ==
    IF proc[p].hash = proc[p].text THEN tainted \ {proc[p].id} ELSE tainted \cup {proc[p].id}

\* The entry of an upload that is done.
LEMMA Recorded ==
    ASSUME AInv, NEW p \in Procs, proc[p].pc = "poll"
    PROVE  /\ proc[p].file \in Files \ proc[p].added
           /\ proc[p].id \in 1 .. Len(server)
           /\ NewLock(p) \in [Files -> Entries]
           /\ NewLock(p)[proc[p].file] = Entry(p)
           /\ \A f \in Files : f # proc[p].file => NewLock(p)[f] = proc[p].lock[f]
           /\ Entry(p).id = proc[p].id /\ Entry(p).hash = proc[p].hash
           /\ Injective(NewLock(p))
           /\ Suspect(p) \subseteq 1 .. Len(server)
           /\ tainted \ {proc[p].id} \subseteq Suspect(p)
           /\ proc[p].id \notin Suspect(p) => server[proc[p].id] = proc[p].hash
<1>1. Types /\ FlightInv /\ InjectiveInv /\ UploadInv /\ ProcOK(p, proc[p])
  BY Zenon DEF AInv, Types
<1>2. proc[p].file \in Files \ proc[p].added /\ proc[p].hash \in Texts /\ proc[p].lock \in [Files -> Entries]
  BY <1>1, ZenonT(60) DEF ProcOK, Records
<1>3. proc[p].id \in 1 .. Len(server)
  BY <1>1, LockIds DEF ProcOK
<1>4. Entry(p) \in Entries
  BY <1>2, <1>3, Zenon DEF Entry, Entries
<1>5. Entry(p).id = proc[p].id /\ Entry(p).hash = proc[p].hash
  BY DEF Entry
<1>6. /\ NewLock(p) \in [Files -> Entries]
      /\ NewLock(p)[proc[p].file] = Entry(p)
      /\ \A f \in Files : f # proc[p].file => NewLock(p)[f] = proc[p].lock[f]
  BY <1>2, <1>4, Zenon DEF NewLock
<1>7. \A f \in Files : f # proc[p].file => proc[p].lock[f].id # proc[p].id
  <2>1. CASE Creates(p)
    BY <1>1, <2>1, Zenon DEF FlightInv
  <2>2. CASE ~Creates(p)
    <3>1. proc[p].id = proc[p].lock[proc[p].file].id /\ proc[p].id # 0
      BY <1>1, <2>2, Zenon DEF UploadInv, ProcOK
    <3>2. Injective(proc[p].lock)
      BY <1>1, Zenon DEF InjectiveInv
    <3> QED
      BY <1>2, <3>1, <3>2, Zenon DEF Injective
  <2> QED
    BY <2>1, <2>2
<1>8. Injective(NewLock(p))
  <2>1. Injective(proc[p].lock)
    BY <1>1, Zenon DEF InjectiveInv
  <2>2. ASSUME NEW f \in Files, NEW g \in Files,
               NewLock(p)[f].id = NewLock(p)[g].id, NewLock(p)[f].id # 0
        PROVE  f = g
    <3>1. CASE f = proc[p].file \/ g = proc[p].file
      BY <1>5, <1>6, <1>7, <2>2, <3>1, ZenonT(60)
    <3>2. CASE f # proc[p].file /\ g # proc[p].file
      <4>1. NewLock(p)[f] = proc[p].lock[f] /\ NewLock(p)[g] = proc[p].lock[g]
        BY <1>6, <3>2, Zenon
      <4> QED
        BY <2>1, <2>2, <4>1, Zenon DEF Injective
    <3> QED
      BY <3>1, <3>2
  <2> QED
    BY <2>2, Zenon DEF Injective
<1>9. /\ Suspect(p) \subseteq 1 .. Len(server)
      /\ tainted \ {proc[p].id} \subseteq Suspect(p)
      /\ proc[p].id \notin Suspect(p) => proc[p].hash = proc[p].text
  BY <1>1, <1>3, Zenon DEF Suspect, Types
<1>10. server[proc[p].id] = proc[p].text
  BY <1>1, Zenon DEF UploadInv
<1> QED
  BY <1>2, <1>3, <1>5, <1>6, <1>8, <1>9, <1>10, ZenonT(60)

\* What holds of the lockfile when a process has replaced it.
LEMMA Saved ==
    ASSUME AInv, NEW p \in Procs, NEW lock \in [Files -> Entries], NEW uploaded \in SUBSET Files,
           NEW suspect, Save(p, lock, uploaded, suspect), server' = server,
           suspect \subseteq 1 .. Len(server),
           \A f \in uploaded : lock[f].id \notin suspect => server[lock[f].id] = lock[f].hash,
           \A f \in Files \ uploaded : lock[f] # NoEntry /\ lock[f].id \in tainted => lock[f].id \in suspect,
           ~proc[p].other => \A f \in Files \ uploaded : lock[f] = lockfile[f]
    PROVE  /\ LockTruthful'
           /\ Ids(lockfile) \cup abandoned \subseteq Ids(lockfile)' \cup abandoned'
           /\ lockfile' = lock /\ broken' \in BOOLEAN
           /\ suspect \subseteq tainted'
           /\ abandoned' \subseteq 1 .. Len(server) /\ tainted' \subseteq 1 .. Len(server)
<1>1. Types /\ LockTruthful
  BY Zenon DEF AInv, TruthInv
<1> DEFINE over == IF proc[p].other THEN Files ELSE uploaded
           back == {f \in over \ uploaded : lock[f] # lockfile[f]}
<1>2. /\ lockfile' = lock /\ broken' = FALSE
      /\ abandoned' = (abandoned \cup {lockfile[f].id : f \in over}) \ (Ids(lock) \cup {0})
      /\ tainted' = suspect \cup ({lock[f].id : f \in back} \ {0})
  BY Zenon DEF Save
<1>3. \A f \in Files : f \in over \/ lock[f] = lockfile[f]
  BY Zenon
<1>4. \A f \in Files : f \in back \/ f \in uploaded \/ lock[f] = lockfile[f]
  BY Zenon
<1>5. over \subseteq Files /\ back \subseteq Files
  BY Zenon
<1> HIDE DEF over, back
<1>6. /\ Len(server) \in Nat
      /\ \A f \in Files : /\ lock[f].id \in 0 .. Len(server) /\ (lock[f].id # 0 => lock[f].id \in 1 .. Len(server))
                          /\ lock[f].id = 0 <=> lock[f] = NoEntry
                          /\ lockfile[f].id # 0 => lockfile[f].id \in 1 .. Len(server)
  BY <1>1, LockIds, EntryIds, Zenon
<1>7. LockTruthful'
  <2> SUFFICES ASSUME NEW f \in Files, lock[f] # NoEntry, lock[f].id \notin tainted'
               PROVE  server[lock[f].id] = lock[f].hash
    BY <1>2, Zenon DEF LockTruthful
  <2>1. lock[f].id \notin suspect /\ f \notin back
    BY <1>2, <1>6, Zenon
  <2>2. CASE f \in uploaded
    BY <2>1, <2>2, Zenon
  <2>3. CASE f \notin uploaded
    <3>1. lock[f] = lockfile[f] /\ lock[f].id \notin tainted
      BY <1>4, <2>1, <2>3, Zenon
    <3> QED
      BY <1>1, <3>1, Zenon DEF LockTruthful
  <2> QED
    BY <2>2, <2>3
<1>8. Ids(lockfile) \cup abandoned \subseteq Ids(lock) \cup abandoned'
  <2>1. ASSUME NEW f \in Files, lockfile[f].id # 0
        PROVE  lockfile[f].id \in Ids(lock) \cup abandoned'
    <3>1. CASE f \in over
      BY <1>2, <2>1, <3>1, Zenon
    <3>2. CASE lock[f] = lockfile[f]
      BY <2>1, <3>2, Zenon DEF Ids
    <3> QED
      BY <1>3, <3>1, <3>2
  <2>2. Ids(lockfile) \subseteq Ids(lock) \cup abandoned'
    BY <2>1, ZenonT(60) DEF Ids
  <2>3. 0 \notin abandoned
    BY <1>1, <1>6 DEF Types
  <2>4. abandoned \subseteq Ids(lock) \cup abandoned'
    BY <1>2, <2>3, Zenon
  <2> QED
    BY <2>2, <2>4, Zenon
<1>9. abandoned' \subseteq 1 .. Len(server)
  <2>1. abandoned \subseteq 1 .. Len(server)
    BY <1>1, Zenon DEF Types
  <2>2. {lockfile[f].id : f \in over} \ {0} \subseteq 1 .. Len(server)
    BY <1>5, <1>6, Zenon
  <2> QED
    BY <1>2, <2>1, <2>2, Zenon
<1>10. tainted' \subseteq 1 .. Len(server)
  BY <1>2, <1>5, <1>6, ZenonT(60)
<1>11. Ids(lockfile)' = Ids(lock)
  BY <1>2, Zenon DEF Ids
<1> QED
  BY <1>2, <1>7, <1>8, <1>9, <1>10, <1>11, ZenonT(60)

\* A build goes on with the entry in its lock, a sync with the entry saved.
After(p) == [NextFile(proc[p]) EXCEPT !.lock = NewLock(p), !.added = proc[p].added \cup {proc[p].file}]

AfterSync == [After("sync") EXCEPT !.added = {}]

LEMMA AfterType ==
    ASSUME AInv, NEW p \in Procs, proc[p].pc = "poll"
    PROVE  /\ p = "build" => ProcOK(p, After(p))
           /\ After(p).lock = NewLock(p) /\ After(p).added = proc[p].added \cup {proc[p].file}
           /\ After(p).other = proc[p].other /\ After(p).pc = "next"
           /\ p = "sync" => /\ ProcOK(p, AfterSync)
                            /\ AfterSync.lock = NewLock(p) /\ AfterSync.added = {} /\ AfterSync.pc = "next"
<1>1. Types /\ ProcOK(p, proc[p]) /\ Len(server) \in Nat
  BY LockIds, Zenon DEF AInv, Types
<1>2. /\ ProcOK(p, NextFile(proc[p]))
      /\ NextFile(proc[p]).added = proc[p].added /\ NextFile(proc[p]).other = proc[p].other
      /\ NextFile(proc[p]).pc = "next" /\ NextFile(proc[p]).todo = proc[p].todo \ {proc[p].file}
      /\ NextFile(proc[p]).seen = proc[p].seen
  BY <1>1, NextFileType, Zenon
<1>3. /\ proc[p].file \in Files \ proc[p].added /\ NewLock(p) \in [Files -> Entries]
      /\ proc[p].added \cup {proc[p].file} \in SUBSET Files
  BY <1>1, Recorded, ZenonT(60) DEF ProcOK, Records
<1>n. /\ NewLock(p)[proc[p].file].id = proc[p].id
      /\ \A f \in Files : f # proc[p].file => NewLock(p)[f] = proc[p].lock[f]
  BY Recorded, Zenon
<1>4. After(p) \in Records
  BY <1>2, <1>3, ZenonT(60) DEF After, ProcOK, Records
<1>5. /\ After(p).lock = NewLock(p) /\ After(p).added = proc[p].added \cup {proc[p].file}
      /\ After(p).other = proc[p].other /\ After(p).pc = "next"
      /\ After(p).todo = proc[p].todo \ {proc[p].file} /\ After(p).seen = proc[p].seen
  BY <1>2, ZenonT(60) DEF After, ProcOK, Records
<1>6. ASSUME p = "build"
      PROVE  ProcOK(p, After(p))
  <2>1. After(p).todo \cap After(p).added = {}
    BY <1>1, <1>5, Zenon DEF ProcOK
  <2>2. ASSUME NEW f \in After(p).added
        PROVE  After(p).lock[f].id # 0
    <3>1. CASE f = proc[p].file
      <4>1. After(p).lock[f].id = proc[p].id
        BY <1>5, <1>n, <3>1, Zenon
      <4> QED
        BY <1>1, <4>1, Zenon DEF ProcOK
    <3>2. CASE f # proc[p].file
      <4>1. f \in proc[p].added /\ f \in Files
        BY <1>3, <1>5, <2>2, <3>2, Zenon
      <4>2. After(p).lock[f] = proc[p].lock[f]
        BY <1>5, <1>n, <3>2, <4>1, Zenon
      <4> QED
        BY <1>1, <4>1, <4>2, Zenon DEF ProcOK
    <3> QED
      BY <3>1, <3>2
  <2> QED
    BY <1>4, <1>5, <1>6, <2>1, <2>2, ZenonT(60) DEF ProcOK
<1>7. ASSUME p = "sync"
      PROVE  /\ ProcOK(p, AfterSync)
             /\ AfterSync.lock = NewLock(p) /\ AfterSync.added = {} /\ AfterSync.pc = "next"
  <2>1. AfterSync \in Records
    BY <1>4, <1>7, ZenonT(60) DEF AfterSync, Records
  <2>2. /\ AfterSync.lock = NewLock(p) /\ AfterSync.added = {} /\ AfterSync.pc = "next"
        /\ AfterSync.seen = proc[p].seen
    BY <1>4, <1>5, <1>7, ZenonT(60) DEF AfterSync, Records
  <2> QED
    BY <1>1, <1>7, <2>1, <2>2, ZenonT(60) DEF ProcOK
<1> QED
  BY <1>5, <1>6, <1>7, ZenonT(60)

\* A build records an upload in its lock.
LEMMA RecordBuildInv == ASSUME AInv, Record("build") PROVE AInv'
<1> DEFINE b == proc["build"]
<1>1. /\ Types /\ FlightInv /\ AddedInv /\ InjectiveInv /\ SameInv /\ UploadInv /\ TruthInv /\ AssetsAccounted
      /\ "sync" \in Procs /\ "build" \in Procs /\ b.pc = "poll" /\ Creates("build")
  BY Zenon DEF AInv, Procs, Record, Creates
<1>2. /\ proc' = [proc EXCEPT !["build"] = After("build")]
      /\ tainted' = Suspect("build")
      /\ UNCHANGED <<lockfile, broken, abandoned, setup, disk, server, faults, builds>>
  BY ZenonT(60) DEF Record, SavesNow, RecordedHash, After, NewLock, Entry, Suspect
<1>3. /\ b.file \in Files \ b.added /\ b.id \in 1 .. Len(server)
      /\ Suspect("build") \subseteq 1 .. Len(server)
      /\ tainted \ {b.id} \subseteq Suspect("build")
      /\ b.id \notin Suspect("build") => server[b.id] = b.hash
      /\ Injective(NewLock("build"))
  BY <1>1, Recorded, Zenon
<1>4. /\ \A f \in Files : f # b.file => NewLock("build")[f] = b.lock[f]
      /\ NewLock("build")[b.file].id = b.id /\ NewLock("build")[b.file].hash = b.hash
  BY <1>1, Recorded, Zenon
<1>5. /\ DOMAIN proc' = Procs /\ proc'["sync"] = proc["sync"]
      /\ proc'["build"].lock = NewLock("build") /\ proc'["build"].added = b.added \cup {b.file}
      /\ proc'["build"].other = b.other /\ proc'["build"].pc = "next"
      /\ ProcOK("build", proc'["build"])
  BY <1>1, <1>2, ProcStep, AfterType, Zenon
<1>6. /\ \A f \in Files : lockfile[f].id # b.id /\ proc["sync"].lock[f].id # b.id /\ b.lock[f].id # b.id
      /\ proc["sync"].pc = "poll" => proc["sync"].id # b.id
  BY <1>1, Zenon DEF FlightInv
<1>7. Types'
  <2>1. ASSUME NEW q \in Procs
        PROVE  ProcOK(q, proc[q])'
    <3>1. \A s : ProcOK(q, s) => ProcOK(q, s)'
      BY <1>2, ZenonT(60) DEF ProcOK, Records, Entries
    <3>2. ProcOK(q, proc'[q])
      BY <1>1, <1>5, Zenon DEF Types, Procs
    <3> QED
      BY <3>1, <3>2, Zenon
  <2>2. (\A q \in Procs : ProcOK(q, proc[q]))'
    BY <2>1, Zenon
  <2> QED
    BY <1>1, <1>2, <1>3, <1>5, <2>2, ZenonT(60) DEF Types, Entries
<1>8. FlightInv'
  <2>1. ASSUME NEW p \in Procs, proc'[p].pc = "poll", Creates(p)'
        PROVE  /\ \A f \in Files : lockfile'[f].id # proc'[p].id
               /\ \A q \in Procs, f \in Files : proc'[q].lock[f].id # proc'[p].id
               /\ \A q \in Procs : q # p /\ proc'[q].pc = "poll" => proc'[q].id # proc'[p].id
    <3>1. p = "sync" /\ proc'[p] = proc[p] /\ proc[p].pc = "poll" /\ Creates(p)
      BY <1>5, <2>1, Zenon DEF Procs, Creates
    <3>2. /\ \A f \in Files : lockfile[f].id # proc[p].id
          /\ \A f \in Files : proc["sync"].lock[f].id # proc[p].id
          /\ \A f \in Files : b.lock[f].id # proc[p].id
      BY <1>1, <3>1, Zenon DEF FlightInv
    <3>3. \A f \in Files : NewLock("build")[f].id # proc[p].id
      BY <1>4, <1>6, <3>1, <3>2, Zenon
    <3>4. \A q \in Procs : q # p => proc'[q].pc = "next" /\ proc'[q].lock = NewLock("build")
      BY <1>5, <3>1, Zenon DEF Procs
    <3>5. \A q \in Procs : proc'[q].lock = proc["sync"].lock \/ proc'[q].lock = NewLock("build")
      BY <3>1, <3>4, Zenon
    <3>6. \A q \in Procs, f \in Files : proc'[q].lock[f].id # proc[p].id
      BY <3>2, <3>3, <3>5, Zenon
    <3> QED
      BY <1>2, <3>1, <3>2, <3>4, <3>6, ZenonT(60)
  <2> QED
    BY <2>1, Zenon DEF FlightInv
<1>9. \A f \in b.added : f \in Files /\ f # b.file /\ NewLock("build")[f] = b.lock[f]
  <2>1. b.added \subseteq Files
    BY <1>1, ZenonT(60) DEF Types, ProcOK, Records
  <2> QED
    BY <1>3, <1>4, <2>1, Zenon
<1>10. AddedInv'
  <2>1. ASSUME NEW f \in b.added \cup {b.file}, NEW g \in Files
        PROVE  /\ lockfile[g].id # NewLock("build")[f].id
               /\ proc["sync"].lock[g].id # NewLock("build")[f].id
    <3>1. CASE f = b.file
      BY <1>4, <1>6, <3>1, Zenon
    <3>2. CASE f \in b.added
      BY <1>1, <1>9, <3>2, ZenonT(60) DEF AddedInv
    <3> QED
      BY <3>1, <3>2
  <2> QED
    BY <1>2, <1>5, <2>1, ZenonT(60) DEF AddedInv
<1>11. InjectiveInv'
  <2>1. Injective(lockfile) /\ Injective(proc["sync"].lock) /\ Injective(NewLock("build"))
    BY <1>1, <1>3, Zenon DEF InjectiveInv
  <2>2. Injective(lockfile') /\ \A q \in Procs : Injective(proc'[q].lock)
    BY <1>2, <1>5, <2>1, Zenon DEF Procs
  <2> QED
    BY <2>2, Zenon DEF InjectiveInv, Injective
<1>12. SameInv'
  <2>1. ASSUME NEW p \in Procs, Running(p)', ~proc'[p].other, NEW f \in Files \ proc'[p].added
        PROVE  proc'[p].lock[f] = lockfile[f]
    <3>1. CASE p = "sync"
      BY <1>1, <1>5, <2>1, <3>1, ZenonT(60) DEF SameInv, Running
    <3>2. CASE p = "build"
      <4>1. f \notin b.added /\ f # b.file /\ ~b.other /\ Running("build")
        BY <1>1, <1>5, <2>1, <3>2, Zenon DEF Running
      <4> QED
        BY <1>1, <1>4, <1>5, <3>2, <4>1, Zenon DEF SameInv
    <3> QED
      BY <3>1, <3>2, Zenon DEF Procs
  <2> QED
    BY <1>2, <2>1, ZenonT(60) DEF SameInv
<1>13. UploadInv'
  <2>1. ASSUME NEW p \in Procs, proc'[p].pc = "poll"
        PROVE  proc'[p] = proc[p] /\ (Creates(p)' = Creates(p))
    BY <1>5, <2>1, Zenon DEF Procs, Creates
  <2> QED
    BY <1>1, <1>2, <2>1, ZenonT(60) DEF UploadInv
<1>14. TruthInv'
  <2>1. LockTruthful'
    BY <1>1, <1>2, <1>3, <1>6, ZenonT(60) DEF TruthInv, LockTruthful
  <2>2. ASSUME NEW f \in b.added \cup {b.file}, NewLock("build")[f].id \notin Suspect("build")
        PROVE  server[NewLock("build")[f].id] = NewLock("build")[f].hash
    <3>1. CASE f = b.file
      BY <1>3, <1>4, <2>2, <3>1, Zenon
    <3>2. CASE f \in b.added
      <4>1. b.lock[f].id \notin tainted
        BY <1>3, <1>6, <1>9, <2>2, <3>2, ZenonT(60)
      <4> QED
        BY <1>1, <1>9, <3>2, <4>1, Zenon DEF TruthInv
    <3> QED
      BY <3>1, <3>2
  <2> QED
    BY <1>2, <1>5, <2>1, <2>2, Zenon DEF TruthInv
<1>15. AssetsAccounted'
  <2>1. Loose("sync")' = Loose("sync")
    BY <1>1, <1>5, SameKept, Zenon
  <2>2. Loose("build") \subseteq Loose("build")'
    <3>1. Loose("build") = {b.id} \cup {b.lock[f].id : f \in b.added}
      BY <1>1, Zenon DEF Loose, InFlight
    <3>2. {NewLock("build")[f].id : f \in b.added \cup {b.file}} \subseteq Loose("build")'
      BY <1>5, Zenon DEF Loose
    <3>3. b.id \in {NewLock("build")[f].id : f \in b.added \cup {b.file}}
      BY <1>4, Zenon
    <3>4. {b.lock[f].id : f \in b.added} \subseteq {NewLock("build")[f].id : f \in b.added \cup {b.file}}
      BY <1>9, ZenonT(60)
    <3> QED
      BY <3>1, <3>2, <3>3, <3>4, Zenon
  <2>3. \A q \in Procs : Loose(q) \subseteq Loose(q)'
    BY <2>1, <2>2, Zenon DEF Procs
  <2>4. Ids(lockfile)' = Ids(lockfile) /\ Len(server)' = Len(server) /\ abandoned' = abandoned
    BY <1>2, Zenon DEF Ids
  <2>5. ASSUME NEW i \in 1 .. Len(server)
        PROVE  i \in Ids(lockfile) \cup abandoned \cup UNION {Loose(q)' : q \in Procs}
    <3>1. i \in Ids(lockfile) \cup abandoned \/ \E q \in Procs : i \in Loose(q)
      BY <1>1, Zenon DEF AssetsAccounted
    <3> QED
      BY <2>3, <3>1, Zenon
  <2> QED
    BY <2>4, <2>5, Zenon DEF AssetsAccounted
<1> QED
  BY <1>7, <1>8, <1>10, <1>11, <1>12, <1>13, <1>14, <1>15, Zenon DEF AInv

\* A save: p goes on, the other process q knows the lockfile no more.
LEMMA OvertakenFacts ==
    ASSUME Types, NEW p \in Procs, NEW q \in Procs, q # p, NEW r, proc' = Overtaken(p, r)
    PROVE  /\ DOMAIN proc' = Procs /\ proc'[p] = r
           /\ proc'[q].lock = proc[q].lock /\ proc'[q].added = proc[q].added
           /\ proc'[q].pc = proc[q].pc /\ proc'[q].id = proc[q].id
           /\ proc'[q].file = proc[q].file /\ proc'[q].text = proc[q].text
           /\ Running(q) => proc'[q].other
           /\ ProcOK(q, proc'[q])
           /\ Creates(q)' = Creates(q) /\ Loose(q)' = Loose(q)
<1> DEFINE o == proc[q].other \/ proc[q].pc \notin {"idle", "load"}
           s == [proc[q] EXCEPT !.other = o]
<1>1. DOMAIN proc' = Procs /\ proc'[p] = r /\ proc'[q] = s
  BY Zenon DEF Overtaken
<1>2. ProcOK(q, proc[q])
  BY Zenon DEF Types
<1>3. o \in BOOLEAN /\ (Running(q) => o)
  BY Zenon DEF Running
<1>4. proc[q].pc = "idle" => o = proc[q].other
  <2>1. proc[q].other \in BOOLEAN
    BY <1>2, ZenonT(60) DEF ProcOK, Records
  <2> QED
    BY <2>1, Zenon
<1> HIDE DEF o
<1>5. s \in Records
  BY <1>2, <1>3, ZenonT(60) DEF ProcOK, Records
<1>6. /\ s.lock = proc[q].lock /\ s.added = proc[q].added /\ s.pc = proc[q].pc /\ s.id = proc[q].id
      /\ s.file = proc[q].file /\ s.text = proc[q].text /\ s.hash = proc[q].hash
      /\ s.todo = proc[q].todo /\ s.seen = proc[q].seen /\ s.other = o
  BY <1>2, ZenonT(60) DEF ProcOK, Records
<1>7. proc[q].pc = "idle" => s = proc[q]
  <2>1. [proc[q] EXCEPT !.other = proc[q].other] = proc[q]
    BY <1>2 DEF ProcOK, Records
  <2> QED
    BY <1>4, <2>1, Zenon
<1> HIDE DEF s
<1>8. ProcOK(q, s)
  BY <1>2, <1>5, <1>6, <1>7, ZenonT(60) DEF ProcOK
<1>9. Creates(q)' = Creates(q)
  BY <1>1, <1>6, Zenon DEF Creates
<1>10. Loose(q)' = Loose(q)
  <2>1. InFlight(q)' = InFlight(q)
    BY <1>1, <1>6, <1>9, Zenon DEF InFlight
  <2>2. proc'[q].lock = proc[q].lock /\ proc'[q].added = proc[q].added
    BY <1>1, <1>6, Zenon
  <2> QED
    BY <2>1, <2>2, Zenon DEF Loose
<1> QED
  BY <1>1, <1>3, <1>6, <1>8, <1>9, <1>10, Zenon

\* The types after a save.
LEMMA SavedTypes ==
    ASSUME Types, UNCHANGED <<setup, disk, server, faults, builds>>,
           lockfile' \in [Files -> Entries], broken' \in BOOLEAN,
           abandoned' \subseteq 1 .. Len(server), tainted' \subseteq 1 .. Len(server),
           DOMAIN proc' = Procs, ProcOK("sync", proc'["sync"]), ProcOK("build", proc'["build"])
    PROVE  Types'
<1>1. \A s : \A q \in Procs : ProcOK(q, s) => ProcOK(q, s)'
  BY ZenonT(60) DEF ProcOK, Records, Entries
<1>2. (\A q \in Procs : ProcOK(q, proc[q]))'
  BY <1>1, Zenon DEF Procs
<1>3. lockfile' \in [Files -> Entries']
  BY Zenon DEF Entries
<1> QED
  BY <1>2, <1>3, ZenonT(60) DEF Types

\* What a saving step leaves of the accounts.
LEMMA SavedAccounts ==
    ASSUME AInv, Len(server)' = Len(server),
           Ids(lockfile) \cup abandoned \subseteq Ids(lockfile)' \cup abandoned',
           \A p \in Procs : Loose(p) \subseteq Loose(p)' \cup Ids(lockfile)'
    PROVE  AssetsAccounted'
<1>1. ASSUME NEW i \in 1 .. Len(server)
      PROVE  i \in Ids(lockfile)' \cup abandoned' \cup UNION {Loose(q)' : q \in Procs}
  <2>1. i \in Ids(lockfile) \cup abandoned \/ \E q \in Procs : i \in Loose(q)
    BY Zenon DEF AInv, AssetsAccounted
  <2> QED
    BY <2>1, Zenon
<1> QED
  BY <1>1, Zenon DEF AssetsAccounted

\* A sync records an upload and saves.
LEMMA RecordSyncInv == ASSUME AInv, Record("sync") PROVE AInv'
<1> DEFINE s == proc["sync"]
           b == proc["build"]
           lock == NewLock("sync")
<1>1. /\ Types /\ FlightInv /\ AddedInv /\ InjectiveInv /\ SameInv /\ UploadInv /\ TruthInv /\ AssetsAccounted
      /\ "sync" \in Procs /\ "build" \in Procs /\ s.pc = "poll"
  BY Zenon DEF AInv, Procs, Record
<1>2. s.added = {}
  BY <1>1, Zenon DEF Types, ProcOK
<1>3. /\ Save("sync", lock, {s.file}, Suspect("sync"))
      /\ proc' = Overtaken("sync", AfterSync)
      /\ UNCHANGED <<setup, disk, server, faults, builds>>
  <2>1. s.added \cup {s.file} = {s.file}
    BY <1>2, Zenon
  <2>2. /\ Save("sync", lock, s.added \cup {s.file}, Suspect("sync"))
        /\ proc' = Overtaken("sync", AfterSync)
        /\ UNCHANGED <<setup, disk, server, faults, builds>>
    BY ZenonT(60) DEF Record, SavesNow, RecordedHash, AfterSync, After, NewLock, Entry, Suspect
  <2> QED
    BY <2>1, <2>2, Zenon
<1>4. /\ s.file \in Files /\ s.id \in 1 .. Len(server) /\ lock \in [Files -> Entries]
      /\ Suspect("sync") \subseteq 1 .. Len(server)
      /\ tainted \ {s.id} \subseteq Suspect("sync")
      /\ s.id \notin Suspect("sync") => server[s.id] = s.hash
      /\ Injective(lock)
  BY <1>1, Recorded, Zenon
<1>5. /\ \A f \in Files : f # s.file => lock[f] = s.lock[f]
      /\ lock[s.file].id = s.id /\ lock[s.file].hash = s.hash
  BY <1>1, Recorded, Zenon
<1> HIDE DEF lock
<1>6. /\ LockTruthful'
      /\ Ids(lockfile) \cup abandoned \subseteq Ids(lockfile)' \cup abandoned'
      /\ lockfile' = lock /\ broken' \in BOOLEAN
      /\ Suspect("sync") \subseteq tainted'
      /\ abandoned' \subseteq 1 .. Len(server) /\ tainted' \subseteq 1 .. Len(server)
  <2>1. \A f \in {s.file} : lock[f].id \notin Suspect("sync") => server[lock[f].id] = lock[f].hash
    BY <1>4, <1>5, Zenon
  <2>2. \A f \in Files \ {s.file} : lock[f] # NoEntry /\ lock[f].id \in tainted => lock[f].id \in Suspect("sync")
    <3>1. ASSUME NEW f \in Files \ {s.file}, lock[f] # NoEntry
          PROVE  lock[f].id # s.id
      <4>1. lock[f].id # 0
        BY <1>1, <1>4, <3>1, EntryIds, LockIds, Zenon
      <4> QED
        BY <1>4, <1>5, <3>1, <4>1, Zenon DEF Injective
    <3> QED
      BY <1>4, <3>1, Zenon
  <2>3. ~s.other => \A f \in Files \ {s.file} : lock[f] = lockfile[f]
    BY <1>1, <1>2, <1>5, Zenon DEF SameInv, Running
  <2>4. {s.file} \in SUBSET Files
    BY <1>4, Zenon
  <2> QED
    BY <1>1, <1>3, <1>4, <2>1, <2>2, <2>3, <2>4, Saved, ZenonT(60)
<1>7. /\ DOMAIN proc' = Procs
      /\ proc'["sync"].lock = lock /\ proc'["sync"].added = {} /\ proc'["sync"].pc = "next"
      /\ ProcOK("sync", proc'["sync"])
  <2>1. DOMAIN proc' = Procs /\ proc'["sync"] = AfterSync
    BY <1>1, <1>3, Zenon DEF Overtaken
  <2>2. /\ ProcOK("sync", AfterSync) /\ AfterSync.lock = lock
        /\ AfterSync.added = {} /\ AfterSync.pc = "next"
    BY <1>1, AfterType, Zenon DEF lock
  <2> QED
    BY <2>1, <2>2, Zenon
<1>8. /\ proc'["build"].lock = b.lock /\ proc'["build"].added = b.added
      /\ proc'["build"].pc = b.pc /\ proc'["build"].id = b.id /\ proc'["build"].text = b.text
      /\ Running("build") => proc'["build"].other
      /\ ProcOK("build", proc'["build"]) /\ Loose("build")' = Loose("build")
  BY <1>1, <1>3, OvertakenFacts, Zenon
<1>9. Types'
  BY <1>1, <1>3, <1>4, <1>6, <1>7, <1>8, SavedTypes, Zenon
<1>10. Creates("build") /\ Creates("build")'
  BY Zenon DEF Creates
<1>11. \A q \in Procs : proc'[q].pc = "poll" => q = "build" /\ b.pc = "poll"
  BY <1>7, <1>8, Zenon DEF Procs
<1>12. FlightInv'
  <2>1. ASSUME b.pc = "poll"
        PROVE  \A f \in Files : lock[f].id # b.id /\ b.lock[f].id # b.id
    <3>1. s.id # b.id /\ \A f \in Files : s.lock[f].id # b.id /\ b.lock[f].id # b.id
      BY <1>1, <1>10, <2>1, Zenon DEF FlightInv
    <3> QED
      BY <1>5, <3>1, Zenon
  <2>2. ASSUME NEW p \in Procs, proc'[p].pc = "poll"
        PROVE  /\ \A f \in Files : lockfile'[f].id # proc'[p].id
               /\ \A q \in Procs, f \in Files : proc'[q].lock[f].id # proc'[p].id
               /\ \A q \in Procs : q # p /\ proc'[q].pc = "poll" => proc'[q].id # proc'[p].id
    <3>1. p = "build" /\ proc'[p].id = b.id /\ \A f \in Files : lock[f].id # b.id /\ b.lock[f].id # b.id
      BY <1>8, <1>11, <2>1, <2>2, Zenon
    <3>2. \A q \in Procs : proc'[q].lock = lock \/ proc'[q].lock = b.lock
      BY <1>7, <1>8, Zenon DEF Procs
    <3>3. \A q \in Procs : q # p => proc'[q].pc # "poll"
      BY <1>11, <3>1, Zenon
    <3> QED
      BY <1>6, <3>1, <3>2, <3>3, Zenon
  <2> QED
    BY <2>2, Zenon DEF FlightInv
<1>13. b.added \subseteq Files
  BY <1>1, ZenonT(60) DEF Types, ProcOK, Records
<1>14. \A f \in b.added, g \in Files : lock[g].id # b.lock[f].id
  <2>1. \A f \in b.added, g \in Files : s.lock[g].id # b.lock[f].id
    BY <1>1, Zenon DEF AddedInv
  <2>2. CASE Creates("sync")
    <3>1. \A f \in b.added : s.id # b.lock[f].id
      BY <1>1, <1>13, <2>2, Zenon DEF FlightInv
    <3> QED
      BY <1>5, <2>1, <3>1, ZenonT(60)
  <2>3. CASE ~Creates("sync")
    <3>1. s.id = s.lock[s.file].id
      BY <1>1, <2>3, Zenon DEF UploadInv
    <3>2. s.file \in Files
      BY <1>4, Zenon
    <3>3. \A f \in b.added : s.lock[s.file].id # b.lock[f].id
      BY <2>1, <3>2, Zenon
    <3>4. \A f \in b.added : s.id # b.lock[f].id
      BY <3>1, <3>3, Zenon
    <3> QED
      BY <1>5, <2>1, <3>4, ZenonT(60)
  <2> QED
    BY <2>2, <2>3, Zenon
<1>15. AddedInv'
  BY <1>6, <1>7, <1>8, <1>14, ZenonT(60) DEF AddedInv
<1>16. InjectiveInv'
  <2>1. Injective(lockfile') /\ Injective(proc'["sync"].lock) /\ Injective(proc'["build"].lock)
    BY <1>1, <1>4, <1>6, <1>7, <1>8, Zenon DEF InjectiveInv
  <2>2. Injective(lockfile)' /\ \A q \in Procs : Injective(proc'[q].lock)
    BY <2>1, ZenonT(60) DEF Procs, Injective
  <2> QED
    BY <2>2, Zenon DEF InjectiveInv, Injective
<1>17. SameInv'
  <2>1. ASSUME NEW p \in Procs, Running(p)', ~proc'[p].other, NEW f \in Files \ proc'[p].added
        PROVE  proc'[p].lock[f] = lockfile'[f]
    <3>1. p # "build"
      BY <1>8, <2>1, Zenon DEF Running
    <3>2. p = "sync"
      BY <3>1, Zenon DEF Procs
    <3> QED
      BY <1>6, <1>7, <3>2, Zenon
  <2> QED
    BY <2>1, Zenon DEF SameInv
<1>18. UploadInv'
  <2>1. ASSUME NEW p \in Procs, proc'[p].pc = "poll"
        PROVE  server'[proc'[p].id] = proc'[p].text /\ Creates(p)'
    <3>1. p = "build" /\ b.pc = "poll"
      BY <1>11, <2>1, Zenon
    <3>2. server[b.id] = b.text
      BY <1>1, <3>1, Zenon DEF UploadInv
    <3> QED
      BY <1>3, <1>8, <1>10, <3>1, <3>2, Zenon
  <2> QED
    BY <2>1, Zenon DEF UploadInv
<1>19. TruthInv'
  <2>1. ASSUME NEW f \in b.added, b.lock[f].id \notin tainted'
        PROVE  server[b.lock[f].id] = b.lock[f].hash
    <3>1. s.id # b.lock[f].id
      BY <1>4, <1>5, <1>14, Zenon
    <3>2. b.lock[f].id \notin tainted
      BY <1>4, <1>6, <2>1, <3>1, Zenon
    <3> QED
      BY <1>1, <3>2, Zenon DEF TruthInv
  <2>2. /\ proc'["build"].added = b.added /\ proc'["build"].lock = b.lock /\ server' = server /\ LockTruthful'
    BY <1>3, <1>6, <1>8, Zenon
  <2> QED
    BY <2>1, <2>2, Zenon DEF TruthInv
<1>20. AssetsAccounted'
  <2>1. Loose("sync") \subseteq {s.id}
    BY Zenon DEF Loose, InFlight
  <2>2. s.id \in Ids(lockfile)'
    <3>1. s.id # 0
      BY <1>1, <1>4, LockIds
    <3>2. s.id \in {lock[f].id : f \in Files}
      BY <1>4, <1>5, Zenon
    <3> QED
      BY <1>6, <3>1, <3>2, Zenon DEF Ids
  <2>3. \A p \in Procs : Loose(p) \subseteq Loose(p)' \cup Ids(lockfile)'
    BY <1>8, <2>1, <2>2, Zenon DEF Procs
  <2>4. Len(server)' = Len(server)
    BY <1>3, Zenon
  <2> QED
    BY <1>6, <2>3, <2>4, SavedAccounts, Zenon
<1> QED
  BY <1>9, <1>12, <1>15, <1>16, <1>17, <1>18, <1>19, <1>20, Zenon DEF AInv

\* A build ends and saves.
LEMMA EndBuildInv == ASSUME AInv, EndBuild, proc["build"].added # {} PROVE AInv'
<1> DEFINE s == proc["sync"]
           b == proc["build"]
<1>1. /\ Types /\ FlightInv /\ AddedInv /\ InjectiveInv /\ SameInv /\ UploadInv /\ TruthInv /\ AssetsAccounted
      /\ "sync" \in Procs /\ "build" \in Procs /\ b.pc = "next"
  BY Zenon DEF AInv, Procs, EndBuild
<1>2. /\ Save("build", b.lock, b.added, tainted)
      /\ proc' = Overtaken("build", Idle)
      /\ UNCHANGED <<setup, disk, server, faults, builds>>
  BY Zenon DEF EndBuild
<1>3. b.lock \in [Files -> Entries] /\ b.added \subseteq Files /\ tainted \subseteq 1 .. Len(server)
  BY <1>1, ZenonT(60) DEF Types, ProcOK, Records
<1>4. /\ LockTruthful'
      /\ Ids(lockfile) \cup abandoned \subseteq Ids(lockfile)' \cup abandoned'
      /\ lockfile' = b.lock /\ broken' \in BOOLEAN
      /\ abandoned' \subseteq 1 .. Len(server) /\ tainted' \subseteq 1 .. Len(server)
  <2>1. \A f \in b.added : b.lock[f].id \notin tainted => server[b.lock[f].id] = b.lock[f].hash
    BY <1>1, Zenon DEF TruthInv
  <2>2. ~b.other => \A f \in Files \ b.added : b.lock[f] = lockfile[f]
    BY <1>1, Zenon DEF SameInv, Running
  <2>3. b.added \in SUBSET Files /\ server' = server
    BY <1>2, <1>3, Zenon
  <2> DEFINE lock == b.lock
             uploaded == b.added
             suspect == tainted
  <2>4. /\ lock \in [Files -> Entries] /\ uploaded \in SUBSET Files
        /\ Save("build", lock, uploaded, suspect)
        /\ suspect \subseteq 1 .. Len(server)
    BY <1>2, <1>3, <2>3, Zenon
  <2>5. /\ \A f \in uploaded : lock[f].id \notin suspect => server[lock[f].id] = lock[f].hash
        /\ ~proc["build"].other => \A f \in Files \ uploaded : lock[f] = lockfile[f]
    BY <2>1, <2>2, Zenon
  <2>6. \A f \in Files \ uploaded : lock[f] # NoEntry /\ lock[f].id \in tainted => lock[f].id \in suspect
    BY Zenon
  <2>7. lock = b.lock
    OBVIOUS
  <2>8. "build" \in Procs /\ server' = server
    BY <1>1, <2>3, Zenon
  <2> HIDE DEF lock, uploaded, suspect
  <2>9. /\ LockTruthful'
        /\ Ids(lockfile) \cup abandoned \subseteq Ids(lockfile)' \cup abandoned'
        /\ lockfile' = lock /\ broken' \in BOOLEAN
        /\ suspect \subseteq tainted'
        /\ abandoned' \subseteq 1 .. Len(server) /\ tainted' \subseteq 1 .. Len(server)
    BY <2>4, <2>5, <2>6, <2>8, Saved, ZenonT(60)
  <2> QED
    BY <2>7, <2>9, Zenon
<1>5. DOMAIN proc' = Procs /\ proc'["build"] = Idle
  BY <1>1, <1>2, Zenon DEF Overtaken
<1>6. /\ proc'["build"].lock = NoLock /\ proc'["build"].added = {} /\ proc'["build"].pc = "idle"
      /\ ProcOK("build", proc'["build"])
  <2>1. Idle.lock = NoLock /\ Idle.added = {} /\ Idle.pc = "idle"
    BY DEF Idle
  <2>2. ProcOK("build", Idle)
    BY <1>1, LockIds, IdleType, Zenon
  <2> QED
    BY <1>5, <2>1, <2>2, Zenon
<1>7. /\ proc'["sync"].lock = s.lock /\ proc'["sync"].added = s.added
      /\ proc'["sync"].pc = s.pc /\ proc'["sync"].id = s.id /\ proc'["sync"].text = s.text
      /\ proc'["sync"].file = s.file
      /\ Running("sync") => proc'["sync"].other
      /\ ProcOK("sync", proc'["sync"]) /\ Creates("sync")' = Creates("sync")
      /\ Loose("sync")' = Loose("sync")
  BY <1>1, <1>2, OvertakenFacts, ZenonT(60)
<1>8. Types'
  BY <1>1, <1>2, <1>3, <1>4, <1>5, <1>6, <1>7, SavedTypes, Zenon
<1>9. \A q \in Procs : proc'[q].pc = "poll" => q = "sync" /\ s.pc = "poll"
  BY <1>6, <1>7, Zenon DEF Procs
<1>10. \A f \in Files : NoLock[f].id = 0
  BY NoLockIds, Zenon
<1>11. FlightInv'
  <2>1. ASSUME NEW p \in Procs, proc'[p].pc = "poll", Creates(p)'
        PROVE  /\ \A f \in Files : lockfile'[f].id # proc'[p].id
               /\ \A q \in Procs, f \in Files : proc'[q].lock[f].id # proc'[p].id
               /\ \A q \in Procs : q # p /\ proc'[q].pc = "poll" => proc'[q].id # proc'[p].id
    <3>1. p = "sync" /\ s.pc = "poll"
      BY <1>9, <2>1, Zenon
    <3>2. proc'[p].id = s.id /\ Creates("sync")
      BY <1>7, <2>1, <3>1, Zenon
    <3>3. \A f \in Files : b.lock[f].id # s.id /\ s.lock[f].id # s.id
      BY <1>1, <3>1, <3>2, Zenon DEF FlightInv
    <3>4. s.id # 0
      BY <1>1, <3>1, Zenon DEF Types, ProcOK
    <3>5. \A q \in Procs : proc'[q].lock = NoLock \/ proc'[q].lock = s.lock
      BY <1>6, <1>7, Zenon DEF Procs
    <3>6. \A q \in Procs, f \in Files : proc'[q].lock[f].id # s.id
      BY <1>10, <3>3, <3>4, <3>5, Zenon
    <3>7. \A q \in Procs : q # p => proc'[q].pc # "poll"
      BY <1>9, <3>1, Zenon
    <3> QED
      BY <1>4, <3>2, <3>3, <3>6, <3>7, Zenon
  <2> QED
    BY <2>1, Zenon DEF FlightInv
<1>12. AddedInv'
  BY <1>6, Zenon DEF AddedInv
<1>13. InjectiveInv'
  <2>1. Injective(b.lock) /\ Injective(s.lock)
    BY <1>1, Zenon DEF InjectiveInv
  <2>2. Injective(NoLock)
    BY <1>10, Zenon DEF Injective
  <2>3. Injective(lockfile') /\ Injective(proc'["sync"].lock) /\ Injective(proc'["build"].lock)
    BY <1>4, <1>6, <1>7, <2>1, <2>2, Zenon
  <2>4. Injective(lockfile)' /\ \A q \in Procs : Injective(proc'[q].lock)
    BY <2>3, Zenon DEF Procs, Injective
  <2> QED
    BY <2>4, Zenon DEF InjectiveInv, Injective
<1>14. SameInv'
  <2>1. ASSUME NEW p \in Procs, Running(p)', ~proc'[p].other
        PROVE  FALSE
    <3>1. p # "build"
      BY <1>6, <2>1, Zenon DEF Running
    <3>2. p = "sync"
      BY <3>1, Zenon DEF Procs
    <3> QED
      BY <1>7, <2>1, <3>2, Zenon DEF Running
  <2> QED
    BY <2>1, Zenon DEF SameInv
<1>15. UploadInv'
  <2>1. ASSUME NEW p \in Procs, proc'[p].pc = "poll"
        PROVE  /\ server'[proc'[p].id] = proc'[p].text
               /\ ~Creates(p)' => proc'[p].id = proc'[p].lock[proc'[p].file].id
    <3>1. p = "sync" /\ s.pc = "poll"
      BY <1>9, <2>1, Zenon
    <3>2. server[s.id] = s.text /\ (~Creates("sync") => s.id = s.lock[s.file].id)
      BY <1>1, <3>1, Zenon DEF UploadInv
    <3> QED
      BY <1>2, <1>7, <3>1, <3>2, Zenon
  <2> QED
    BY <2>1, Zenon DEF UploadInv
<1>16. TruthInv'
  BY <1>4, <1>6, Zenon DEF TruthInv
<1>17. AssetsAccounted'
  <2>1. Loose("build") \subseteq Ids(lockfile)'
    <3>1. InFlight("build") = {}
      BY <1>1, Zenon DEF InFlight
    <3>2. \A f \in b.added : b.lock[f].id # 0
      <4>1. ASSUME NEW f \in b.added
            PROVE  b.lock[f].id # 0
        BY <1>1, Zenon DEF Types, ProcOK
      <4> QED
        BY <4>1, Zenon
    <3>3. Loose("build") = {b.lock[f].id : f \in b.added}
      BY <3>1, Zenon DEF Loose
    <3>4. Loose("build") \subseteq Ids(b.lock)
      BY <1>3, <3>2, <3>3, Zenon DEF Ids
    <3> QED
      BY <1>4, <3>4, Zenon DEF Ids
  <2>2. \A p \in Procs : Loose(p) \subseteq Loose(p)' \cup Ids(lockfile)'
    BY <1>7, <2>1, Zenon DEF Procs
  <2>3. Len(server)' = Len(server)
    BY <1>2, Zenon
  <2> QED
    BY <1>4, <2>2, <2>3, SavedAccounts, Zenon
<1> QED
  BY <1>8, <1>11, <1>12, <1>13, <1>14, <1>15, <1>16, <1>17, Zenon DEF AInv
-------------------------------------------------------------------------------
(***************************************************************************)
(* The theorems.                                                           *)
(***************************************************************************)
LEMMA AInvInit == Init => AInv
<1> SUFFICES ASSUME Init
             PROVE  AInv
  OBVIOUS
<1>1. /\ Types /\ lockfile = NoLock /\ server = <<>>
      /\ \A p \in Procs : proc[p] = Idle
      /\ "sync" \in Procs /\ "build" \in Procs
  BY TypesInit, Zenon DEF Init, Procs
<1>2. Idle.lock = NoLock /\ Idle.added = {} /\ Idle.pc = "idle"
  BY DEF Idle
<1>3. \A p \in Procs : proc[p].lock = NoLock /\ proc[p].added = {} /\ proc[p].pc = "idle"
  BY <1>1, <1>2, Zenon
<1>4. FlightInv /\ AddedInv /\ SameInv /\ UploadInv
  BY <1>1, <1>3, Zenon DEF FlightInv, AddedInv, SameInv, UploadInv, Running
<1>5. Injective(NoLock)
  BY NoLockIds, Zenon DEF Injective
<1>6. InjectiveInv
  BY <1>1, <1>3, <1>5, Zenon DEF InjectiveInv
<1>7. TruthInv
  BY <1>1, <1>3, NoLockIds, Zenon DEF TruthInv, LockTruthful
<1>8. AssetsAccounted
  <2>1. 1 .. Len(server) = {}
    BY <1>1
  <2> QED
    BY <2>1, Zenon DEF AssetsAccounted
<1> QED
  BY <1>1, <1>4, <1>6, <1>7, <1>8, Zenon DEF AInv

LEMMA AInvNext == ASSUME AInv, [Next]_vars PROVE AInv'
<1>1. Types /\ "sync" \in Procs /\ "build" \in Procs
  BY Zenon DEF AInv, Procs
<1>2. ASSUME Quiet
      PROVE  AInv'
  BY <1>2, QuietInv, Zenon
<1>3. ASSUME NEW f \in Files, NEW t \in Texts, Edit(f, t)
      PROVE  AInv'
  BY <1>1, <1>2, <1>3, EditQuiet, Zenon
<1>4. CASE Break \/ Mend
  BY <1>1, <1>2, <1>4, MergeQuiet, Zenon
<1>5. CASE StartSync
  BY <1>1, <1>2, <1>5, StartSyncQuiet, Zenon
<1>6. ASSUME NEW F \in SUBSET Files, StartBuild(F)
      PROVE  AInv'
  BY <1>1, <1>2, <1>6, StartBuildQuiet, Zenon
<1>7. ASSUME NEW p \in Procs, Answered(p) \/ NotAnswered(p)
      PROVE  AInv'
  BY <1>7, AnsweredInv, NotAnsweredInv, Zenon
<1>8. ASSUME NEW p \in Procs, Refused(p) \/ PollFails(p)
      PROVE  AInv'
  BY <1>1, <1>2, <1>8, FailsQuiet, Zenon
<1>9. ASSUME NEW p \in Procs, Record(p)
      PROVE  AInv'
  BY <1>9, RecordSyncInv, RecordBuildInv, Zenon DEF Procs
<1>10. CASE Load
  BY <1>1, <1>2, <1>10, LoadQuiet, Zenon
<1>11. ASSUME NEW f \in Files, SyncReads(f) \/ ResolveHit(f) \/ ResolveMiss(f)
       PROVE  AInv'
  BY <1>1, <1>2, <1>11, SyncReadsQuiet, ResolveHitQuiet, ResolveMissQuiet, ZenonT(60)
<1>12. CASE BuildReads
  BY <1>1, <1>2, <1>12, BuildReadsQuiet, Zenon
<1>13. CASE EndBuild
  <2>1. CASE proc["build"].added = {}
    BY <1>1, <1>2, <1>13, <2>1, EndingsQuiet, Zenon
  <2>2. CASE proc["build"].added # {}
    BY <1>13, <2>2, EndBuildInv, Zenon
  <2> QED
    BY <2>1, <2>2, Zenon
<1>14. CASE SyncSaveFails \/ EndSync \/ BuildFails \/ \E p \in Procs : Crash(p)
  BY <1>1, <1>2, <1>14, EndingsQuiet, Zenon
<1>15. CASE UNCHANGED vars
  <2>1. /\ UNCHANGED <<setup, lockfile, server, proc, tainted, abandoned>>
        /\ disk' \in [Files -> Texts] /\ broken' \in BOOLEAN
        /\ faults' \in 0 .. setup.faults /\ builds' \in 0 .. MaxBuilds
    BY <1>1, <1>15, Zenon DEF Types, vars
  <2> QED
    BY <1>1, <1>2, <2>1, QuietStill, Zenon
<1>16. ASSUME NEW p \in Procs, Step(p)
       PROVE  AInv'
  BY <1>7, <1>8, <1>9, <1>10, <1>11, <1>12, <1>13, <1>14, <1>16, Zenon DEF Step
<1>17. CASE Next
  BY <1>3, <1>4, <1>5, <1>6, <1>14, <1>16, <1>17, Zenon DEF Next
<1> QED
  BY <1>15, <1>17, Zenon

LEMMA AInvAlways == Spec => []AInv
<1>1. AInv /\ [Next]_vars => AInv'
  BY AInvNext, Zenon
<1> QED
  BY <1>1, AInvInit, PTL DEF Spec

\* The state of the lockfile, of the asset server and of the two processes (a
\* sync and a build) has its type: an entry names an asset that exists, and a
\* process polls for a file that it has still to do.
THEOREM TypesCorrect == Spec => []TypeOK
<1>1. AInv => TypeOK
  BY TypesImply, Zenon DEF AInv
<1> QED
  BY <1>1, AInvAlways, PTL

\* An asset that is not tainted has the content its lock entry has the hash of,
\* so that Unchanged skips a file only when the file is on the server.
THEOREM LockIsTruthful == Spec => []LockTruthful
<1>1. AInv => LockTruthful
  BY Zenon DEF AInv, TruthInv
<1> QED
  BY <1>1, AInvAlways, PTL

\* Every asset that was created is in the lockfile, in the hands of a process,
\* or was cut loose by an event that is known.
THEOREM NothingLost == Spec => []AssetsAccounted
<1>1. AInv => AssetsAccounted
  BY Zenon DEF AInv
<1> QED
  BY <1>1, AInvAlways, PTL

\* A recorded id is replaced only by the end of a build that has uploaded the
\* file, or by a process that has not seen the last lockfile: a sync that has
\* seen it updates the asset.
THEOREM IdsAreStable == Spec => IdsStable
<1> DEFINE Stable ==
        \A f \in Files : lockfile[f] # NoEntry /\ lockfile'[f].id # lockfile[f].id =>
            f \in proc["build"].added \/ \E p \in Procs : proc[p].other
<1>1. ASSUME AInv, Record("sync")
      PROVE  Stable
  <2> SUFFICES ASSUME NEW f \in Files, lockfile[f] # NoEntry, ~proc["sync"].other
               PROVE  lockfile'[f].id = lockfile[f].id
    BY Zenon DEF Procs
  <2>1. /\ Types /\ SameInv /\ UploadInv /\ "sync" \in Procs /\ proc["sync"].pc = "poll"
    BY <1>1, Zenon DEF AInv, Procs, Record
  <2>2. lockfile' = NewLock("sync")
    BY <1>1, ZenonT(60) DEF Record, SavesNow, RecordedHash, NewLock, Entry, Save
  <2>3. proc["sync"].added = {}
    BY <2>1, Zenon DEF Types, ProcOK
  <2>4. proc["sync"].lock[f] = lockfile[f]
    BY <2>1, <2>3, Zenon DEF SameInv, Running
  <2>5. /\ f # proc["sync"].file => NewLock("sync")[f] = proc["sync"].lock[f]
        /\ NewLock("sync")[proc["sync"].file].id = proc["sync"].id
    BY <1>1, <2>1, Recorded, Zenon
  <2>6. CASE f = proc["sync"].file
    <3>1. ~Creates("sync")
      BY <2>4, <2>6, Zenon DEF Creates
    <3>2. proc["sync"].id = proc["sync"].lock[proc["sync"].file].id
      BY <2>1, <3>1, Zenon DEF UploadInv
    <3> QED
      BY <2>2, <2>4, <2>5, <2>6, <3>2
  <2>7. CASE f # proc["sync"].file
    BY <2>2, <2>4, <2>5, <2>7, Zenon
  <2> QED
    BY <2>6, <2>7, Zenon
<1>2. ASSUME AInv, EndBuild
      PROVE  Stable
  <2> SUFFICES ASSUME NEW f \in Files \ proc["build"].added, ~proc["build"].other
               PROVE  lockfile'[f] = lockfile[f]
    BY Zenon DEF Procs
  <2>1. SameInv /\ "build" \in Procs /\ proc["build"].pc = "next"
    BY <1>2, Zenon DEF AInv, Procs, EndBuild
  <2>2. proc["build"].lock[f] = lockfile[f]
    BY <2>1, Zenon DEF SameInv, Running
  <2>3. lockfile' = lockfile \/ lockfile' = proc["build"].lock
    BY <1>2, Zenon DEF EndBuild, Save
  <2> QED
    BY <2>2, <2>3, Zenon
<1>3. ASSUME UNCHANGED lockfile
      PROVE  Stable
  BY <1>3, Zenon
<1>4. ASSUME AInv, NEW p \in Procs, Step(p)
      PROVE  Stable
  <2>1. Record("sync") \/ EndBuild \/ UNCHANGED lockfile
    <3>1. Record("build") => UNCHANGED lockfile
      BY Zenon DEF Record, SavesNow
    <3>2. Record(p) => Record("sync") \/ Record("build")
      BY Zenon DEF Procs
    <3>3. Answered(p) \/ NotAnswered(p) \/ Refused(p) \/ PollFails(p) => UNCHANGED lockfile
      BY Zenon DEF Answered, NotAnswered, Refused, PollFails
    <3>4. Load \/ EndSync \/ SyncSaveFails \/ BuildReads \/ BuildFails => UNCHANGED lockfile
      BY Zenon DEF Load, EndSync, SyncSaveFails, BuildReads, BuildFails
    <3>5. \A f \in Files : SyncReads(f) \/ ResolveHit(f) \/ ResolveMiss(f) => UNCHANGED lockfile
      BY Zenon DEF SyncReads, ResolveHit, ResolveMiss
    <3> QED
      BY <1>4, <3>1, <3>2, <3>3, <3>4, <3>5, Zenon DEF Step
  <2> QED
    BY <1>1, <1>2, <1>3, <1>4, <2>1, Zenon
<1>5. ASSUME AInv, [Next]_vars
      PROVE  Stable
  <2>1. (\E p \in Procs : Step(p)) \/ UNCHANGED lockfile
    <3>1. \A f \in Files, t \in Texts : Edit(f, t) => UNCHANGED lockfile
      BY Zenon DEF Edit
    <3>2. Break \/ Mend \/ StartSync \/ UNCHANGED vars => UNCHANGED lockfile
      BY Zenon DEF Break, Mend, StartSync, vars
    <3>3. \A F \in SUBSET Files : StartBuild(F) => UNCHANGED lockfile
      BY Zenon DEF StartBuild
    <3>4. \A p \in Procs : Crash(p) => UNCHANGED lockfile
      BY Zenon DEF Crash
    <3> QED
      BY <1>5, <3>1, <3>2, <3>3, <3>4, Zenon DEF Next
  <2> QED
    BY <1>3, <1>4, <1>5, <2>1, Zenon
<1> HIDE DEF Stable
<1>6. AInv /\ [Next]_vars => [Stable]_vars
  BY <1>5, Zenon
<1>7. Spec => [][Stable]_vars
  BY <1>6, AInvAlways, PTL DEF Spec
<1> QED
  BY <1>7, Zenon DEF IdsStable, Stable

-------------------------------------------------------------------------------
(***************************************************************************)
(* What a sync leaves behind.                                              *)
(***************************************************************************)

\* The files that a sync has done with are in its lock with the hashes of its
\* scan, until a file fails.
Synced(s) ==
    /\ s.pc \in {"send", "poll"} => s.hash = s.seen[s.file]
    /\ s.pc \in {"next", "send", "poll"} /\ ~s.failed =>
        \A f \in Files \ s.todo : s.lock[f].hash = s.seen[f]

LEMMA SyncedSame ==
    ASSUME NEW s, NEW r, Synced(s), r.lock = s.lock, r.seen = s.seen, r.todo = s.todo,
           r.file = s.file, r.hash = s.hash, r.failed = s.failed,
           r.pc = s.pc \/ (s.pc = "send" /\ r.pc = "poll")
    PROVE  Synced(r)
BY ZenonT(60) DEF Synced

LEMMA SyncedIdle == Synced(Idle)
BY ZenonT(60) DEF Synced, Idle

LEMMA SyncedFails ==
    ASSUME Types, NEW p \in Procs, proc[p].pc \in {"send", "poll"}, UploadFails(p), Synced(proc["sync"])
    PROVE  Synced(proc'["sync"])
<1>1. CASE p = "sync"
  <2>1. proc'["sync"] = [NextFile(proc["sync"]) EXCEPT !.failed = TRUE] /\ proc["sync"] \in Records
    BY <1>1, ZenonT(60) DEF UploadFails, Types, ProcOK
  <2>2. proc'["sync"].failed = TRUE /\ proc'["sync"].pc = "next"
    BY <2>1, ZenonT(60) DEF NextFile, Records
  <2> QED
    BY <2>2, ZenonT(60) DEF Synced
<1>2. CASE p # "sync"
  BY <1>2, ZenonT(60) DEF UploadFails, Types, Procs
<1> QED
  BY <1>1, <1>2

\* A sync records a file.
LEMMA SyncedRecord ==
    ASSUME AInv, Record("sync"), Synced(proc["sync"])
    PROVE  Synced(proc'["sync"])
<1> DEFINE s == proc["sync"]
           r == proc'["sync"]
<1>1. Types /\ "sync" \in Procs /\ s.pc = "poll" /\ s \in Records /\ NextFile(s) \in Records
  <2>1. Types /\ "sync" \in Procs /\ s.pc = "poll"
    BY Zenon DEF AInv, Procs, Record
  <2>2. ProcOK("sync", s) /\ Len(server) \in Nat
    BY <2>1 DEF Types
  <2>3. ProcOK("sync", NextFile(s))
    BY <2>1, <2>2, NextFileType, Zenon
  <2> QED
    BY <2>1, <2>2, <2>3, Zenon DEF ProcOK
<1>2. r = AfterSync
  BY ZenonT(60) DEF Record, SavesNow, RecordedHash, AfterSync, After, NewLock, Entry, Suspect, Overtaken, Procs
<1>3. /\ r.pc = "next" /\ r.lock = NewLock("sync") /\ r.todo = s.todo \ {s.file}
      /\ r.seen = s.seen /\ r.failed = s.failed
  BY <1>1, <1>2, ZenonT(60) DEF AfterSync, After, NextFile, Records
<1>4. /\ \A f \in Files : f # s.file => NewLock("sync")[f] = s.lock[f]
      /\ NewLock("sync")[s.file].hash = s.hash
  BY <1>1, Recorded, Zenon
<1>5. s.hash = s.seen[s.file] /\ (~s.failed => \A f \in Files \ s.todo : s.lock[f].hash = s.seen[f])
  BY <1>1, ZenonT(60) DEF Synced
<1>6. ASSUME ~r.failed, NEW f \in Files \ r.todo
      PROVE  r.lock[f].hash = r.seen[f]
  <2>1. CASE f = s.file
    BY <1>3, <1>4, <1>5, <2>1, Zenon
  <2>2. CASE f # s.file
    BY <1>3, <1>4, <1>5, <1>6, <2>2, Zenon
  <2> QED
    BY <2>1, <2>2, Zenon
<1> QED
  BY <1>3, <1>6, ZenonT(60) DEF Synced

LEMMA SyncedStep ==
    ASSUME AInv, Synced(proc["sync"]), NEW p \in Procs, Step(p)
    PROVE  Synced(proc'["sync"])
<1>1. Types /\ DOMAIN proc = Procs /\ "sync" \in Procs /\ "build" \in Procs /\ proc["sync"] \in Records
  BY ZenonT(60) DEF AInv, Types, ProcOK, Procs
<1>2. ASSUME NEW q \in Procs, Answered(q) PROVE Synced(proc'["sync"])
  <2>1. CASE q = "sync"
    <3>1. proc["sync"].pc = "send" /\ proc'["sync"] = [proc["sync"] EXCEPT !.pc = "poll", !.id = Target("sync")]
      BY <1>1, <1>2, <2>1, ZenonT(60) DEF Answered
    <3> DEFINE r == proc'["sync"]
    <3>2. /\ r.lock = proc["sync"].lock /\ r.seen = proc["sync"].seen /\ r.todo = proc["sync"].todo
          /\ r.file = proc["sync"].file /\ r.hash = proc["sync"].hash /\ r.failed = proc["sync"].failed
          /\ r.pc = "poll"
      BY <1>1, <3>1, ZenonT(60) DEF Records
    <3> QED
      BY <3>1, <3>2, SyncedSame, ZenonT(60)
  <2>2. CASE q # "sync"
    BY <1>1, <1>2, <2>2, ZenonT(60) DEF Answered
  <2> QED
    BY <2>1, <2>2
<1>3. ASSUME NEW q \in Procs, NotAnswered(q) PROVE Synced(proc'["sync"])
  <2>1. CASE q = "sync" /\ proc' = [proc EXCEPT ![q].tries = @ + 1]
    <3>1. proc'["sync"] = [proc["sync"] EXCEPT !.tries = @ + 1]
      BY <1>1, <2>1, ZenonT(60)
    <3> DEFINE r == proc'["sync"]
    <3>2. /\ r.lock = proc["sync"].lock /\ r.seen = proc["sync"].seen /\ r.todo = proc["sync"].todo
          /\ r.file = proc["sync"].file /\ r.hash = proc["sync"].hash /\ r.failed = proc["sync"].failed
          /\ r.pc = proc["sync"].pc
      BY <1>1, <3>1, ZenonT(60) DEF Records
    <3> QED
      BY <3>2, SyncedSame, ZenonT(60)
  <2>2. CASE q # "sync" /\ proc' = [proc EXCEPT ![q].tries = @ + 1]
    BY <1>1, <2>2, ZenonT(60)
  <2>3. CASE UploadFails(q)
    BY <1>1, <1>3, <2>3, SyncedFails, ZenonT(60) DEF NotAnswered
  <2> QED
    BY <1>3, <2>1, <2>2, <2>3, ZenonT(60) DEF NotAnswered
<1>4. ASSUME NEW q \in Procs, Refused(q) \/ PollFails(q) PROVE Synced(proc'["sync"])
  BY <1>1, <1>4, SyncedFails, ZenonT(60) DEF Refused, PollFails
<1>5. ASSUME Record("build") PROVE Synced(proc'["sync"])
  <2>1. proc'["sync"] = proc["sync"]
    BY <1>1, <1>5, ZenonT(60) DEF Record, SavesNow
  <2> QED
    BY <2>1, Zenon
<1>6. CASE Load
  <2> DEFINE s == proc["sync"]
             r == proc'["sync"]
  <2>1. CASE broken
    BY <1>1, <1>6, <2>1, SyncedIdle, ZenonT(60) DEF Load
  <2>2. CASE ~broken
    <3>1. r = [s EXCEPT !.pc = "next", !.lock = lockfile, !.todo = {f \in Files : ~Unchanged(lockfile, f, s.seen[f])}]
      BY <1>1, <1>6, <2>2, ZenonT(60) DEF Load
    <3>2. /\ r.pc = "next" /\ r.lock = lockfile /\ r.seen = s.seen
          /\ r.todo = {f \in Files : ~Unchanged(lockfile, f, s.seen[f])}
      BY <1>1, <3>1, ZenonT(60) DEF Records
    <3> QED
      BY <3>2, ZenonT(60) DEF Synced, Unchanged
  <2> QED
    BY <2>1, <2>2
<1>7. ASSUME NEW f \in Files, SyncReads(f) PROVE Synced(proc'["sync"])
  <2> DEFINE s == proc["sync"]
             r == proc'["sync"]
  <2>1. r = [s EXCEPT !.pc = "send", !.file = f, !.hash = s.seen[f], !.text = disk[f], !.tries = 0] /\ s.pc = "next"
    BY <1>1, <1>7, ZenonT(60) DEF SyncReads
  <2>2. /\ r.pc = "send" /\ r.file = f /\ r.hash = s.seen[f] /\ r.seen = s.seen /\ r.lock = s.lock
        /\ r.todo = s.todo /\ r.failed = s.failed
    BY <1>1, <2>1, ZenonT(60) DEF Records
  <2> QED
    BY <2>1, <2>2, ZenonT(60) DEF Synced
<1>8. CASE EndSync \/ SyncSaveFails
  BY <1>1, <1>8, SyncedIdle, ZenonT(60) DEF EndSync, SyncSaveFails, End
<1>9. CASE EndBuild
  <2>1. CASE End("build")
    BY <1>1, <2>1, ZenonT(60) DEF End
  <2>2. CASE proc' = Overtaken("build", Idle)
    <3> DEFINE o == proc["sync"].other \/ proc["sync"].pc \notin {"idle", "load"}
               r == proc'["sync"]
    <3>1. r = [proc["sync"] EXCEPT !.other = o]
      BY <1>1, <2>2, ZenonT(60) DEF Overtaken
    <3>2. /\ r.lock = proc["sync"].lock /\ r.seen = proc["sync"].seen /\ r.todo = proc["sync"].todo
          /\ r.file = proc["sync"].file /\ r.hash = proc["sync"].hash /\ r.failed = proc["sync"].failed
          /\ r.pc = proc["sync"].pc
      BY <1>1, <3>1, ZenonT(60) DEF Records
    <3> QED
      BY <3>2, SyncedSame, ZenonT(60)
  <2> QED
    BY <1>9, <2>1, <2>2, ZenonT(60) DEF EndBuild
<1>10. CASE BuildReads \/ BuildFails \/ \E f \in Files : ResolveHit(f) \/ ResolveMiss(f)
  <2>1. proc'["sync"] = proc["sync"]
    BY <1>1, <1>10, ZenonT(60) DEF BuildReads, BuildFails, End, ResolveHit, ResolveMiss
  <2> QED
    BY <2>1, Zenon
<1>11. Record(p) => Record("sync") \/ Record("build")
  BY Zenon DEF Procs
<1> QED
  BY <1>2, <1>3, <1>4, <1>5, <1>6, <1>7, <1>8, <1>9, <1>10, <1>11, SyncedRecord, ZenonT(60) DEF Step

LEMMA SyncedNext == AInv /\ Synced(proc["sync"]) /\ [Next]_vars => Synced(proc["sync"])'
<1> SUFFICES ASSUME AInv, Synced(proc["sync"]), [Next]_vars
             PROVE  Synced(proc'["sync"])
  BY ZenonT(60) DEF Synced
<1>1. Types /\ DOMAIN proc = Procs /\ "sync" \in Procs /\ "build" \in Procs /\ proc["sync"] \in Records
  BY ZenonT(60) DEF AInv, Types, ProcOK, Procs
<1>2. CASE StartSync
  <2>1. proc'["sync"] = [proc["sync"] EXCEPT !.pc = "load", !.seen = disk]
    BY <1>1, <1>2, ZenonT(60) DEF StartSync
  <2>2. proc'["sync"].pc = "load"
    BY <1>1, <2>1, ZenonT(60) DEF Records
  <2> QED
    BY <2>2, ZenonT(60) DEF Synced
<1>3. ASSUME NEW p \in Procs, Crash(p) PROVE Synced(proc'["sync"])
  BY <1>1, <1>3, SyncedIdle, ZenonT(60) DEF Crash, End
<1>4. CASE UNCHANGED vars \/ Break \/ Mend \/ \E f \in Files, t \in Texts : Edit(f, t)
  <2>1. proc' = proc
    BY <1>4, ZenonT(60) DEF vars, Break, Mend, Edit
  <2> QED
    BY <2>1, Zenon
<1>5. ASSUME NEW F \in SUBSET Files, StartBuild(F) PROVE Synced(proc'["sync"])
  <2>1. proc'["sync"] = proc["sync"]
    BY <1>1, <1>5, ZenonT(60) DEF StartBuild
  <2> QED
    BY <2>1, Zenon
<1> QED
  BY <1>2, <1>3, <1>4, <1>5, SyncedStep, ZenonT(60) DEF Next

\* A sync that comes to its end with no failure to report has recorded every file
\* with the hash of its scan, unless a build has saved its lockfile meanwhile.
THEOREM SyncIsComplete == Spec => []SyncRecordsAll
<1> DEFINE SyncedInv == Synced(proc["sync"])
<1>1. AInv /\ SyncedInv => SyncRecordsAll
  <2> SUFFICES ASSUME AInv, Synced(proc["sync"]), proc["sync"].pc = "next", proc["sync"].todo = {},
                      ~proc["sync"].failed, ~proc["sync"].other, NEW f \in Files
               PROVE  lockfile[f].hash = proc["sync"].seen[f]
    BY ZenonT(60) DEF SyncRecordsAll
  <2>1. proc["sync"].added = {} /\ SameInv /\ "sync" \in Procs
    BY ZenonT(60) DEF AInv, Types, ProcOK, Procs
  <2>2. proc["sync"].lock[f] = lockfile[f]
    BY <2>1, ZenonT(60) DEF SameInv, Running
  <2> QED
    BY <2>2, ZenonT(60) DEF Synced
<1>2. Init => SyncedInv
  BY SyncedIdle, ZenonT(60) DEF Init, Procs
<1>3. AInv /\ SyncedInv /\ [Next]_vars => SyncedInv'
  BY SyncedNext, Zenon
<1> HIDE DEF SyncedInv
<1> QED
  BY <1>1, <1>2, <1>3, AInvAlways, PTL DEF Spec

\* The points of the loop of a process, in their order.
Point(c) == CASE c = "next" -> 1 [] c = "read" -> 2 [] c = "send" -> 3 [] c = "poll" -> 4 [] OTHER -> 0

\* A process has come nearer to its end: it has ended, has loaded the lockfile,
\* has done with a file or has come further with it, in the last resort by one
\* of the attempts it has.
Nearer(s, r) ==
    \/ r.pc = "idle"
    \/ s.pc = "load" /\ r.pc # "load"
    \/ r.todo \subseteq s.todo /\ r.todo # s.todo
    \/ r.todo = s.todo /\ Point(r.pc) > Point(s.pc)
    \/ r.todo = s.todo /\ r.pc = s.pc /\ s.tries < r.tries /\ r.tries < MaxAttempts

Stays(s, r) == r.pc = s.pc /\ r.todo = s.todo /\ r.tries = s.tries

LEMMA NearerFile ==
    ASSUME NEW s, NEW r, s.file \in s.todo, r.todo = s.todo \ {s.file}
    PROVE  Nearer(s, r)
BY ZenonT(60) DEF Nearer

LEMMA NearerIdle == \A s : Nearer(s, Idle)
<1>1. Idle.pc = "idle"
  BY DEF Idle
<1> QED
  BY <1>1, Zenon DEF Nearer

LEMMA PointOrder ==
    /\ Point("read") > Point("next") /\ Point("send") > Point("next")
    /\ Point("send") > Point("read") /\ Point("poll") > Point("send")
BY DEF Point

LEMMA NearerStep ==
    ASSUME Types, NEW p \in Procs, Step(p)
    PROVE  Nearer(proc[p], proc'[p])
<1> DEFINE s == proc[p]
           r == proc'[p]
<1>1. /\ DOMAIN proc = Procs /\ "sync" \in Procs /\ "build" \in Procs
      /\ ProcOK(p, s) /\ s \in Records /\ Len(server) \in Nat
  <2>1. DOMAIN proc = Procs /\ ProcOK(p, s) /\ server \in Seq(Texts)
    BY Zenon DEF Types
  <2>2. Len(server) \in Nat
    BY <2>1
  <2> QED
    BY <2>1, <2>2, Zenon DEF ProcOK, Procs
<1>2. s.pc \in {"read", "send", "poll"} => s.file \in s.todo
  BY <1>1, Zenon DEF ProcOK
<1>3. ASSUME UploadFails(p), s.pc \in {"send", "poll"} PROVE Nearer(s, r)
  <2>1. /\ r = [NextFile(s) EXCEPT !.failed = TRUE]
        /\ NextFile(s) \in Records /\ NextFile(s).todo = s.todo \ {s.file}
    BY <1>1, <1>3, NextFileType, ZenonT(60) DEF UploadFails, ProcOK
  <2>2. r.todo = s.todo \ {s.file}
    BY <2>1, ZenonT(60) DEF Records
  <2> QED
    BY <1>2, <1>3, <2>2, NearerFile, Zenon
<1>4. CASE Answered(p)
  <2>1. s.pc = "send" /\ r = [s EXCEPT !.pc = "poll", !.id = Target(p)]
    BY <1>1, <1>4, ZenonT(60) DEF Answered
  <2>2. r.pc = "poll" /\ r.todo = s.todo
    BY <1>1, <2>1, ZenonT(60) DEF Records
  <2> QED
    BY <2>1, <2>2, PointOrder, ZenonT(60) DEF Nearer
<1>5. CASE NotAnswered(p)
  <2>1. CASE Attempts(s.tries + 1) /\ proc' = [proc EXCEPT ![p].tries = @ + 1]
    <3>1. r = [s EXCEPT !.tries = s.tries + 1]
      BY <1>1, <2>1, ZenonT(60)
    <3>2. r.pc = s.pc /\ r.todo = s.todo /\ r.tries = s.tries + 1 /\ s.tries \in 0 .. MaxAttempts - 1
      BY <1>1, <3>1, ZenonT(60) DEF Records
    <3>3. s.tries < s.tries + 1 /\ s.tries + 1 < MaxAttempts
      BY <2>1, <3>2, AttemptsAssumption DEF Attempts
    <3> QED
      BY <3>2, <3>3, ZenonT(60) DEF Nearer
  <2> QED
    BY <1>3, <1>5, <2>1, ZenonT(60) DEF NotAnswered
<1>6. CASE Refused(p) \/ PollFails(p)
  BY <1>3, <1>6, ZenonT(60) DEF Refused, PollFails
<1>7. CASE Record(p)
  <2>1. s.pc = "poll" /\ NextFile(s) \in Records /\ NextFile(s).todo = s.todo \ {s.file}
    BY <1>1, <1>7, NextFileType, ZenonT(60) DEF Record, ProcOK
  <2>2. r = After(p) \/ r = [After(p) EXCEPT !.added = {}]
    BY <1>1, <1>7, ZenonT(60) DEF Record, RecordedHash, After, NewLock, Entry, Overtaken
  <2>3. r.todo = s.todo \ {s.file}
    BY <2>1, <2>2, ZenonT(60) DEF After, Records
  <2> QED
    BY <1>2, <2>1, <2>3, NearerFile, Zenon
<1>8. CASE p = "sync" /\ Load
  <2>1. s.pc = "load" /\ (r = Idle \/ \E lock, todo : r = [s EXCEPT !.pc = "next", !.lock = lock, !.todo = todo])
    BY <1>1, <1>8, ZenonT(60) DEF Load
  <2>2. CASE \E lock, todo : r = [s EXCEPT !.pc = "next", !.lock = lock, !.todo = todo]
    <3>1. r.pc = "next"
      BY <1>1, <2>2, ZenonT(60) DEF Records
    <3> QED
      BY <2>1, <3>1, ZenonT(60) DEF Nearer
  <2> QED
    BY <2>1, <2>2, NearerIdle, ZenonT(60)
<1>9. CASE p = "sync" /\ (EndSync \/ SyncSaveFails)
  <2>1. r = Idle
    BY <1>1, <1>9, ZenonT(60) DEF EndSync, SyncSaveFails, End
  <2> QED
    BY <2>1, NearerIdle, Zenon
<1>10. ASSUME p = "sync", NEW f \in Files, SyncReads(f) PROVE Nearer(s, r)
  <2>1. s.pc = "next" /\ r = [s EXCEPT !.pc = "send", !.file = f, !.hash = s.seen[f], !.text = disk[f], !.tries = 0]
    BY <1>1, <1>10, ZenonT(60) DEF SyncReads
  <2>2. r.pc = "send" /\ r.todo = s.todo
    BY <1>1, <2>1, ZenonT(60) DEF Records
  <2> QED
    BY <2>1, <2>2, PointOrder, ZenonT(60) DEF Nearer
<1>11. CASE p = "build" /\ (EndBuild \/ BuildFails)
  <2>1. r = Idle
    BY <1>1, <1>11, ZenonT(60) DEF EndBuild, BuildFails, End, Overtaken
  <2> QED
    BY <2>1, NearerIdle, Zenon
<1>12. CASE p = "build" /\ BuildReads
  <2>1. s.pc = "read" /\ r = [s EXCEPT !.pc = "send", !.text = disk[s.file], !.tries = 0]
    BY <1>1, <1>12, ZenonT(60) DEF BuildReads
  <2>2. r.pc = "send" /\ r.todo = s.todo
    BY <1>1, <2>1, ZenonT(60) DEF Records
  <2> QED
    BY <2>1, <2>2, PointOrder, ZenonT(60) DEF Nearer
<1>13. ASSUME p = "build", NEW f \in Files, ResolveHit(f) PROVE Nearer(s, r)
  <2>1. f \in s.todo /\ r = [s EXCEPT !.todo = @ \ {f}]
    BY <1>1, <1>13, ZenonT(60) DEF ResolveHit
  <2>2. r.todo = s.todo \ {f}
    BY <1>1, <2>1, ZenonT(60) DEF Records
  <2> QED
    BY <2>1, <2>2, ZenonT(60) DEF Nearer
<1>14. ASSUME p = "build", NEW f \in Files, ResolveMiss(f) PROVE Nearer(s, r)
  <2>1. s.pc = "next" /\ r = [s EXCEPT !.pc = "read", !.file = f, !.hash = disk[f]]
    BY <1>1, <1>14, ZenonT(60) DEF ResolveMiss
  <2>2. r.pc = "read" /\ r.todo = s.todo
    BY <1>1, <2>1, ZenonT(60) DEF Records
  <2> QED
    BY <2>1, <2>2, PointOrder, ZenonT(60) DEF Nearer
<1> QED
  BY <1>4, <1>5, <1>6, <1>7, <1>8, <1>9, <1>10, <1>11, <1>12, <1>13, <1>14, ZenonT(60) DEF Step

\* The steps of the one process leave the other where it is.
LEMMA OtherStays ==
    ASSUME Types, NEW p \in Procs, NEW q \in Procs, q # p, Step(q) \/ Crash(q)
    PROVE  Stays(proc[p], proc'[p])
<1>1. DOMAIN proc = Procs /\ proc[p] \in Records
  BY ZenonT(60) DEF Types, ProcOK
<1>2. CASE proc'[p] = proc[p]
  BY <1>2, ZenonT(60) DEF Stays
<1>3. ASSUME NEW r, proc' = Overtaken(q, r) PROVE Stays(proc[p], proc'[p])
  <2>1. \E o : proc'[p] = [proc[p] EXCEPT !.other = o]
    BY <1>1, <1>3, ZenonT(60) DEF Overtaken
  <2> QED
    BY <1>1, <2>1, ZenonT(60) DEF Stays, Records
<1>4. CASE Record(q)
  BY <1>1, <1>2, <1>3, <1>4, ZenonT(60) DEF Record
<1>5. CASE EndBuild /\ q = "build"
  BY <1>1, <1>2, <1>3, <1>5, ZenonT(60) DEF EndBuild, End
<1>6. CASE Answered(q) \/ NotAnswered(q) \/ Refused(q) \/ PollFails(q) \/ Crash(q)
  BY <1>1, <1>2, <1>6, ZenonT(60) DEF Answered, NotAnswered, Refused, PollFails, UploadFails, Crash, End
<1>7. CASE q = "sync" /\ (Load \/ EndSync \/ SyncSaveFails \/ \E f \in Files : SyncReads(f))
  BY <1>1, <1>2, <1>7, ZenonT(60) DEF Load, EndSync, SyncSaveFails, SyncReads, End
<1>8. CASE q = "build" /\ (BuildReads \/ BuildFails \/ \E f \in Files : ResolveHit(f) \/ ResolveMiss(f))
  BY <1>1, <1>2, <1>8, ZenonT(60) DEF BuildReads, BuildFails, ResolveHit, ResolveMiss, End
<1> QED
  BY <1>4, <1>5, <1>6, <1>7, <1>8, ZenonT(60) DEF Step

\* Every step of a sync or of a build brings it nearer to its end, a retry of do
\* included, and neither edits nor the other process take it back: with finitely
\* many files each run has finitely many steps.
THEOREM ProcessesAdvance ==
    Spec => [][\A p \in Procs : proc[p].pc # "idle" =>
                  Nearer(proc[p], proc'[p]) \/ (~Step(p) /\ Stays(proc[p], proc'[p]))]_vars
<1> DEFINE Advance == \A p \in Procs : proc[p].pc # "idle" =>
                         Nearer(proc[p], proc'[p]) \/ (~Step(p) /\ Stays(proc[p], proc'[p]))
<1>1. ASSUME Types, Next, NEW p \in Procs, proc[p].pc # "idle", ~Step(p)
      PROVE  Nearer(proc[p], proc'[p]) \/ Stays(proc[p], proc'[p])
  <2>1. DOMAIN proc = Procs /\ "sync" \in Procs /\ "build" \in Procs
    BY <1>1, Zenon DEF Types, Procs
  <2>2. CASE proc'[p] = proc[p]
    BY <2>2, ZenonT(60) DEF Stays
  <2>3. CASE Crash(p)
    <3>1. proc'[p] = Idle
      BY <2>1, <2>3, ZenonT(60) DEF Crash, End
    <3> QED
      BY <3>1, NearerIdle, Zenon
  <2>4. CASE \E q \in Procs : q # p /\ (Step(q) \/ Crash(q))
    BY <1>1, <2>4, OtherStays, Zenon
  <2>5. CASE Break \/ Mend \/ \E f \in Files, t \in Texts : Edit(f, t)
    BY <2>2, <2>5, ZenonT(60) DEF Break, Mend, Edit
  <2>6. CASE StartSync
    <3>1. p # "sync"
      BY <1>1, <2>6, ZenonT(60) DEF StartSync
    <3> QED
      BY <2>1, <2>2, <2>6, <3>1, ZenonT(60) DEF StartSync
  <2>7. ASSUME NEW F \in SUBSET Files, StartBuild(F)
        PROVE  Nearer(proc[p], proc'[p]) \/ Stays(proc[p], proc'[p])
    <3>1. p # "build"
      BY <1>1, <2>7, ZenonT(60) DEF StartBuild
    <3> QED
      BY <2>1, <2>2, <2>7, <3>1, ZenonT(60) DEF StartBuild
  <2> QED
    BY <1>1, <2>3, <2>4, <2>5, <2>6, <2>7, ZenonT(60) DEF Next
<1>2. ASSUME Types, Next
      PROVE  Advance
  BY <1>1, <1>2, NearerStep, Zenon
<1>3. AInv /\ [Next]_vars => [Advance]_vars
  BY <1>2, Zenon DEF AInv
<1> HIDE DEF Advance
<1>4. Spec => [][Advance]_vars
  BY <1>3, AInvAlways, PTL DEF Spec
<1> QED
  BY <1>4, Zenon DEF Advance
===============================================================================
