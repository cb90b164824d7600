------------------------------- MODULE Sidecar -------------------------------
(***************************************************************************)
(* The client of the transformer sidecar (internal/compile/sidecar.go) and *)
(* its worker, a Node process that keeps the project's program warm        *)
(* (tools/sidecar/lib/session.js).                                         *)
(*                                                                         *)
(* A call ships the texts that differ from what the client believes the    *)
(* worker has, and the worker answers from its overrides, from what it has *)
(* once read, and from the disk.  The question is which texts an answer is *)
(* about, while files are saved, deleted and created at any time, workers  *)
(* die, hang and answer late, and callers overlay files.                   *)
(*                                                                         *)
(* The text of a file on the disk is the number of the save that wrote it, *)
(* which also is its stamp: two saves are never taken for one, as they are *)
(* when they leave the same time and size.  One lock lets one call run at  *)
(* a time; a project has a session of its own, so one project is modelled. *)
(***************************************************************************)
EXTENDS Integers, Sequences

CONSTANTS
    Files,
    Setups,       \* see setup
    MaxSaves,     \* bound of saves
    MaxCalls      \* bound of calls

ASSUME BoundAssumption == MaxSaves \in Nat /\ MaxCalls \in Nat

\* No text: a file that does not exist, a text not held, a stamp not taken.
None == 0

\* The text of a caller's overlay.
Overlay == -1

Texts == {Overlay, None} \cup 1 .. MaxSaves + 1

VARIABLES
    setup,        \* what may happen: overlays, worker faults, changes of files
    disk, saves,  \* the files, and the number of saves so far
    calls,        \* the number of calls so far
    up,           \* sidecarSessions has a session
    stamps, overlaid,           \* its stamps and overlays
    worker,       \* the process behind it
    pc, attempt,  \* where the call is, and the attempt
    want, files,  \* its overlays, and the files of its program
    fresh, todo,  \* changedFilesFor: the session was fresh; files to stat
    held,         \* the file revertDroppedOverlays has read and not yet stamped
    changed,      \* the texts to ship
    start, begun, gone,         \* history: the disk and the number of saves when
                  \* the call began, and the files deleted since
    missed        \* history: files whose text the worker will not be told

session == <<up, stamps, overlaid>>

call == <<attempt, want, files, start, begun>>

request == <<fresh, todo, held, changed>>

vars == <<setup, disk, saves, calls, session, worker, pc, call, request, gone, missed>>

Nothing == [f \in Files |-> None]

NewWorker == [alive |-> TRUE, over |-> Nothing, read |-> Nothing, inbox |-> <<>>, pipe |-> <<>>]

Init ==
    /\ setup \in Setups
    /\ disk = [f \in Files |-> 1] /\ saves = 1
    /\ calls = 0
    /\ up = FALSE /\ stamps = Nothing /\ overlaid = {}
    /\ worker = [NewWorker EXCEPT !.alive = FALSE]
    /\ pc = "idle" /\ attempt = 0
    /\ want = {} /\ files = {}
    /\ fresh = FALSE /\ todo = {} /\ held = <<>> /\ changed = Nothing
    /\ start = Nothing /\ begun = 0 /\ gone = {}
    /\ missed = {}

\* What the worker has been told, with updateFile for each changed file.
Told(over, texts) == [f \in Files |-> IF texts[f] # None THEN texts[f] ELSE over[f]]

\* A file is saved, or created.
Save(f) ==
    /\ "save" \in setup
    /\ saves <= MaxSaves
    /\ saves' = saves + 1
    /\ disk' = [disk EXCEPT ![f] = saves']
    /\ UNCHANGED <<setup, calls, session, worker, pc, call, request, gone, missed>>

\* A file is deleted.  The worker keeps the text it was told.
Delete(f) ==
    /\ "delete" \in setup
    /\ disk[f] # None
    /\ disk' = [disk EXCEPT ![f] = None]
    /\ gone' = IF pc = "idle" THEN gone ELSE gone \cup {f}
    /\ missed' = IF Told(worker.over, changed)[f] # None THEN missed \cup {f} ELSE missed
    /\ UNCHANGED <<setup, saves, calls, session, worker, pc, call, request>>
-------------------------------------------------------------------------------
(***************************************************************************)
(* Plausible mistakes in the code below; none of them is part of the       *)
(* model.                                                                  *)
(***************************************************************************)

\* A session that did not answer in time stays.
DropUnlessLate == up' = (pc = "late") /\ UNCHANGED <<stamps, overlaid>>

\* Only files with a stamp are compared.
DiffersStamped(f, stamp) == stamps[f] # None /\ stamps[f] # stamp

\* Every failed attempt is repeated.
RetriesAlways == TRUE

\* A dropped overlay is only forgotten.
DroppedNever == {}
-------------------------------------------------------------------------------
(***************************************************************************)
(* The worker.                                                             *)
(***************************************************************************)

\* The text of f in the program: an override, or what was first read from the
\* disk, as the version of the file stays the same.
Used(over, read, f) ==
    IF over[f] # None THEN over[f]
    ELSE IF read[f] # None /\ disk[f] # None THEN read[f]
    ELSE disk[f]

\* handleRequest, and the answer it writes.
Handle ==
    /\ worker.alive
    /\ worker.inbox # <<>>
    /\ LET over == Told(worker.over, Head(worker.inbox))
           used == [f \in Files |-> Used(over, worker.read, f)]
       IN  worker' = [worker EXCEPT
               !.inbox = Tail(@),
               !.over = over,
               !.read = [f \in Files |-> IF over[f] = None /\ @[f] = None THEN disk[f] ELSE @[f]],
               !.pipe = Append(@, used)]
    /\ UNCHANGED <<setup, disk, saves, calls, session, pc, call, request, gone, missed>>

\* The process ends, with a request, with an answer, or between calls.
Die ==
    /\ "die" \in setup
    /\ worker.alive
    /\ worker' = [worker EXCEPT !.alive = FALSE]
    /\ UNCHANGED <<setup, disk, saves, calls, session, pc, call, request, gone, missed>>
-------------------------------------------------------------------------------
(***************************************************************************)
(* runTransformerSidecar.                                                  *)
(***************************************************************************)

\* The variables of a call, once it has returned.
Return ==
    /\ pc' = "idle" /\ attempt' = 0
    /\ want' = {} /\ files' = {} /\ start' = Nothing /\ begun' = 0 /\ gone' = {}
    /\ fresh' = FALSE /\ todo' = {} /\ held' = <<>> /\ changed' = Nothing

\* A build calls with the files its program has found.
Call(O) ==
    /\ pc = "idle"
    /\ calls < MaxCalls
    /\ calls' = calls + 1
    /\ files' = {f \in Files : disk[f] # None}
    /\ files' # {}
    /\ want' = O \cap files'
    /\ O = {} \/ "overlay" \in setup
    /\ start' = disk /\ begun' = saves /\ gone' = {}
    /\ attempt' = 0
    /\ pc' = "session"
    /\ UNCHANGED <<setup, disk, saves, session, worker, request, missed>>

\* The warm session, or a new one.
Session ==
    /\ pc = "session"
    /\ \/ /\ up
          /\ UNCHANGED <<session, worker, missed>>
          /\ fresh' = (stamps = Nothing)
       \/ /\ ~up
          /\ up' = TRUE /\ stamps' = Nothing /\ overlaid' = {}
          /\ worker' = NewWorker
          /\ missed' = {}
          /\ fresh' = TRUE
    /\ todo' = files \ want
    /\ changed' = Nothing
    /\ held' = <<>>
    /\ pc' = "revert"
    /\ UNCHANGED <<setup, disk, saves, calls, call, gone>>

\* There is no node, or it does not start.
SpawnFails ==
    /\ "die" \in setup
    /\ pc = "session"
    /\ ~up
    /\ Return
    /\ UNCHANGED <<setup, disk, saves, calls, session, worker, missed>>

Dropped == overlaid \ want

\* revertDroppedOverlays reads a file, then stats it.
RevertRead(f) ==
    /\ pc = "revert"
    /\ held = <<>>
    /\ f \in Dropped
    /\ overlaid' = overlaid \ {f}
    /\ held' = <<f, disk[f]>>
    /\ UNCHANGED <<setup, disk, saves, calls, up, stamps, worker, pc, call, fresh, todo, changed, gone, missed>>

\* A save in between is stamped, and its text is not sent.  A file that is
\* gone keeps the overlay in the worker.
RevertStat ==
    /\ pc = "revert"
    /\ held # <<>>
    /\ LET f == held[1]
           text == held[2]
           ok == text # None /\ disk[f] # None
       IN  /\ stamps' = [stamps EXCEPT ![f] = IF ok THEN disk[f] ELSE None]
           /\ changed' = [changed EXCEPT ![f] = IF ok THEN text ELSE None]
           /\ missed' = IF ok /\ text = disk[f] THEN missed ELSE missed \cup {f}
    /\ held' = <<>>
    /\ UNCHANGED <<setup, disk, saves, calls, up, overlaid, worker, pc, call, fresh, todo, gone>>

\* The overlays of this call are shipped, warm session or not.
ShipOverlays ==
    /\ pc = "revert"
    /\ held = <<>>
    /\ Dropped = {}
    /\ changed' = [f \in Files |-> IF f \in want THEN Overlay ELSE changed[f]]
    /\ overlaid' = overlaid \cup want
    /\ pc' = "stat"
    /\ UNCHANGED <<setup, disk, saves, calls, up, stamps, worker, call, fresh, todo, held, gone, missed>>

\* The text of f the worker will use for this request.
Known(f) == Used(Told(worker.over, changed), worker.read, f)

Differs(f, stamp) == stamps[f] # stamp

\* A file is compared with its stamp.  One that is gone is passed over.  On a
\* session without stamps a file is only stamped.  A call that overlaid all
\* files of its program leaves none either, so the worker may by then have an
\* older text of the file.
Stat(f) ==
    /\ pc = "stat"
    /\ held = <<>>
    /\ f \in todo
    /\ todo' = todo \ {f}
    /\ \/ /\ disk[f] = None
          /\ UNCHANGED <<stamps, held, missed>>
       \/ /\ disk[f] # None
          /\ fresh \/ ~Differs(f, disk[f])
          /\ stamps' = [stamps EXCEPT ![f] = disk[f]]
          /\ missed' = IF fresh /\ Known(f) # disk[f] THEN missed \cup {f} ELSE missed
          /\ held' = held
       \/ /\ disk[f] # None
          /\ ~fresh /\ Differs(f, disk[f])
          /\ held' = <<f, disk[f]>>
          /\ UNCHANGED <<stamps, missed>>
    /\ UNCHANGED <<setup, disk, saves, calls, up, overlaid, worker, pc, call, fresh, changed, gone>>

\* A changed file is read, and gets the stamp of before.
ReadChanged ==
    /\ pc = "stat"
    /\ held # <<>>
    /\ disk[held[1]] # None
    /\ changed' = [changed EXCEPT ![held[1]] = disk[held[1]]]
    /\ stamps' = [stamps EXCEPT ![held[1]] = held[2]]
    /\ held' = <<>>
    /\ UNCHANGED <<setup, disk, saves, calls, up, overlaid, worker, pc, call, fresh, todo, gone, missed>>

\* It is gone: the call returns.  The files that were stamped so far are not
\* sent, and no later call sends them.
ReadFails ==
    /\ pc = "stat"
    /\ held # <<>>
    /\ disk[held[1]] = None
    /\ missed' = missed \cup {f \in Files \ want : changed[f] # None}
    /\ Return
    /\ UNCHANGED <<setup, disk, saves, calls, session, worker>>

\* What is sent with the stamp it has, or newer, is known to the worker, while
\* the file is there.
Send ==
    /\ pc = "stat"
    /\ held = <<>>
    /\ todo = {}
    /\ worker' = [worker EXCEPT !.inbox = Append(@, changed)]
    /\ missed' = missed \ {f \in Files : disk[f] # None /\ changed[f] # None /\ changed[f] >= stamps[f]}
    /\ pc' = "wait"
    /\ UNCHANGED <<setup, disk, saves, calls, session, call, request, gone>>

Receive ==
    /\ pc = "wait"
    /\ worker.pipe # <<>>
    /\ worker' = [worker EXCEPT !.pipe = Tail(@)]
    /\ Return
    /\ UNCHANGED <<setup, disk, saves, calls, session, missed>>

\* roundTrip fails: the worker has ended without an answer, or is late.
Fail ==
    /\ pc = "wait"
    /\ worker.pipe = <<>>
    /\ \/ ~worker.alive /\ pc' = "broken"
       \/ "late" \in setup /\ pc' = "late"
    /\ UNCHANGED <<setup, disk, saves, calls, session, worker, call, request, gone, missed>>

Drop == up' = FALSE /\ UNCHANGED <<stamps, overlaid>>

Retries == attempt = 0

\* The session is deleted and its worker closed.  A late answer is not waited
\* for again, any other failure once.
GiveUp ==
    /\ pc \in {"broken", "late"}
    /\ Drop
    /\ worker' = [worker EXCEPT !.alive = up']
    /\ \/ /\ pc = "broken" /\ Retries
          /\ pc' = "session" /\ attempt' = 1
          /\ UNCHANGED <<want, files, start, begun, gone, request>>
       \/ /\ ~(pc = "broken" /\ Retries)
          /\ Return
    /\ UNCHANGED <<setup, disk, saves, calls, missed>>

Step ==
    \/ Session \/ SpawnFails
    \/ \E f \in Files : RevertRead(f)
    \/ RevertStat \/ ShipOverlays
    \/ \E f \in Files : Stat(f)
    \/ ReadChanged \/ ReadFails \/ Send \/ Receive \/ Fail \/ GiveUp

Next ==
    \/ \E f \in Files : Save(f) \/ Delete(f)
    \/ Handle \/ Die
    \/ \E O \in SUBSET Files : Call(O)
    \/ Step

Spec == Init /\ [][Next]_vars

\* The call goes on, its timer fires, and a worker that lives works.
Fairness == WF_vars(Step) /\ WF_vars(Handle)

FairSpec == Spec /\ Fairness
-------------------------------------------------------------------------------
Requests == [Files -> Texts]

TypeOK ==
    /\ setup \in Setups
    /\ disk \in [Files -> Texts \ {Overlay}] /\ saves \in 1 .. MaxSaves + 1
    /\ calls \in 0 .. MaxCalls
    /\ up \in BOOLEAN /\ stamps \in [Files -> Texts \ {Overlay}] /\ overlaid \subseteq Files
    /\ worker.alive \in BOOLEAN
    /\ worker.over \in [Files -> Texts] /\ worker.read \in [Files -> Texts \ {Overlay}]
    /\ worker.inbox \in Seq(Requests) /\ worker.pipe \in Seq(Requests)
    /\ pc \in {"idle", "session", "revert", "stat", "wait", "broken", "late"}
    /\ attempt \in {0, 1}
    /\ want \subseteq files /\ files \subseteq Files
    /\ fresh \in BOOLEAN /\ todo \subseteq files
    /\ held = <<>> \/ (held[1] \in Files /\ held[2] \in Texts)
    /\ changed \in Requests /\ start \in [Files -> Texts] /\ begun \in Nat /\ gone \subseteq Files
    /\ missed \subseteq Files

\* The pipes of a session hold one message from the request to its answer and
\* none at any other time: no call takes the answer of an earlier one for its
\* own, whatever was late or died, and none waits for an answer that nobody owes.
OneMessage ==
    up => Len(worker.inbox \o worker.pipe) = IF pc \in {"wait", "broken", "late"} THEN 1 ELSE 0

\* The text of f that an answer of this call may be about: the overlay the
\* caller asked for, or a text the disk had while the call was running.  A file
\* that is created or deleted meanwhile may be there with an earlier text.
Current(f, text) ==
    \/ f \in want /\ text = Overlay
    \/ f \in files \ want /\ (text = start[f] \/ text > begun)
    \/ f \notin files /\ (text = None \/ (disk[f] > begun /\ text # Overlay))
    \/ f \in gone \ want /\ text # Overlay

\* An answer is about the texts of its own call, whatever workers were used
\* before: the overlays asked for, and for the other files of the program a
\* text that was on the disk during the call.  The exceptions are the files in
\* missed: deleted files the worker was told about, a save between the read and
\* the stat of a dropped overlay, the files of a call that returned before it
\* sent them, and the files that are only stamped in a call after one that had
\* stamped nothing.
AnswerCurrent ==
    [][Receive => \A f \in Files \ missed : Current(f, Head(worker.pipe)[f])]_vars

\* Between two calls the session's worker will answer with the texts on the
\* disk, once the next call has compared the stamps.
WarmKnowsDisk ==
    pc = "idle" /\ up /\ worker.alive /\ worker.inbox = <<>> =>
        \A f \in Files \ (missed \cup overlaid) :
            disk[f] # None /\ stamps[f] = disk[f] /\ stamps # Nothing =>
                Used(worker.over, worker.read, f) = disk[f]

\* Each call returns: with an answer, after a second worker, or at the deadline.
CallReturns == pc # "idle" ~> pc = "idle"
===============================================================================
