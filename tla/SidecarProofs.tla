----------------------------- MODULE SidecarProofs -----------------------------
(***************************************************************************)
(* Which texts the answers of the transformer sidecar are about, for any   *)
(* files, saves, deletions, overlays and worker faults.                    *)
(*                                                                         *)
(* The worker's overrides, the request on its way and the texts collected  *)
(* so far change hands during a call, but what the worker will use for a   *)
(* file (Known) does not: the invariant is stated about that, file by      *)
(* file.  ToldInv says what a stamp is worth at any time; CurrentInv, that *)
(* the files compared so far are current; AnswerInv, that the answer is.   *)
(* The others say where a call is, what the pipes hold, and that a text    *)
(* read in a call is of that call, and not newer than the disk.            *)
(*                                                                         *)
(* CallReturns is only model-checked; CallsAdvance is its safety half.     *)
(***************************************************************************)
EXTENDS Sidecar, TLAPS

Plain == Texts \ {Overlay}

Workers ==
    [alive : BOOLEAN, over : Requests, read : [Files -> Plain], inbox : Seq(Requests), pipe : Seq(Requests)]

Types ==
    /\ setup \in Setups
    /\ disk \in [Files -> Plain] /\ saves \in 1 .. MaxSaves + 1
    /\ calls \in 0 .. MaxCalls
    /\ up \in BOOLEAN /\ stamps \in [Files -> Plain] /\ overlaid \subseteq Files
    /\ worker \in Workers
    /\ pc \in {"idle", "session", "revert", "stat", "wait", "broken", "late"}
    /\ attempt \in {0, 1}
    /\ want \subseteq files /\ files \subseteq Files
    /\ fresh \in BOOLEAN /\ todo \subseteq files
    /\ held \in {<<>>} \cup (Files \X Plain)
    /\ changed \in Requests /\ start \in [Files -> Plain] /\ begun \in 0 .. saves /\ gone \subseteq Files
    /\ missed \subseteq Files

\* The texts of the overrides once the worker has the changed ones.
Over == Told(worker.over, changed)

\* No text is newer than the last save.
SaveInv ==
    /\ \A f \in Files : disk[f] <= saves /\ stamps[f] <= saves /\ changed[f] <= saves
    /\ held # <<>> => held[2] <= saves

\* What the point a call has reached says of its variables.
PhaseInv ==
    /\ pc \notin {"idle", "session"} => up
    /\ pc = "idle" => changed = Nothing /\ todo = {}
    /\ pc = "session" /\ up => changed = Nothing
    /\ pc \notin {"revert", "stat"} => held = <<>>
    /\ pc = "revert" => todo = files \ want
    /\ pc = "stat" => todo \cap want = {} /\ (held # <<>> => held[1] \in files \ (want \cup todo))
    /\ pc = "wait" => todo = {}
    /\ pc \in {"stat", "wait"} => overlaid = want

\* The pipes hold the request of the call or its answer, and nothing between
\* two calls.
MailInv ==
    /\ worker.inbox = <<>> \/ \E r \in Requests : worker.inbox = <<r>>
    /\ worker.pipe = <<>> \/ \E r \in Requests : worker.pipe = <<r>>
    /\ worker.inbox = <<>> \/ worker.pipe = <<>>
    /\ worker.alive => up
    /\ up /\ pc \in {"idle", "session", "revert", "stat"} => worker.inbox = <<>> /\ worker.pipe = <<>>
    /\ pc \in {"wait", "broken", "late"} =>
        worker.inbox = <<changed>> \/ (worker.inbox = <<>> /\ Over = worker.over)

\* The text t of f was on the disk when the call began, or was saved since.
Recent(f, t) == t = start[f] \/ t > begun

\* The disk during a call.
DiskInv ==
    pc # "idle" =>
        /\ files = {f \in Files : start[f] # None}
        /\ \A f \in Files : Recent(f, disk[f]) \/ (disk[f] = None /\ f \in gone)

\* A text t of f that was read in this call, and was not newer than the disk.
ReadNow(f, t) == t \notin {None, Overlay} /\ f \notin want /\ Recent(f, t) /\ (disk[f] = None \/ t <= disk[f])

ChangedInv ==
    pc \in {"revert", "stat", "wait"} =>
        \A f \in Files :
            \/ changed[f] = None /\ (pc = "revert" \/ f \notin want)
            \/ changed[f] = Overlay /\ f \in want /\ pc # "revert"
            \/ ReadNow(f, changed[f])

HeldInv ==
    pc = "revert" /\ held # <<>> =>
        /\ held[1] \notin want \cup overlaid
        /\ held[2] = None \/ ReadNow(held[1], held[2])

Held == IF held = <<>> THEN {} ELSE {held[1]}

Reverted == IF pc = "revert" THEN Held ELSE {}

\* What the worker has been told of f is what the stamp stands for.
Right(f) ==
    /\ Over[f] # Overlay
    /\ disk[f] = None => Over[f] = None
    /\ disk[f] # None /\ stamps[f] = disk[f] => Known(f) = disk[f]

ToldInv == up => \A f \in Files \ (missed \cup overlaid \cup Reverted) : Right(f)

\* The files that are compared already.
CurrentInv ==
    pc \in {"stat", "wait"} => \A f \in Files \ (missed \cup todo \cup Held) : Current(f, Known(f))

AnswerInv ==
    pc = "wait" /\ worker.pipe # <<>> => \A f \in Files \ missed : Current(f, Head(worker.pipe)[f])

SInv ==
    /\ Types /\ SaveInv /\ PhaseInv /\ MailInv /\ DiskInv /\ ChangedInv /\ HeldInv
    /\ ToldInv /\ CurrentInv /\ AnswerInv
-------------------------------------------------------------------------------
\* The texts are integers, and those on the disk not negative.
LEMMA TextFacts ==
    /\ \A t \in Texts : t \in Int /\ t >= -1 /\ t <= MaxSaves + 1
    /\ \A t \in Plain : t \in Texts /\ t \in Nat /\ t # Overlay
    /\ \A t \in Texts : t # Overlay => t \in Plain
    /\ \A n \in 1 .. MaxSaves + 1 : n \in Plain
    /\ None \in Plain /\ Overlay \in Texts /\ None = 0 /\ Overlay = -1
  BY BoundAssumption DEF Texts, Plain, None, Overlay

\* The empty request and the empty stamps have their types.
LEMMA NothingType == Nothing \in [Files -> Plain] /\ Nothing \in Requests
  BY TextFacts DEF Nothing, Requests

\* The numbers of a state.
LEMMA Numbers ==
    ASSUME Types
    PROVE  /\ saves \in Nat /\ begun \in Nat /\ begun <= saves /\ saves <= MaxSaves + 1
           /\ held # <<>> => held[1] \in Files /\ held[2] \in Nat /\ held[2] \in Plain
           /\ \A f \in Files :
                /\ disk[f] \in Nat /\ stamps[f] \in Nat /\ start[f] \in Nat /\ worker.read[f] \in Nat
                /\ disk[f] \in Plain
                /\ changed[f] \in Int /\ changed[f] >= -1 /\ worker.over[f] \in Int /\ worker.over[f] >= -1
  <1>1. saves \in Nat /\ begun \in Nat /\ begun <= saves /\ saves <= MaxSaves + 1
    BY BoundAssumption DEF Types
  <1>2. held # <<>> => held[1] \in Files /\ held[2] \in Nat /\ held[2] \in Plain
    BY TextFacts, ZenonT(60) DEF Types
  <1>3. worker.over \in Requests /\ worker.read \in [Files -> Plain]
    BY DEF Types, Workers
  <1>4. ASSUME NEW f \in Files
        PROVE  /\ disk[f] \in Plain /\ stamps[f] \in Plain /\ start[f] \in Plain /\ worker.read[f] \in Plain
               /\ changed[f] \in Texts /\ worker.over[f] \in Texts
    BY <1>3 DEF Types, Requests
  <1>5. QED BY ZenonT(60), <1>1, <1>2, <1>4, TextFacts

\* What the worker knows of a file, now and after a step.
LEMMA KnownIs ==
    ASSUME NEW f \in Files
    PROVE  /\ Over[f] = IF changed[f] # None THEN changed[f] ELSE worker.over[f]
           /\ Over'[f] = IF changed'[f] # None THEN changed'[f] ELSE worker'.over[f]
           /\ Known(f) = IF Over[f] # None THEN Over[f]
                         ELSE IF worker.read[f] # None /\ disk[f] # None THEN worker.read[f] ELSE disk[f]
           /\ Known(f)' = IF Over'[f] # None THEN Over'[f]
                          ELSE IF worker'.read[f] # None /\ disk'[f] # None THEN worker'.read[f] ELSE disk'[f]
  BY DEF Over, Told, Known, Used

\* A pipe with no message and one with one.
LEMMA ShortLengths == Len(<<>>) = 0 /\ (\A r : Len(<<r>>) = 1) /\ (\A n \in {0, 1} : n <= 1)
  OBVIOUS

\* The fields of the worker.
LEMMA RecordFacts ==
    ASSUME Types
    PROVE  /\ worker \in Workers /\ worker.alive \in BOOLEAN /\ worker.over \in Requests
           /\ worker.read \in [Files -> Plain] /\ worker.inbox \in Seq(Requests) /\ worker.pipe \in Seq(Requests)
  BY DEF Types, Workers

\* Where no request is being made, there is little to show.
LEMMA BetweenCalls ==
    ASSUME pc' \in {"idle", "session"}
    PROVE  ChangedInv' /\ HeldInv' /\ CurrentInv' /\ AnswerInv' /\ (pc' = "idle" => DiskInv')
  BY DEF ChangedInv, HeldInv, CurrentInv, AnswerInv, DiskInv

\* The invariant holds before the first call.
THEOREM InitSInv == Init => SInv
  <1> SUFFICES ASSUME Init PROVE SInv
    OBVIOUS
  <1>1. worker = [alive |-> FALSE, over |-> Nothing, read |-> Nothing, inbox |-> <<>>, pipe |-> <<>>]
    BY ZenonT(60) DEF Init, NewWorker
  <1>2. worker \in Workers
    BY <1>1, NothingType DEF Workers
  <1>3. Types
    <2>1. disk \in [Files -> Plain]
      BY TextFacts, BoundAssumption DEF Init
    <2>2. saves \in 1 .. MaxSaves + 1 /\ calls \in 0 .. MaxCalls /\ begun \in 0 .. saves
      BY BoundAssumption DEF Init
    <2>3. QED BY <1>2, <2>1, <2>2, NothingType, ZenonT(60) DEF Types, Init
  <1>4. SaveInv
    BY DEF SaveInv, Init, Nothing, None
  <1>5. PhaseInv /\ DiskInv /\ ChangedInv /\ HeldInv /\ CurrentInv /\ AnswerInv /\ ToldInv
    BY DEF PhaseInv, DiskInv, ChangedInv, HeldInv, CurrentInv, AnswerInv, ToldInv, Init
  <1>6. MailInv
    BY <1>1 DEF MailInv, Init
  <1>7. QED BY <1>3, <1>4, <1>5, <1>6 DEF SInv

\* A file of the program that is not on the disk was deleted during the call.
LEMMA DeletedIsGone ==
    ASSUME Types, DiskInv, pc # "idle", NEW f \in files, disk[f] = None
    PROVE  f \in gone
  <1>1. f \in Files /\ start[f] # None
    BY DEF DiskInv
  <1>2. ~(None > begun)
    BY Numbers, TextFacts
  <1>3. QED BY <1>1, <1>2 DEF DiskInv, Recent

\* What the worker knows, while neither it nor the disk changes.
LEMMA SameKnown ==
    ASSUME worker'.over = worker.over, worker'.read = worker.read, changed' = changed, disk' = disk
    PROVE  Over' = Over /\ \A f \in Files : Known(f)' = Known(f)
  BY DEF Over, Told, Known, Used

\* A save is newer than every stamp, and its text than every text of before.
LEMMA SaveStep ==
    ASSUME SInv, NEW f \in Files, Save(f)
    PROVE  SInv'
  <1> DEFINE Same ==
        /\ setup' = setup /\ calls' = calls /\ up' = up /\ stamps' = stamps /\ overlaid' = overlaid
        /\ worker' = worker /\ pc' = pc /\ attempt' = attempt /\ want' = want /\ files' = files
        /\ start' = start /\ begun' = begun /\ fresh' = fresh /\ todo' = todo /\ held' = held
        /\ changed' = changed /\ gone' = gone /\ missed' = missed
  <1>1. Same /\ saves' = saves + 1 /\ saves <= MaxSaves /\ disk' = [disk EXCEPT ![f] = saves + 1]
    BY DEF Save, session, call, request
  <1>2. Types
    BY DEF SInv
  <1>3. disk'[f] = saves + 1 /\ \A g \in Files \ {f} : disk'[g] = disk[g]
    BY <1>1, <1>2 DEF Types
  <1>4. /\ disk'[f] \in Nat /\ disk'[f] > saves /\ disk'[f] > begun /\ disk'[f] # None
        /\ stamps[f] # disk'[f] /\ stamps[f] < disk'[f] /\ changed[f] < disk'[f]
        /\ held # <<>> => held[2] < disk'[f]
    BY <1>2, <1>3, Numbers, TextFacts DEF SInv, SaveInv
  <1>5. Types'
    <2>1. saves' \in 1 .. MaxSaves + 1 /\ begun \in 0 .. saves'
      BY <1>1, <1>2, Numbers, BoundAssumption
    <2>2. disk' \in [Files -> Plain]
      BY <1>1, <1>2, <2>1, TextFacts, ZenonT(60) DEF Types
    <2>3. QED BY <1>1, <1>2, <2>1, <2>2 DEF Types
  <1>6. SaveInv'
    BY <1>1, <1>2, <1>3, Numbers DEF SInv, SaveInv
  <1>7. PhaseInv' /\ MailInv'
    BY <1>1 DEF SInv, PhaseInv, MailInv, Over
  <1>8. DiskInv'
    BY <1>1, <1>3, <1>4, ZenonT(60) DEF SInv, DiskInv, Recent
  <1>9. ASSUME NEW g \in Files, NEW t \in Int, ReadNow(g, t), g = f => t < disk'[f]
        PROVE  t \notin {None, Overlay} /\ g \notin want /\ Recent(g, t) /\ (disk'[g] = None \/ t <= disk'[g])
    BY <1>3, <1>4, <1>9 DEF ReadNow
  <1>10. ChangedInv'
    <2>1. \A g \in Files : changed[g] \in Int /\ (g = f => changed[g] < disk'[f])
      BY ZenonT(60), <1>2, <1>4, Numbers
    <2>2. QED BY <1>1, <1>9, <2>1 DEF SInv, ChangedInv, ReadNow, Recent
  <1>11. HeldInv'
    <2>1. held # <<>> => held[1] \in Files /\ held[2] \in Int /\ (held[1] = f => held[2] < disk'[f])
      BY <1>2, <1>4, Numbers
    <2>2. QED BY <1>1, <1>9, <2>1, ZenonT(60) DEF SInv, HeldInv, ReadNow, Recent
  <1>12. ASSUME NEW g \in Files \ {f} PROVE Over'[g] = Over[g] /\ Known(g)' = Known(g)
    BY <1>1, <1>3, KnownIs
  <1>13. Over'[f] = Over[f]
    BY <1>1, KnownIs
  <1>14. ToldInv'
    <2> SUFFICES ASSUME up, NEW g \in Files, g \notin missed \cup overlaid \cup Reverted
                 PROVE  Right(g)'
      BY <1>1 DEF ToldInv, Reverted, Held
    <2>1. Right(g)
      BY ZenonT(60) DEF SInv, ToldInv
    <2>2. CASE g = f
      BY <1>1, <1>4, <1>13, <2>1, <2>2, ZenonT(60) DEF Right
    <2>3. CASE g # f
      BY <1>1, <1>3, <1>12, <2>1, <2>3 DEF Right
    <2>4. QED BY <2>2, <2>3
  <1>15. \A t : Current(f, t) => \/ f \in want /\ t = Overlay
                                 \/ f \in files \ want /\ (t = start[f] \/ t > begun)
                                 \/ f \notin files /\ (t = None \/ (disk'[f] > begun /\ t # Overlay))
                                 \/ f \in gone \ want /\ t # Overlay
    BY <1>4 DEF Current
  <1>16. CurrentInv'
    <2> SUFFICES ASSUME pc \in {"stat", "wait"}, NEW g \in Files, g \notin missed \cup todo \cup Held
                 PROVE  Current(g, Known(g))'
      BY <1>1 DEF CurrentInv, Held
    <2>1. Current(g, Known(g))
      BY ZenonT(60) DEF SInv, CurrentInv
    <2>2. CASE g # f
      BY <1>1, <1>3, <1>12, <2>1, <2>2, ZenonT(60) DEF Current
    <2>3. CASE g = f /\ Known(f)' = Known(f)
      BY <1>1, <1>15, <2>1, <2>3, ZenonT(60) DEF Current
    <2>4. CASE g = f /\ Known(f)' # Known(f)
      <3>1. Over[f] = None /\ f \notin want
        <4>1. Over[f] = None
          BY <1>13, <2>4, KnownIs
        <4>2. changed[f] = None
          BY <4>1, KnownIs
        <4>3. QED BY <4>1, <4>2, TextFacts DEF SInv, ChangedInv, ReadNow
      <3>2. CASE disk[f] # None
        <4>1. worker.read[f] = None
          BY <1>1, <1>4, <1>13, <2>4, <3>1, <3>2, KnownIs
        <4>2. Known(f)' = disk'[f]
          BY <1>1, <1>13, <3>1, <4>1, KnownIs
        <4>3. QED BY <1>1, <1>4, <2>4, <3>1, <4>2, TextFacts DEF Current
      <3>3. CASE disk[f] = None
        <4>1. Known(f)' # Overlay
          BY <1>1, <1>2, <1>4, <1>13, <3>1, KnownIs, Numbers, TextFacts
        <4>2. f \in files => f \in gone
          BY <1>2, <3>3, DeletedIsGone DEF SInv
        <4>3. QED BY <1>1, <1>4, <2>4, <3>1, <4>1, <4>2 DEF Current
      <3>4. QED BY <3>2, <3>3
    <2>5. QED BY <2>2, <2>3, <2>4
  <1>17. AnswerInv'
    <2> SUFFICES ASSUME pc = "wait", worker.pipe # <<>>, NEW g \in Files, g \notin missed
                 PROVE  Current(g, Head(worker.pipe)[g])'
      BY <1>1, ZenonT(60) DEF AnswerInv
    <2>1. Current(g, Head(worker.pipe)[g])
      BY ZenonT(60) DEF SInv, AnswerInv
    <2>2. CASE g # f
      BY <1>1, <1>3, <2>1, <2>2, ZenonT(60) DEF Current
    <2>3. CASE g = f
      BY <1>1, <1>15, <2>1, <2>3, ZenonT(60) DEF Current
    <2>4. QED BY <2>2, <2>3
  <1>18. QED
    BY <1>5, <1>6, <1>7, <1>8, <1>10, <1>11, <1>14, <1>16, <1>17 DEF SInv

\* A file the worker was told about and that is deleted, is missed.
LEMMA DeleteStep ==
    ASSUME SInv, NEW f \in Files, Delete(f)
    PROVE  SInv'
  <1> DEFINE Same ==
        /\ setup' = setup /\ saves' = saves /\ calls' = calls /\ up' = up /\ stamps' = stamps
        /\ overlaid' = overlaid /\ worker' = worker /\ pc' = pc /\ attempt' = attempt /\ want' = want
        /\ files' = files /\ start' = start /\ begun' = begun /\ fresh' = fresh /\ todo' = todo
        /\ held' = held /\ changed' = changed
  <1>1. /\ Same /\ disk[f] # None /\ disk' = [disk EXCEPT ![f] = None]
        /\ gone' = IF pc = "idle" THEN gone ELSE gone \cup {f}
        /\ missed' = IF Over[f] # None THEN missed \cup {f} ELSE missed
    BY DEF Delete, session, call, request, Over
  <1>2. Types
    BY DEF SInv
  <1>3. disk'[f] = None /\ \A g \in Files \ {f} : disk'[g] = disk[g]
    BY <1>1, <1>2 DEF Types
  <1>4. Types'
    <2>1. disk' \in [Files -> Plain]
      BY <1>1, <1>2, TextFacts DEF Types
    <2>2. QED BY <1>1, <1>2, <2>1 DEF Types
  <1>5. SaveInv'
    BY <1>1, <1>2, <1>3, Numbers, TextFacts DEF SInv, SaveInv
  <1>6. PhaseInv' /\ MailInv'
    BY <1>1 DEF SInv, PhaseInv, MailInv, Over
  <1>7. DiskInv'
    BY <1>1, <1>3 DEF SInv, DiskInv, Recent
  <1>8. ChangedInv'
    BY <1>1, <1>3 DEF SInv, ChangedInv, ReadNow, Recent
  <1>9. HeldInv'
    <2>1. held # <<>> => held[1] \in Files
      BY <1>2, Numbers
    <2>2. QED BY <1>1, <1>3, <2>1 DEF SInv, HeldInv, ReadNow, Recent
  <1>10. ASSUME NEW g \in Files
         PROVE  Over'[g] = Over[g] /\ (g # f => Known(g)' = Known(g)) /\ (Over[g] # None => Known(g)' = Known(g))
    BY <1>1, <1>3, KnownIs
  <1>11. ToldInv'
    <2> SUFFICES ASSUME up, NEW g \in Files, g \notin missed' \cup overlaid \cup Reverted
                 PROVE  Right(g)'
      BY <1>1, ZenonT(60) DEF ToldInv, Reverted, Held
    <2>1. Right(g)
      BY <1>1, ZenonT(60) DEF SInv, ToldInv
    <2>2. CASE g = f
      BY <1>1, <1>3, <1>10, <2>1, <2>2, ZenonT(60) DEF Right
    <2>3. CASE g # f
      BY <1>1, <1>3, <1>10, <2>1, <2>3 DEF Right
    <2>4. QED BY <2>2, <2>3
  <1>12. CurrentInv'
    <2> SUFFICES ASSUME pc \in {"stat", "wait"}, NEW g \in Files, g \notin missed' \cup todo \cup Held
                 PROVE  Current(g, Known(g))'
      BY <1>1, ZenonT(60) DEF CurrentInv, Held
    <2>1. Current(g, Known(g))
      BY <1>1, ZenonT(60) DEF SInv, CurrentInv
    <2>2. CASE g # f
      BY <1>1, <1>3, <1>10, <2>1, <2>2, ZenonT(60) DEF Current
    <2>3. CASE g = f
      <3>1. Over[f] = None
        BY ZenonT(60), <1>1, <2>3
      <3>2. changed[f] = None
        BY ZenonT(60), <3>1, KnownIs
      <3>3. f \notin want
        BY <3>2, TextFacts, ZenonT(60) DEF SInv, ChangedInv, ReadNow
      <3>4. Known(f)' = None
        BY ZenonT(60), <1>3, <1>10, <3>1, KnownIs
      <3>5. QED BY <1>1, <2>3, <3>3, <3>4, TextFacts, ZenonT(60) DEF Current
    <2>4. QED BY ZenonT(60), <2>2, <2>3
  <1>13. AnswerInv'
    <2> SUFFICES ASSUME pc = "wait", worker.pipe # <<>>, NEW g \in Files, g \notin missed'
                 PROVE  Current(g, Head(worker.pipe)[g])'
      BY <1>1, ZenonT(60) DEF AnswerInv
    <2>1. Current(g, Head(worker.pipe)[g])
      BY <1>1, ZenonT(60) DEF SInv, AnswerInv
    <2>2. want \subseteq files
      BY <1>2 DEF Types
    <2>3. QED BY <1>1, <1>3, <2>1, <2>2, ZenonT(60) DEF Current
  <1>14. QED BY <1>4, <1>5, <1>6, <1>7, <1>8, <1>9, <1>11, <1>12, <1>13 DEF SInv

\* The worker applies what the client sent, and nothing else: what it knows
\* stays the same.
LEMMA HandleStep ==
    ASSUME SInv, Handle
    PROVE  SInv'
  <1> DEFINE Same ==
        /\ setup' = setup /\ disk' = disk /\ saves' = saves /\ calls' = calls /\ up' = up
        /\ stamps' = stamps /\ overlaid' = overlaid /\ pc' = pc /\ attempt' = attempt /\ want' = want
        /\ files' = files /\ start' = start /\ begun' = begun /\ fresh' = fresh /\ todo' = todo
        /\ held' = held /\ changed' = changed /\ gone' = gone /\ missed' = missed
  <1>1. Same /\ worker.alive /\ worker.inbox # <<>>
    BY DEF Handle, session, call, request
  <1>2. Types
    BY ZenonT(60) DEF SInv
  <1>3. up /\ pc \in {"wait", "broken", "late"} /\ worker.inbox = <<changed>> /\ worker.pipe = <<>>
    BY <1>1, <1>2 DEF SInv, MailInv, Types
  <1>4. Head(worker.inbox) = changed /\ Tail(worker.inbox) = <<>>
    BY <1>3
  <1> DEFINE used == [f \in Files |-> Known(f)]
             read == [f \in Files |-> IF Over[f] = None /\ worker.read[f] = None THEN disk[f] ELSE worker.read[f]]
  <1>5. worker' = [worker EXCEPT !.inbox = <<>>, !.over = Over, !.read = read, !.pipe = Append(worker.pipe, used)]
    BY <1>4, ZenonT(60) DEF Handle, Over, Known
  <1>6. Append(worker.pipe, used) = <<used>>
    BY <1>3
  <1>7. Over \in Requests /\ read \in [Files -> Plain] /\ used \in Requests
    <2>1. \A f \in Files :
            /\ changed[f] \in Texts /\ worker.over[f] \in Texts
            /\ disk[f] \in Plain /\ worker.read[f] \in Plain
      BY <1>2, RecordFacts DEF Types, Requests
    <2>2. \A f \in Files : Over[f] \in Texts
      BY <2>1, KnownIs
    <2>3. Over \in Requests
      BY <2>2 DEF Over, Told, Requests
    <2>4. \A f \in Files : Known(f) \in Texts
      BY ZenonT(60), <2>1, <2>2, KnownIs, TextFacts
    <2>5. QED BY <2>1, <2>3, <2>4 DEF Requests
  <1>8. /\ worker' \in Workers
        /\ worker'.alive = worker.alive /\ worker'.over = Over /\ worker'.read = read
        /\ worker'.inbox = <<>> /\ worker'.pipe = <<used>>
    <2>1. <<used>> \in Seq(Requests) /\ <<>> \in Seq(Requests)
      BY <1>7
    <2> HIDE DEF used, read
    <2>2. QED BY <1>2, <1>5, <1>6, <1>7, <2>1, RecordFacts, ZenonT(60) DEF Workers
  <1>9. \A f \in Files : used[f] = Known(f) /\
            read[f] = IF Over[f] = None /\ worker.read[f] = None THEN disk[f] ELSE worker.read[f]
    OBVIOUS
  <1> HIDE DEF used, read
  <1>10. Types'
    BY <1>1, <1>2, <1>8 DEF Types
  <1>11. SaveInv' /\ PhaseInv' /\ DiskInv' /\ ChangedInv' /\ HeldInv'
    BY <1>1, ZenonT(60) DEF SInv, SaveInv, PhaseInv, DiskInv, ChangedInv, HeldInv, Recent, ReadNow
  <1>12. \A f \in Files : Over'[f] = Over[f]
    BY <1>1, <1>8, KnownIs
  <1>13. Over' = worker'.over
    <2>1. Over' = [f \in Files |-> IF changed'[f] # None THEN changed'[f] ELSE worker'.over[f]]
      BY ZenonT(60) DEF Over, Told
    <2>2. \A f \in Files : (IF changed'[f] # None THEN changed'[f] ELSE worker'.over[f]) = Over[f]
      BY <1>12, KnownIs
    <2>3. Over = [f \in Files |-> Over[f]]
      BY ZenonT(60) DEF Over, Told
    <2>4. QED BY ZenonT(60), <1>8, <2>1, <2>2, <2>3
  <1>14. MailInv'
    BY <1>1, <1>3, <1>7, <1>8, <1>13, ZenonT(60) DEF MailInv
  <1>15. \A f \in Files : Known(f)' = Known(f)
    <2> SUFFICES ASSUME NEW f \in Files PROVE Known(f)' = Known(f)
      OBVIOUS
    <2>1. Over'[f] = Over[f] /\ disk' = disk
      BY <1>1, <1>12
    <2>2. worker'.read[f] = IF Over[f] = None /\ worker.read[f] = None THEN disk[f] ELSE worker.read[f]
      BY <1>8, <1>9
    <2>3. QED BY <2>1, <2>2, KnownIs
  <1>16. ToldInv'
    BY <1>1, <1>12, <1>15 DEF SInv, ToldInv, Right, Reverted, Held
  <1>17. CurrentInv'
    BY <1>1, <1>15 DEF SInv, CurrentInv, Current, Held
  <1>18. AnswerInv'
    <2> SUFFICES ASSUME pc = "wait", NEW f \in Files, f \notin missed
                 PROVE  Current(f, Head(worker.pipe)[f])'
      BY <1>1 DEF AnswerInv
    <2>1. Head(worker'.pipe)[f] = Known(f)
      BY <1>8, <1>9
    <2>2. f \notin todo \cup Held
      BY DEF SInv, PhaseInv, Held
    <2>3. Current(f, Known(f))
      BY <2>2 DEF SInv, CurrentInv
    <2>4. QED BY <1>1, <2>1, <2>3, ZenonT(60) DEF Current
  <1>19. QED BY <1>10, <1>11, <1>14, <1>16, <1>17, <1>18 DEF SInv

\* A worker that ends changes nothing of what the client believes.
LEMMA DieStep ==
    ASSUME SInv, Die
    PROVE  SInv'
  <1> DEFINE Same ==
        /\ setup' = setup /\ disk' = disk /\ saves' = saves /\ calls' = calls /\ up' = up
        /\ stamps' = stamps /\ overlaid' = overlaid /\ pc' = pc /\ attempt' = attempt /\ want' = want
        /\ files' = files /\ start' = start /\ begun' = begun /\ fresh' = fresh /\ todo' = todo
        /\ held' = held /\ changed' = changed /\ gone' = gone /\ missed' = missed
  <1>1. Same /\ worker' = [worker EXCEPT !.alive = FALSE]
    BY DEF Die, session, call, request
  <1>2. Types
    BY DEF SInv
  <1>3. /\ worker' \in Workers /\ worker'.alive = FALSE /\ worker'.over = worker.over
        /\ worker'.read = worker.read /\ worker'.inbox = worker.inbox /\ worker'.pipe = worker.pipe
    BY <1>1, <1>2, RecordFacts, ZenonT(60) DEF Workers
  <1>4. Types'
    BY <1>1, <1>2, <1>3 DEF Types
  <1>5. SaveInv' /\ PhaseInv' /\ DiskInv' /\ ChangedInv' /\ HeldInv'
    BY <1>1 DEF SInv, SaveInv, PhaseInv, DiskInv, ChangedInv, HeldInv, Recent, ReadNow
  <1>6. Over' = Over /\ \A f \in Files : Known(f)' = Known(f)
    BY <1>1, <1>3 DEF Over, Told, Known, Used
  <1>7. MailInv'
    BY <1>1, <1>3, <1>6 DEF SInv, MailInv
  <1>8. ToldInv' /\ CurrentInv' /\ AnswerInv'
    BY <1>1, <1>3, <1>6 DEF SInv, ToldInv, Right, Reverted, Held, CurrentInv, Current, AnswerInv
  <1>9. QED BY <1>4, <1>5, <1>7, <1>8 DEF SInv

\* A call begins with the texts that are on the disk.
LEMMA CallStep ==
    ASSUME SInv, NEW O \in SUBSET Files, Call(O)
    PROVE  SInv'
  <1> DEFINE Same ==
        /\ setup' = setup /\ disk' = disk /\ saves' = saves /\ up' = up
        /\ stamps' = stamps /\ overlaid' = overlaid /\ worker' = worker /\ fresh' = fresh /\ todo' = todo
        /\ held' = held /\ changed' = changed /\ missed' = missed
  <1>1. /\ Same /\ pc = "idle" /\ pc' = "session" /\ calls < MaxCalls /\ calls' = calls + 1
        /\ files' = {f \in Files : disk[f] # None} /\ want' = O \cap files'
        /\ start' = disk /\ begun' = saves /\ gone' = {} /\ attempt' = 0
    BY DEF Call, session, request
  <1>2. Types
    BY DEF SInv
  <1>3. Types'
    <2>1. calls' \in 0 .. MaxCalls /\ begun' \in 0 .. saves'
      BY <1>1, <1>2, BoundAssumption DEF Types
    <2>2. todo \subseteq files'
      BY <1>1, <1>2 DEF SInv, PhaseInv
    <2>3. QED BY <1>1, <1>2, <2>1, <2>2 DEF Types
  <1>4. SaveInv' /\ PhaseInv'
    BY <1>1, ZenonT(60) DEF SInv, SaveInv, PhaseInv
  <1>5. MailInv'
    BY <1>1, ZenonT(60) DEF SInv, MailInv
  <1>6. DiskInv'
    BY <1>1, ZenonT(60) DEF DiskInv, Recent
  <1>7. ToldInv'
    BY <1>1, ZenonT(60) DEF SInv, ToldInv, Right, Reverted, Over, Known, Used
  <1>8. QED BY <1>1, <1>3, <1>4, <1>5, <1>6, <1>7, BetweenCalls DEF SInv

\* A session that is there is used as it is; a new one has no stamps, and
\* its worker no text.
LEMMA SessionStep ==
    ASSUME SInv, Session
    PROVE  SInv'
  <1> DEFINE Same ==
        /\ setup' = setup /\ disk' = disk /\ saves' = saves /\ calls' = calls /\ attempt' = attempt
        /\ want' = want /\ files' = files /\ start' = start /\ begun' = begun /\ gone' = gone
  <1>1. /\ Same /\ pc = "session" /\ pc' = "revert" /\ up' = TRUE
        /\ todo' = files \ want /\ changed' = Nothing /\ held' = <<>> /\ fresh' \in BOOLEAN
    BY ZenonT(60) DEF Session, session, call, SInv, Types
  <1>2. Types
    BY DEF SInv
  <1>3. \/ /\ up /\ stamps' = stamps /\ overlaid' = overlaid /\ worker' = worker /\ missed' = missed
           /\ changed' = changed
        \/ stamps' = Nothing /\ overlaid' = {} /\ worker' = NewWorker /\ missed' = {}
    BY <1>1, ZenonT(60) DEF Session, session, SInv, PhaseInv
  <1>4. NewWorker \in Workers
    BY NothingType DEF NewWorker, Workers
  <1>5. Types'
    <2>1. worker' \in Workers /\ stamps' \in [Files -> Plain]
      BY <1>2, <1>3, <1>4, NothingType, ZenonT(60) DEF Types
    <2>2. QED BY <1>1, <1>2, <1>3, <2>1, NothingType, ZenonT(60) DEF Types
  <1>6. SaveInv'
    <2>1. None <= saves
      BY <1>2, Numbers, TextFacts
    <2>2. \A f \in Files : Nothing[f] <= saves
      BY <2>1 DEF Nothing
    <2>3. QED BY <1>1, <1>3, <2>2, ZenonT(60) DEF SInv, SaveInv
  <1>7. PhaseInv'
    BY <1>1, ZenonT(60) DEF PhaseInv
  <1>8. MailInv'
    BY <1>1, <1>3 DEF SInv, MailInv, NewWorker
  <1>9. DiskInv'
    BY <1>1, ZenonT(60) DEF SInv, DiskInv, Recent
  <1>10. ChangedInv' /\ HeldInv' /\ CurrentInv' /\ AnswerInv'
    BY <1>1 DEF ChangedInv, HeldInv, CurrentInv, AnswerInv, Nothing
  <1>11. ToldInv'
    <2>1. CASE /\ up /\ stamps' = stamps /\ overlaid' = overlaid /\ worker' = worker
               /\ missed' = missed /\ changed' = changed
      BY <1>1, <2>1 DEF SInv, ToldInv, Right, Reverted, Held, Over, Known, Used
    <2>2. CASE stamps' = Nothing /\ worker' = NewWorker
      <3> SUFFICES ASSUME NEW f \in Files PROVE Right(f)'
        BY ZenonT(60) DEF ToldInv
      <3>1. changed'[f] = None /\ worker'.over[f] = None /\ stamps'[f] = None
        BY <1>1, <2>2, ZenonT(60) DEF NewWorker, Nothing
      <3>2. Over'[f] = None
        BY ZenonT(60), <3>1, KnownIs
      <3>3. QED BY <3>1, <3>2, TextFacts DEF Right
    <2>3. QED BY ZenonT(60), <1>3, <2>1, <2>2
  <1>12. QED BY <1>5, <1>6, <1>7, <1>8, <1>9, <1>10, <1>11, ZenonT(60) DEF SInv

\* What a call leaves when it returns, apart from its session.
LEMMA ReturnStep ==
    ASSUME SInv, Return, worker' \in Workers, up' \in BOOLEAN, missed' \subseteq Files,
           setup' = setup, disk' = disk, saves' = saves, calls' = calls, stamps' = stamps, overlaid' = overlaid
    PROVE  /\ Types' /\ SaveInv' /\ PhaseInv' /\ DiskInv' /\ ChangedInv' /\ HeldInv' /\ CurrentInv' /\ AnswerInv'
           /\ pc' = "idle" /\ changed' = Nothing
  <1>1. Types
    BY ZenonT(60) DEF SInv
  <1>2. Types'
    <2>1. begun' \in 0 .. saves'
      BY <1>1, Numbers DEF Return
    <2>2. QED BY <1>1, <2>1, NothingType, ZenonT(60) DEF Types, Return
  <1>3. SaveInv'
    <2>1. \A f \in Files : Nothing[f] <= saves
      BY <1>1, Numbers, TextFacts DEF Nothing
    <2>2. QED BY <2>1 DEF SInv, SaveInv, Return
  <1>4. PhaseInv'
    BY DEF PhaseInv, Return
  <1>5. pc' = "idle" /\ changed' = Nothing
    BY DEF Return
  <1>6. QED BY <1>2, <1>3, <1>4, <1>5, BetweenCalls

\* No session, no worker.
LEMMA SpawnFailsStep ==
    ASSUME SInv, SpawnFails
    PROVE  SInv'
  <1>1. /\ Return /\ setup' = setup /\ disk' = disk /\ saves' = saves /\ calls' = calls /\ missed' = missed
        /\ stamps' = stamps /\ overlaid' = overlaid /\ worker' = worker /\ up' = up /\ ~up
    BY DEF SpawnFails, session
  <1>2. worker' \in Workers /\ up' \in BOOLEAN /\ missed' \subseteq Files
    BY <1>1 DEF SInv, Types
  <1>3. /\ Types' /\ SaveInv' /\ PhaseInv' /\ DiskInv' /\ ChangedInv' /\ HeldInv' /\ CurrentInv' /\ AnswerInv'
        /\ pc' = "idle" /\ changed' = Nothing
    BY <1>1, <1>2, ReturnStep
  <1>4. MailInv'
    BY <1>1, <1>3 DEF SInv, MailInv
  <1>5. ToldInv'
    BY <1>1 DEF ToldInv
  <1>6. QED BY <1>3, <1>4, <1>5 DEF SInv

\* An overlay that is not asked for again is read before it is stamped.
LEMMA RevertReadStep ==
    ASSUME SInv, NEW f \in Files, RevertRead(f)
    PROVE  SInv'
  <1> DEFINE Same ==
        /\ setup' = setup /\ disk' = disk /\ saves' = saves /\ calls' = calls /\ up' = up
        /\ stamps' = stamps /\ worker' = worker /\ pc' = pc /\ attempt' = attempt /\ want' = want
        /\ files' = files /\ start' = start /\ begun' = begun /\ fresh' = fresh /\ todo' = todo
        /\ changed' = changed /\ gone' = gone /\ missed' = missed
  <1>1. /\ Same /\ pc = "revert" /\ held = <<>> /\ f \in overlaid /\ f \notin want
        /\ overlaid' = overlaid \ {f} /\ held' = <<f, disk[f]>>
    BY ZenonT(60) DEF RevertRead, call, Dropped
  <1>2. Types
    BY DEF SInv
  <1>3. held' # <<>> /\ held'[1] = f /\ held'[2] = disk[f] /\ disk[f] \in Plain
    BY ZenonT(60), <1>1, <1>2, Numbers
  <1>4. Types'
    <2>1. held' \in Files \X Plain
      BY ZenonT(60), <1>1, <1>3
    <2>2. QED BY <1>1, <1>2, <2>1, ZenonT(60) DEF Types
  <1>5. SaveInv'
    BY <1>1, <1>3, ZenonT(60) DEF SInv, SaveInv
  <1>6. PhaseInv' /\ MailInv' /\ DiskInv' /\ ChangedInv'
    BY <1>1, ZenonT(60) DEF SInv, PhaseInv, MailInv, Over, DiskInv, ChangedInv, Recent, ReadNow
  <1>7. HeldInv'
    <2>1. disk[f] # None => Recent(f, disk[f])
      BY <1>1, ZenonT(60) DEF SInv, DiskInv
    <2>2. disk[f] # Overlay /\ disk[f] <= disk[f]
      BY <1>2, Numbers, TextFacts
    <2>3. QED BY <1>1, <1>3, <2>1, <2>2, ZenonT(60) DEF HeldInv, ReadNow, Recent
  <1>8. ToldInv'
    BY <1>1, <1>3 DEF SInv, ToldInv, Right, Reverted, Held, Over, Known, Used
  <1>9. CurrentInv' /\ AnswerInv'
    BY <1>1, ZenonT(60) DEF CurrentInv, AnswerInv
  <1>10. QED BY <1>4, <1>5, <1>6, <1>7, <1>8, <1>9, ZenonT(60) DEF SInv

\* Its text goes to the worker with the stamp, unless the file was saved in
\* between or is gone.
LEMMA RevertStatStep ==
    ASSUME SInv, RevertStat
    PROVE  SInv'
  <1> SUFFICES ASSUME NEW f, NEW text, f = held[1], text = held[2] PROVE SInv'
    BY ZenonT(60)
  <1> DEFINE ok == text # None /\ disk[f] # None
             Same ==
        /\ setup' = setup /\ disk' = disk /\ saves' = saves /\ calls' = calls /\ up' = up
        /\ overlaid' = overlaid /\ worker' = worker /\ pc' = pc /\ attempt' = attempt /\ want' = want
        /\ files' = files /\ start' = start /\ begun' = begun /\ fresh' = fresh /\ todo' = todo
        /\ gone' = gone
  <1>1. /\ Same /\ pc = "revert" /\ held # <<>> /\ held' = <<>>
        /\ stamps' = [stamps EXCEPT ![f] = IF ok THEN disk[f] ELSE None]
        /\ changed' = [changed EXCEPT ![f] = IF ok THEN text ELSE None]
        /\ missed' = IF ok /\ text = disk[f] THEN missed ELSE missed \cup {f}
    BY DEF RevertStat, call
  <1>2. Types
    BY ZenonT(60) DEF SInv
  <1>3. f \in Files /\ text \in Plain /\ disk[f] \in Plain /\ text \in Texts /\ text # Overlay
    BY ZenonT(60), <1>1, <1>2, Numbers, TextFacts
  <1>4. f \notin want \cup overlaid /\ (text = None \/ ReadNow(f, text)) /\ text <= saves
    BY <1>1, ZenonT(60) DEF SInv, HeldInv, SaveInv
  <1>5. /\ stamps'[f] = (IF ok THEN disk[f] ELSE None) /\ changed'[f] = (IF ok THEN text ELSE None)
        /\ \A g \in Files \ {f} : stamps'[g] = stamps[g] /\ changed'[g] = changed[g]
    BY <1>1, <1>2, <1>3, ZenonT(60) DEF Types, Requests
  <1>6. Types'
    <2>1. stamps' \in [Files -> Plain] /\ changed' \in Requests
      BY <1>1, <1>2, <1>3, TextFacts, ZenonT(60) DEF Types, Requests
    <2>2. QED BY <1>1, <1>2, <1>3, <2>1, ZenonT(60) DEF Types
  <1>7. SaveInv'
    BY <1>1, <1>2, <1>3, <1>4, <1>5, Numbers, TextFacts DEF SInv, SaveInv
  <1>8. PhaseInv' /\ DiskInv'
    BY <1>1, ZenonT(60) DEF SInv, PhaseInv, DiskInv, Recent
  <1>9. MailInv'
    BY <1>1, ZenonT(60) DEF SInv, MailInv, PhaseInv
  <1>10. ChangedInv'
    BY <1>1, <1>3, <1>4, <1>5, ZenonT(60) DEF SInv, ChangedInv, ReadNow, Recent
  <1>11. HeldInv' /\ CurrentInv' /\ AnswerInv'
    BY <1>1 DEF HeldInv, CurrentInv, AnswerInv
  <1>12. ToldInv'
    <2> SUFFICES ASSUME NEW g \in Files, g \notin missed' \cup overlaid PROVE Right(g)'
      BY <1>1, ZenonT(60) DEF ToldInv, Reverted, Held
    <2>1. CASE g = f
      <3>1. ok /\ text = disk[f]
        BY ZenonT(60), <1>1, <2>1
      <3>2. Over'[f] = disk[f]
        BY ZenonT(60), <1>3, <1>5, <3>1, KnownIs
      <3>3. QED BY <1>1, <1>3, <2>1, <3>1, <3>2, KnownIs, ZenonT(60) DEF Right
    <2>2. CASE g # f
      <3>1. Right(g)
        BY <1>1, <2>2, ZenonT(60) DEF SInv, ToldInv, Reverted, Held, PhaseInv
      <3>2. Over'[g] = Over[g] /\ Known(g)' = Known(g)
        BY <1>1, <1>5, <2>2, KnownIs
      <3>3. QED BY <1>1, <1>5, <2>2, <3>1, <3>2, ZenonT(60) DEF Right
    <2>3. QED BY ZenonT(60), <2>1, <2>2
  <1>13. QED BY <1>6, <1>7, <1>8, <1>9, <1>10, <1>11, <1>12 DEF SInv

\* A file outside the call's program may be used as the worker has it.
LEMMA OutsideIsCurrent ==
    ASSUME SInv, pc # "idle", NEW f \in Files, f \notin files, Right(f)
    PROVE  Current(f, Known(f))
  <1>1. Types
    BY ZenonT(60) DEF SInv
  <1>2. disk[f] = None \/ disk[f] > begun
    BY ZenonT(60) DEF SInv, DiskInv, Recent
  <1>3. CASE disk[f] = None
    BY <1>3, KnownIs, ZenonT(60) DEF Right, Current
  <1>4. CASE disk[f] # None
    <2>1. Known(f) # Overlay
      BY <1>1, KnownIs, Numbers, TextFacts DEF Right
    <2>2. QED BY <1>2, <1>4, <2>1, ZenonT(60) DEF Current
  <1>5. QED BY <1>3, <1>4

\* From here on the overlays of the worker are those of the call.
LEMMA ShipStep ==
    ASSUME SInv, ShipOverlays
    PROVE  SInv'
  <1> DEFINE Same ==
        /\ setup' = setup /\ disk' = disk /\ saves' = saves /\ calls' = calls /\ up' = up
        /\ stamps' = stamps /\ worker' = worker /\ attempt' = attempt /\ want' = want
        /\ files' = files /\ start' = start /\ begun' = begun /\ fresh' = fresh /\ todo' = todo
        /\ held' = held /\ gone' = gone /\ missed' = missed
  <1>1. /\ Same /\ pc = "revert" /\ pc' = "stat" /\ held = <<>> /\ overlaid \subseteq want /\ overlaid' = want
        /\ changed' = [f \in Files |-> IF f \in want THEN Overlay ELSE changed[f]]
    BY ZenonT(60) DEF ShipOverlays, call, Dropped
  <1>2. Types
    BY DEF SInv
  <1>3. \A f \in Files : changed'[f] = IF f \in want THEN Overlay ELSE changed[f]
    BY ZenonT(60), <1>1
  <1>4. Types'
    <2>1. changed' \in Requests
      BY <1>1, <1>2, TextFacts, ZenonT(60) DEF Types, Requests
    <2>2. want \subseteq Files
      BY <1>2, ZenonT(60) DEF Types
    <2>3. QED BY <1>1, <1>2, <2>1, <2>2, ZenonT(60) DEF Types
  <1>5. SaveInv'
    BY <1>1, <1>2, <1>3, Numbers, TextFacts DEF SInv, SaveInv
  <1>6. PhaseInv'
    BY <1>1, ZenonT(60) DEF SInv, PhaseInv
  <1>7. MailInv'
    BY <1>1, ZenonT(60) DEF SInv, MailInv, PhaseInv
  <1>8. DiskInv'
    BY <1>1, ZenonT(60) DEF SInv, DiskInv, Recent
  <1>9. ChangedInv'
    BY <1>1, <1>3, ZenonT(60) DEF SInv, ChangedInv, ReadNow, Recent
  <1>10. HeldInv' /\ AnswerInv'
    BY <1>1, ZenonT(60) DEF HeldInv, AnswerInv
  <1>11. ASSUME NEW f \in Files \ want PROVE Over'[f] = Over[f] /\ Known(f)' = Known(f)
    BY <1>1, <1>3, KnownIs
  <1>12. \A f \in Files \ (missed \cup want) : Right(f)
    BY <1>1, ZenonT(60) DEF SInv, ToldInv, Reverted, Held, PhaseInv
  <1>13. ToldInv'
    BY <1>1, <1>11, <1>12, ZenonT(60) DEF ToldInv, Right, Reverted
  <1>14. CurrentInv'
    <2> SUFFICES ASSUME NEW f \in Files, f \notin missed \cup todo PROVE Current(f, Known(f))'
      BY <1>1, ZenonT(60) DEF CurrentInv
    <2>1. f \in want \/ (f \notin want /\ f \notin files)
      BY <1>1, ZenonT(60) DEF SInv, PhaseInv
    <2>2. CASE f \in want
      <3>1. Known(f)' = Overlay
        BY ZenonT(60), <1>3, <2>2, KnownIs, TextFacts
      <3>2. QED BY <1>1, <2>2, <3>1, ZenonT(60) DEF Current
    <2>3. CASE f \notin want /\ f \notin files
      <3>1. Current(f, Known(f))
        BY ZenonT(60), <1>1, <1>12, <2>3, OutsideIsCurrent
      <3>2. QED BY <1>1, <1>11, <2>3, <3>1, ZenonT(60) DEF Current
    <2>4. QED BY ZenonT(60), <2>1, <2>2, <2>3
  <1>15. QED BY <1>4, <1>5, <1>6, <1>7, <1>8, <1>9, <1>10, <1>13, <1>14, ZenonT(60) DEF SInv

\* A file that is passed over is gone, or the worker has its text, or it is
\* missed.
LEMMA StatStep ==
    ASSUME SInv, NEW f \in Files, Stat(f)
    PROVE  SInv'
  <1> DEFINE Same ==
        /\ setup' = setup /\ disk' = disk /\ saves' = saves /\ calls' = calls /\ up' = up
        /\ overlaid' = overlaid /\ worker' = worker /\ pc' = pc /\ attempt' = attempt /\ want' = want
        /\ files' = files /\ start' = start /\ begun' = begun /\ fresh' = fresh
        /\ changed' = changed /\ gone' = gone
             Gone == disk[f] = None /\ stamps' = stamps /\ held' = held /\ missed' = missed
             Stamped ==
        /\ disk[f] # None /\ (fresh \/ stamps[f] = disk[f]) /\ held' = held
        /\ stamps' = [stamps EXCEPT ![f] = disk[f]]
        /\ missed' = IF fresh /\ Known(f) # disk[f] THEN missed \cup {f} ELSE missed
             Taken == disk[f] # None /\ held' = <<f, disk[f]>> /\ stamps' = stamps /\ missed' = missed
  <1>1. Same /\ pc = "stat" /\ held = <<>> /\ f \in todo /\ todo' = todo \ {f}
    BY ZenonT(60) DEF Stat, call
  <1>2. Gone \/ Stamped \/ Taken
    BY ZenonT(60) DEF Stat, Differs
  <1> HIDE DEF Gone, Stamped, Taken
  <1>3. Types
    BY DEF SInv
  <1>4. f \in files /\ f \notin want /\ overlaid = want /\ up /\ disk[f] \in Plain /\ disk[f] <= saves
    BY <1>1, <1>3, Numbers, ZenonT(60) DEF SInv, PhaseInv, SaveInv, Types
  <1>5. /\ stamps' \in [Files -> Plain] /\ \A g \in Files : stamps'[g] = stamps[g] \/ (g = f /\ stamps'[g] = disk[f])
        /\ Gone \/ Taken => stamps' = stamps
    BY <1>2, <1>3, <1>4, ZenonT(60) DEF Types, Gone, Stamped, Taken
  <1>6. held' = <<>> \/ (Taken /\ held' = <<f, disk[f]>> /\ held'[1] = f /\ held'[2] = disk[f])
    BY <1>1, <1>2 DEF Gone, Stamped, Taken
  <1>7. missed \subseteq missed' /\ missed' \subseteq missed \cup {f}
    BY <1>2, ZenonT(60) DEF Gone, Stamped, Taken
  <1>8. Types'
    <2>1. held' \in {<<>>} \cup (Files \X Plain)
      BY ZenonT(60), <1>4, <1>6
    <2>2. missed' \subseteq Files /\ todo' \subseteq files
      BY <1>1, <1>3, <1>7, ZenonT(60) DEF Types
    <2>3. QED BY <1>1, <1>3, <1>5, <2>1, <2>2, ZenonT(60) DEF Types
  <1>9. SaveInv'
    BY <1>1, <1>4, <1>5, <1>6, ZenonT(60) DEF SInv, SaveInv
  <1>10. PhaseInv'
    BY <1>1, <1>4, <1>6, ZenonT(60) DEF SInv, PhaseInv
  <1>11. MailInv' /\ DiskInv' /\ ChangedInv'
    BY <1>1, ZenonT(60) DEF SInv, MailInv, Over, DiskInv, ChangedInv, Recent, ReadNow
  <1>12. HeldInv' /\ AnswerInv'
    BY <1>1, ZenonT(60) DEF HeldInv, AnswerInv
  <1>13. Over' = Over /\ \A g \in Files : Known(g)' = Known(g)
    BY <1>1, ZenonT(60) DEF Over, Known, Used
  <1>14. \A g \in Files \ (missed \cup want) : Right(g)
    BY <1>1, <1>4, ZenonT(60) DEF SInv, ToldInv, Reverted
  <1>15. f \notin missed' /\ Stamped => Known(f) = disk[f]
    BY <1>4, <1>7, <1>14, ZenonT(60) DEF Stamped, Right
  <1>16. ToldInv'
    <2> SUFFICES ASSUME NEW g \in Files, g \notin missed' \cup want PROVE Right(g)'
      BY <1>1, <1>4, ZenonT(60) DEF ToldInv
    <2>1. Right(g)
      BY ZenonT(60), <1>7, <1>14
    <2>2. stamps'[g] = stamps[g] \/ (g = f /\ Stamped)
      BY ZenonT(60), <1>2, <1>5
    <2>3. QED BY <1>1, <1>13, <1>15, <2>1, <2>2, ZenonT(60) DEF Right
  <1>17. CurrentInv'
    <2> SUFFICES ASSUME NEW g \in Files, g \notin missed' \cup todo' \cup Held' PROVE Current(g, Known(g))'
      BY ZenonT(60) DEF CurrentInv
    <2>1. CASE g # f
      <3>1. Current(g, Known(g))
        BY <1>1, <1>7, <2>1, ZenonT(60) DEF SInv, CurrentInv, Held
      <3>2. QED BY <1>1, <1>13, <3>1, ZenonT(60) DEF Current
    <2>2. CASE g = f /\ Stamped
      <3>1. Known(f) = disk[f] /\ Recent(f, disk[f])
        BY <1>1, <1>15, <2>2, ZenonT(60) DEF SInv, DiskInv, Stamped
      <3>2. QED BY <1>1, <1>4, <1>13, <2>2, <3>1, ZenonT(60) DEF Current, Recent
    <2>3. CASE g = f /\ Gone
      <3>1. f \in gone
        BY <1>1, <1>3, <1>4, <2>3, DeletedIsGone DEF SInv, Gone
      <3>2. Known(f) = None
        BY <1>4, <1>7, <1>14, <2>3, KnownIs, ZenonT(60) DEF Right, Gone
      <3>3. QED BY <1>1, <1>4, <1>13, <2>3, <3>1, <3>2, TextFacts, ZenonT(60) DEF Current
    <2>4. CASE g = f /\ Taken
      <3>1. held' # <<>> /\ held'[1] = f
        BY <2>4, ZenonT(60) DEF Taken
      <3>2. QED BY <2>4, <3>1, ZenonT(60) DEF Held
    <2>5. QED BY ZenonT(60), <1>2, <2>1, <2>2, <2>3, <2>4
  <1>18. QED BY <1>8, <1>9, <1>10, <1>11, <1>12, <1>16, <1>17, ZenonT(60) DEF SInv

\* A changed file is sent as it is on the disk, and with a stamp that is not
\* newer.
LEMMA ReadChangedStep ==
    ASSUME SInv, ReadChanged
    PROVE  SInv'
  <1> SUFFICES ASSUME NEW f, f = held[1] PROVE SInv'
    BY ZenonT(60)
  <1> DEFINE Same ==
        /\ setup' = setup /\ disk' = disk /\ saves' = saves /\ calls' = calls /\ up' = up
        /\ overlaid' = overlaid /\ worker' = worker /\ pc' = pc /\ attempt' = attempt /\ want' = want
        /\ files' = files /\ start' = start /\ begun' = begun /\ fresh' = fresh /\ todo' = todo
        /\ gone' = gone /\ missed' = missed
  <1>1. /\ Same /\ pc = "stat" /\ held # <<>> /\ held' = <<>> /\ disk[f] # None
        /\ stamps' = [stamps EXCEPT ![f] = held[2]]
        /\ changed' = [changed EXCEPT ![f] = disk[f]]
    BY DEF ReadChanged, call
  <1>2. Types
    BY ZenonT(60) DEF SInv
  <1>3. /\ f \in Files /\ held[2] \in Plain /\ held[2] <= saves /\ disk[f] \in Plain /\ disk[f] \in Texts
        /\ disk[f] # Overlay /\ disk[f] <= saves
    BY <1>1, <1>2, Numbers, TextFacts, ZenonT(60) DEF SInv, SaveInv
  <1>4. f \in files /\ f \notin want /\ f \notin todo /\ Recent(f, disk[f])
    BY <1>1, <1>3, ZenonT(60) DEF SInv, PhaseInv, DiskInv
  <1>5. Held = {f} /\ Held' = {}
    BY <1>1, ZenonT(60) DEF Held
  <1>6. /\ stamps'[f] = held[2] /\ changed'[f] = disk[f]
        /\ \A g \in Files \ {f} : stamps'[g] = stamps[g] /\ changed'[g] = changed[g]
    BY <1>1, <1>2, <1>3, ZenonT(60) DEF Types, Requests
  <1>7. Types'
    <2>1. stamps' \in [Files -> Plain] /\ changed' \in Requests
      BY <1>1, <1>2, <1>3, ZenonT(60) DEF Types, Requests
    <2>2. QED BY <1>1, <1>2, <2>1, ZenonT(60) DEF Types
  <1>8. SaveInv'
    BY <1>1, <1>3, <1>6 DEF SInv, SaveInv
  <1>9. PhaseInv' /\ DiskInv' /\ HeldInv' /\ AnswerInv'
    BY <1>1, ZenonT(60) DEF SInv, PhaseInv, DiskInv, Recent, HeldInv, AnswerInv
  <1>10. MailInv'
    BY <1>1, ZenonT(60) DEF SInv, MailInv, PhaseInv
  <1>11. ChangedInv'
    <2>1. disk[f] <= disk[f]
      BY <1>2, <1>3, Numbers
    <2>2. QED BY <1>1, <1>3, <1>4, <1>6, <2>1, ZenonT(60) DEF SInv, ChangedInv, ReadNow, Recent
  <1>12. Over'[f] = disk[f] /\ Known(f)' = disk[f]
    BY ZenonT(60), <1>1, <1>3, <1>6, KnownIs
  <1>13. ASSUME NEW g \in Files \ {f} PROVE Over'[g] = Over[g] /\ Known(g)' = Known(g)
    BY <1>1, <1>6, KnownIs
  <1>14. ToldInv'
    <2> SUFFICES ASSUME NEW g \in Files, g \notin missed \cup overlaid PROVE Right(g)'
      BY <1>1 DEF ToldInv
    <2>1. CASE g = f
      BY <1>1, <1>3, <1>12, <2>1 DEF Right
    <2>2. CASE g # f
      <3>1. Right(g)
        BY <1>1, ZenonT(60) DEF SInv, ToldInv, Reverted, PhaseInv
      <3>2. QED BY <1>1, <1>6, <1>13, <2>2, <3>1, ZenonT(60) DEF Right
    <2>3. QED BY <2>1, <2>2
  <1>15. CurrentInv'
    <2> SUFFICES ASSUME NEW g \in Files, g \notin missed \cup todo PROVE Current(g, Known(g))'
      BY <1>1, <1>5, ZenonT(60) DEF CurrentInv
    <2>1. CASE g = f
      BY <1>1, <1>4, <1>12, <2>1, ZenonT(60) DEF Current, Recent
    <2>2. CASE g # f
      <3>1. Current(g, Known(g))
        BY <1>1, <1>5, <2>2, ZenonT(60) DEF SInv, CurrentInv
      <3>2. QED BY <1>1, <1>13, <2>2, <3>1, ZenonT(60) DEF Current
    <2>3. QED BY ZenonT(60), <2>1, <2>2
  <1>16. QED BY <1>7, <1>8, <1>9, <1>10, <1>11, <1>14, <1>15, ZenonT(60) DEF SInv

\* A call that returns before it sends has told the worker nothing; the files
\* it had stamped are missed.
LEMMA ReadFailsStep ==
    ASSUME SInv, ReadFails
    PROVE  SInv'
  <1>1. /\ Return /\ setup' = setup /\ disk' = disk /\ saves' = saves /\ calls' = calls
        /\ stamps' = stamps /\ overlaid' = overlaid /\ worker' = worker /\ up' = up /\ pc = "stat"
        /\ missed' = missed \cup {f \in Files \ want : changed[f] # None}
    BY ZenonT(60) DEF ReadFails, session
  <1>2. worker' \in Workers /\ up' \in BOOLEAN /\ missed' \subseteq Files
    BY <1>1, ZenonT(60) DEF SInv, Types
  <1>3. /\ Types' /\ SaveInv' /\ PhaseInv' /\ DiskInv' /\ ChangedInv' /\ HeldInv' /\ CurrentInv' /\ AnswerInv'
        /\ pc' = "idle" /\ changed' = Nothing
    BY ZenonT(60), <1>1, <1>2, ReturnStep
  <1>4. MailInv'
    BY <1>1, <1>3, ZenonT(60) DEF SInv, MailInv, PhaseInv
  <1>5. ToldInv'
    <2> SUFFICES ASSUME NEW f \in Files, f \notin missed' \cup overlaid PROVE Right(f)'
      BY <1>1, ZenonT(60) DEF ToldInv
    <2>1. f \notin missed /\ changed[f] = None
      BY <1>1, ZenonT(60) DEF SInv, PhaseInv
    <2>2. Right(f)
      BY <1>1, <2>1, ZenonT(60) DEF SInv, ToldInv, Reverted, PhaseInv
    <2>3. changed'[f] = None
      BY <1>3, ZenonT(60) DEF Nothing
    <2>4. Over'[f] = Over[f] /\ Known(f)' = Known(f)
      BY ZenonT(60), <1>1, <2>1, <2>3, KnownIs
    <2>5. QED BY <1>1, <2>2, <2>4, ZenonT(60) DEF Right
  <1>6. QED BY <1>3, <1>4, <1>5 DEF SInv

\* What is sent and not older than its stamp, is on the disk if the stamp is.
LEMMA SendStep ==
    ASSUME SInv, Send
    PROVE  SInv'
  <1> DEFINE Same ==
        /\ setup' = setup /\ disk' = disk /\ saves' = saves /\ calls' = calls /\ up' = up
        /\ stamps' = stamps /\ overlaid' = overlaid /\ attempt' = attempt /\ want' = want
        /\ files' = files /\ start' = start /\ begun' = begun /\ fresh' = fresh /\ todo' = todo
        /\ held' = held /\ changed' = changed /\ gone' = gone
             Sent == {f \in Files : disk[f] # None /\ changed[f] # None /\ changed[f] >= stamps[f]}
  <1>1. /\ Same /\ pc = "stat" /\ pc' = "wait" /\ held = <<>> /\ todo = {} /\ missed' = missed \ Sent
        /\ worker' = [worker EXCEPT !.inbox = Append(worker.inbox, changed)]
    BY DEF Send, session, call, request
  <1>2. Types
    BY DEF SInv
  <1>3. up /\ overlaid = want /\ worker.inbox = <<>> /\ worker.pipe = <<>>
    BY <1>1, ZenonT(60) DEF SInv, PhaseInv, MailInv
  <1>4. changed \in Requests /\ Append(worker.inbox, changed) = <<changed>> /\ <<changed>> \in Seq(Requests)
    BY <1>2, <1>3 DEF Types
  <1>5. /\ worker' \in Workers /\ worker'.alive = worker.alive /\ worker'.over = worker.over
        /\ worker'.read = worker.read /\ worker'.inbox = <<changed>> /\ worker'.pipe = <<>>
    BY <1>1, <1>2, <1>3, <1>4, RecordFacts, ZenonT(60) DEF Workers
  <1>6. Types'
    BY <1>1, <1>2, <1>5 DEF Types
  <1>7. SaveInv' /\ PhaseInv' /\ DiskInv' /\ ChangedInv' /\ HeldInv'
    BY <1>1, <1>3 DEF SInv, SaveInv, PhaseInv, DiskInv, ChangedInv, HeldInv, Recent, ReadNow
  <1>8. MailInv'
    BY <1>1, <1>3, <1>4, <1>5 DEF SInv, MailInv
  <1>9. Over' = Over /\ \A f \in Files : Known(f)' = Known(f)
    BY <1>1, <1>5 DEF Over, Told, Known, Used
  <1>10. ASSUME NEW f \in Sent
         PROVE  /\ f \in Files /\ ReadNow(f, changed[f]) /\ changed[f] <= disk[f] /\ changed[f] >= stamps[f]
                /\ disk[f] # None /\ Known(f) = changed[f] /\ Over[f] = changed[f]
    <2>1. f \in Files /\ disk[f] # None /\ changed[f] # None /\ changed[f] >= stamps[f]
      OBVIOUS
    <2>2. changed[f] # Overlay
      BY <1>2, <2>1, Numbers, TextFacts
    <2>3. ReadNow(f, changed[f])
      BY <1>1, <2>1, <2>2, ZenonT(60) DEF SInv, ChangedInv
    <2>4. Over[f] = changed[f] /\ Known(f) = changed[f]
      BY ZenonT(60), <2>1, KnownIs
    <2>5. QED BY <2>1, <2>3, <2>4 DEF ReadNow
  <1> HIDE DEF Sent
  <1>11. ToldInv'
    <2> SUFFICES ASSUME NEW f \in Files, f \notin missed' \cup want PROVE Right(f)'
      BY <1>1, <1>3 DEF ToldInv
    <2>1. CASE f \in Sent
      <3>1. stamps[f] = disk[f] => changed[f] = disk[f]
        <4>1. changed[f] \in Int /\ disk[f] \in Int /\ changed[f] <= disk[f] /\ changed[f] >= stamps[f]
          BY <1>2, <1>10, <2>1, Numbers
        <4>2. QED BY <4>1
      <3>2. changed[f] # Overlay
        BY <1>10, <2>1 DEF ReadNow
      <3>3. QED BY <1>1, <1>9, <1>10, <2>1, <3>1, <3>2, ZenonT(60) DEF Right
    <2>2. CASE f \notin Sent
      <3>1. Right(f)
        BY <1>1, <1>3, <2>2 DEF SInv, ToldInv, Reverted
      <3>2. QED BY <1>1, <1>9, <3>1 DEF Right
    <2>3. QED BY <2>1, <2>2
  <1>12. CurrentInv'
    <2> SUFFICES ASSUME NEW f \in Files, f \notin missed' PROVE Current(f, Known(f))'
      BY DEF CurrentInv
    <2>1. Current(f, Known(f))
      <3>1. CASE f \in Sent /\ f \in files
        BY <1>10, <3>1 DEF ReadNow, Recent, Current
      <3>2. CASE f \in Sent /\ f \notin files
        <4>1. Right(f)
          <5>1. stamps[f] = disk[f] => changed[f] = disk[f]
            <6>1. changed[f] \in Int /\ disk[f] \in Int /\ changed[f] <= disk[f] /\ changed[f] >= stamps[f]
              BY <1>2, <1>10, <3>2, Numbers
            <6>2. QED BY <6>1
          <5>2. QED BY <1>10, <3>2, <5>1 DEF Right, ReadNow
        <4>2. QED BY <1>1, <3>2, <4>1, OutsideIsCurrent
      <3>3. CASE f \notin Sent
        BY <1>1, <3>3, ZenonT(60) DEF SInv, CurrentInv, Held
      <3>4. QED BY <3>1, <3>2, <3>3
    <2>2. QED BY <1>1, <1>9, <2>1 DEF Current
  <1>13. AnswerInv'
    BY <1>5 DEF AnswerInv
  <1>14. QED BY <1>6, <1>7, <1>8, <1>11, <1>12, <1>13 DEF SInv

\* With the answer the worker has what was sent.
LEMMA ReceiveStep ==
    ASSUME SInv, Receive
    PROVE  SInv'
  <1>1. /\ Return /\ setup' = setup /\ disk' = disk /\ saves' = saves /\ calls' = calls
        /\ stamps' = stamps /\ overlaid' = overlaid /\ up' = up /\ missed' = missed /\ pc = "wait"
        /\ worker.pipe # <<>> /\ worker' = [worker EXCEPT !.pipe = Tail(worker.pipe)]
    BY DEF Receive, session
  <1>2. Types
    BY DEF SInv
  <1>3. up /\ worker.inbox = <<>> /\ Over = worker.over /\ Tail(worker.pipe) = <<>>
    <2>1. PICK r \in Requests : worker.pipe = <<r>>
      BY <1>1 DEF SInv, MailInv
    <2>2. worker.inbox = <<>>
      BY <1>1 DEF SInv, MailInv
    <2>3. <<>> # <<changed>>
      OBVIOUS
    <2>4. QED BY <1>1, <2>1, <2>2, <2>3 DEF SInv, MailInv, PhaseInv
  <1>4. /\ worker' \in Workers /\ worker'.alive = worker.alive /\ worker'.over = worker.over
        /\ worker'.read = worker.read /\ worker'.inbox = <<>> /\ worker'.pipe = <<>>
    <2>1. <<>> \in Seq(Requests)
      OBVIOUS
    <2>2. QED BY <1>1, <1>2, <1>3, <2>1, RecordFacts, ZenonT(60) DEF Workers
  <1>5. up' \in BOOLEAN /\ missed' \subseteq Files
    BY <1>1, <1>2 DEF Types
  <1>6. /\ Types' /\ SaveInv' /\ PhaseInv' /\ DiskInv' /\ ChangedInv' /\ HeldInv' /\ CurrentInv' /\ AnswerInv'
        /\ pc' = "idle" /\ changed' = Nothing
    BY <1>1, <1>4, <1>5, ReturnStep
  <1>7. MailInv'
    BY <1>1, <1>3, <1>4, <1>6 DEF MailInv
  <1>8. ToldInv'
    <2> SUFFICES ASSUME NEW f \in Files, f \notin missed \cup overlaid PROVE Right(f)'
      BY <1>1 DEF ToldInv
    <2>1. Right(f)
      BY <1>1, <1>3 DEF SInv, ToldInv, Reverted
    <2>2. changed'[f] = None
      BY <1>6 DEF Nothing
    <2>3. Over'[f] = Over[f]
      BY <1>3, <1>4, <2>2, KnownIs
    <2>4. Known(f)' = Known(f)
      BY <1>1, <1>4, <2>3, KnownIs
    <2>5. QED BY <1>1, <2>1, <2>3, <2>4 DEF Right
  <1>9. QED BY <1>6, <1>7, <1>8 DEF SInv

\* A failed round trip leaves the request with the worker.
LEMMA FailStep ==
    ASSUME SInv, Fail
    PROVE  SInv'
  <1> DEFINE Same ==
        /\ setup' = setup /\ disk' = disk /\ saves' = saves /\ calls' = calls /\ up' = up
        /\ stamps' = stamps /\ overlaid' = overlaid /\ worker' = worker /\ attempt' = attempt /\ want' = want
        /\ files' = files /\ start' = start /\ begun' = begun /\ fresh' = fresh /\ todo' = todo
        /\ held' = held /\ changed' = changed /\ gone' = gone /\ missed' = missed
  <1>1. Same /\ pc = "wait" /\ pc' \in {"broken", "late"}
    BY ZenonT(60) DEF Fail, session, call, request
  <1>2. Types'
    BY <1>1, ZenonT(60) DEF SInv, Types
  <1>3. SaveInv' /\ PhaseInv' /\ DiskInv' /\ ChangedInv' /\ HeldInv' /\ CurrentInv' /\ AnswerInv'
    BY <1>1, ZenonT(60) DEF SInv, SaveInv, PhaseInv, DiskInv, ChangedInv, HeldInv, CurrentInv, AnswerInv, Recent
  <1>4. MailInv'
    BY <1>1, ZenonT(60) DEF SInv, MailInv, Over
  <1>5. ToldInv'
    BY <1>1, ZenonT(60) DEF SInv, ToldInv, Right, Reverted, Over, Known, Used
  <1>6. QED BY <1>2, <1>3, <1>4, <1>5, ZenonT(60) DEF SInv

\* A session that is given up says nothing more of its worker.
LEMMA GiveUpStep ==
    ASSUME SInv, GiveUp
    PROVE  SInv'
  <1>1. /\ setup' = setup /\ disk' = disk /\ saves' = saves /\ calls' = calls
        /\ stamps' = stamps /\ overlaid' = overlaid /\ up' = FALSE /\ missed' = missed
        /\ pc \in {"broken", "late"} /\ worker' = [worker EXCEPT !.alive = FALSE]
    BY ZenonT(60) DEF GiveUp, Drop
  <1>2. Types
    BY DEF SInv
  <1>3. /\ worker' \in Workers /\ worker'.alive = FALSE
        /\ worker'.inbox = worker.inbox /\ worker'.pipe = worker.pipe
    BY <1>1, <1>2, RecordFacts, ZenonT(60) DEF Workers
  <1>4. up' \in BOOLEAN /\ missed' \subseteq Files
    BY <1>1, <1>2, ZenonT(60) DEF Types
  <1>5. ToldInv'
    BY <1>1 DEF ToldInv
  <1>6. CASE Return
    <2>1. /\ Types' /\ SaveInv' /\ PhaseInv' /\ DiskInv' /\ ChangedInv' /\ HeldInv' /\ CurrentInv' /\ AnswerInv'
          /\ pc' = "idle" /\ changed' = Nothing
      BY <1>1, <1>3, <1>4, <1>6, ReturnStep
    <2>2. MailInv'
      BY <1>1, <1>3, <2>1 DEF SInv, MailInv
    <2>3. QED BY <1>5, <2>1, <2>2 DEF SInv
  <1>7. CASE pc' = "session" /\ attempt' = 1 /\ UNCHANGED <<want, files, start, begun, gone, request>>
    <2>1. /\ want' = want /\ files' = files /\ start' = start /\ begun' = begun /\ gone' = gone
          /\ fresh' = fresh /\ todo' = todo /\ held' = held /\ changed' = changed
      BY <1>7 DEF request
    <2>2. Types'
      BY <1>1, <1>2, <1>3, <1>7, <2>1, ZenonT(60) DEF Types
    <2>3. SaveInv' /\ PhaseInv' /\ DiskInv'
      BY <1>1, <1>7, <2>1 DEF SInv, SaveInv, PhaseInv, DiskInv, Recent
    <2>4. MailInv'
      BY <1>1, <1>3, <1>7 DEF SInv, MailInv
    <2>5. QED BY <1>5, <1>7, <2>2, <2>3, <2>4, BetweenCalls DEF SInv
  <1>8. QED BY <1>6, <1>7 DEF GiveUp

\* Every step of the client, the worker and the disk keeps the invariant.
THEOREM NextSInv == SInv /\ [Next]_vars => SInv'
  <1> SUFFICES ASSUME SInv, [Next]_vars PROVE SInv'
    OBVIOUS
  <1>1. CASE UNCHANGED vars
    <2>1. /\ setup' = setup /\ disk' = disk /\ saves' = saves /\ calls' = calls /\ up' = up
          /\ stamps' = stamps /\ overlaid' = overlaid /\ worker' = worker /\ pc' = pc /\ attempt' = attempt
          /\ want' = want /\ files' = files /\ start' = start /\ begun' = begun /\ fresh' = fresh
          /\ todo' = todo /\ held' = held /\ changed' = changed /\ gone' = gone /\ missed' = missed
      BY <1>1 DEF vars, session, call, request
    <2>2. Over' = Over /\ \A f \in Files : Known(f)' = Known(f)
      BY <2>1, SameKnown
    <2>3. Types'
      BY <2>1, ZenonT(60) DEF SInv, Types
    <2>4. SaveInv' /\ PhaseInv'
      BY <2>1, ZenonT(60) DEF SInv, SaveInv, PhaseInv
    <2>5. MailInv'
      BY <2>1, <2>2, ZenonT(60) DEF SInv, MailInv
    <2>6. DiskInv' /\ ChangedInv' /\ HeldInv'
      BY <2>1, ZenonT(60) DEF SInv, DiskInv, ChangedInv, HeldInv, Recent, ReadNow
    <2>7. ToldInv'
      BY <2>1, <2>2, ZenonT(60) DEF SInv, ToldInv, Right, Reverted, Held
    <2>8. CurrentInv' /\ AnswerInv'
      BY <2>1, <2>2, ZenonT(60) DEF SInv, CurrentInv, AnswerInv, Held, Current
    <2>9. QED BY <2>3, <2>4, <2>5, <2>6, <2>7, <2>8, ZenonT(60) DEF SInv
  <1>2. CASE \E f \in Files : Save(f) \/ Delete(f)
    BY <1>2, SaveStep, DeleteStep
  <1>3. CASE Handle \/ Die \/ \E O \in SUBSET Files : Call(O)
    BY <1>3, HandleStep, DieStep, CallStep
  <1>4. CASE Step
    BY <1>4, SessionStep, SpawnFailsStep, RevertReadStep, RevertStatStep, ShipStep, StatStep, ReadChangedStep,
       ReadFailsStep, SendStep, ReceiveStep, FailStep, GiveUpStep DEF Step
  <1>5. QED BY <1>1, <1>2, <1>3, <1>4 DEF Next

\* The invariant holds in every state.
THEOREM Invariance == Spec => []SInv
  BY InitSInv, NextSInv, PTL DEF Spec

\* The variables of the client, the worker and the call have their types.
THEOREM TypesCorrect == Spec => []TypeOK
  <1>1. SInv => TypeOK
    <2> SUFFICES ASSUME SInv PROVE TypeOK
      OBVIOUS
    <2>1. Types
      BY DEF SInv
    <2>2. held = <<>> \/ (held[1] \in Files /\ held[2] \in Texts)
      BY <2>1, Numbers, TextFacts
    <2>3. start \in [Files -> Texts] /\ begun \in Nat
      BY <2>1, Numbers, TextFacts, ZenonT(60) DEF Types
    <2>4. QED BY <2>1, <2>2, <2>3, RecordFacts, ZenonT(60) DEF TypeOK, Types, Requests, Plain
  <1>2. QED BY <1>1, Invariance, PTL

\* A request stays in the pipes, as it is or as its answer, until the call takes
\* it out or gives the worker up.
Owed == pc \in {"wait", "broken", "late"} => worker.inbox # <<>> \/ worker.pipe # <<>>

LEMMA OwedStep == SInv /\ Owed /\ [Next]_vars => Owed'
  <1> SUFFICES ASSUME SInv, Owed, [Next]_vars, pc' \in {"wait", "broken", "late"}
               PROVE  worker'.inbox # <<>> \/ worker'.pipe # <<>>
    BY ZenonT(60) DEF Owed
  <1>1. worker \in Workers
    BY DEF SInv, Types
  <1>2. CASE Send
    <2>1. worker'.inbox = Append(worker.inbox, changed)
      BY <1>1, <1>2, ZenonT(60) DEF Send, Workers
    <2>2. QED BY <1>1, <2>1 DEF Workers
  <1>3. CASE Handle
    <2>1. PICK used : worker'.pipe = Append(worker.pipe, used)
      BY <1>1, <1>3, ZenonT(60) DEF Handle, Workers
    <2>2. QED BY <1>1, <2>1 DEF Workers
  <1>4. CASE Die
    <2>1. worker'.inbox = worker.inbox /\ worker'.pipe = worker.pipe /\ pc' = pc
      BY <1>1, <1>4, ZenonT(60) DEF Die, Workers
    <2>2. QED BY <2>1, ZenonT(60) DEF Owed
  <1>5. CASE pc \in {"wait", "broken", "late"} /\ worker' = worker
    BY <1>5, ZenonT(60) DEF Owed
  <1>6. CASE Fail
    BY <1>5, <1>6, ZenonT(60) DEF Fail
  <1>7. CASE UNCHANGED vars \/ \E f \in Files : Save(f) \/ Delete(f)
    BY <1>5, <1>7, ZenonT(60) DEF vars, Save, Delete
  <1>8. QED
    BY <1>2, <1>3, <1>4, <1>6, <1>7, ZenonT(60) DEF Next, Step, Call, Session, SpawnFails, RevertRead, RevertStat,
       ShipOverlays, Stat, ReadChanged, ReadFails, Receive, GiveUp, Return

\* The pipes of a session hold the request of the call that waits, or its answer,
\* and nothing else ever (sidecarSession.roundTrip).
THEOREM PipesHoldOneMessage == Spec => []OneMessage
  <1>1. SInv /\ Owed => OneMessage
    <2> SUFFICES ASSUME SInv, Owed, up
                 PROVE  Len(worker.inbox \o worker.pipe) = IF pc \in {"wait", "broken", "late"} THEN 1 ELSE 0
      BY DEF OneMessage
    <2>1. worker.inbox \in Seq(Requests) /\ worker.pipe \in Seq(Requests)
      BY RecordFacts DEF SInv
    <2>2. CASE pc \in {"wait", "broken", "late"}
      <3>1. \/ worker.inbox = <<>> /\ \E r \in Requests : worker.pipe = <<r>>
            \/ worker.pipe = <<>> /\ \E r \in Requests : worker.inbox = <<r>>
        BY <2>2, ZenonT(60) DEF SInv, MailInv, Owed
      <3>2. worker.inbox = <<>> => worker.inbox \o worker.pipe = worker.pipe
        BY <2>1
      <3>3. worker.pipe = <<>> => worker.inbox \o worker.pipe = worker.inbox
        BY <2>1
      <3>4. Len(worker.inbox \o worker.pipe) = 1
        BY <3>1, <3>2, <3>3, ShortLengths, ZenonT(60)
      <3>5. QED BY <2>2, <3>4, ZenonT(60)
    <2>3. CASE pc \notin {"wait", "broken", "late"}
      <3>1. worker.inbox = <<>> /\ worker.pipe = <<>>
        BY <2>3, ZenonT(60) DEF SInv, MailInv, Types
      <3>2. worker.inbox \o worker.pipe = <<>>
        BY <2>1, <3>1
      <3>3. QED BY <2>3, <3>2, ShortLengths, ZenonT(60)
    <2>4. QED BY <2>2, <2>3
  <1>2. Init => Owed
    BY DEF Init, Owed
  <1>3. QED BY <1>1, <1>2, OwedStep, Invariance, PTL DEF Spec

\* Between two calls the warm worker knows the text of every file whose stamp
\* is the one on the disk, the overlaid and the missed files apart: what
\* changedFilesFor will not send need not be sent.
THEOREM WarmWorkerKnows == Spec => []WarmKnowsDisk
  <1>1. SInv => WarmKnowsDisk
    <2> SUFFICES ASSUME SInv, pc = "idle", up, NEW f \in Files, f \notin missed \cup overlaid,
                        disk[f] # None, stamps[f] = disk[f]
                 PROVE  Used(worker.over, worker.read, f) = disk[f]
      BY ZenonT(60) DEF WarmKnowsDisk
    <2>1. Known(f) = disk[f]
      BY ZenonT(60) DEF SInv, ToldInv, Reverted, Right
    <2>2. changed[f] = None
      BY ZenonT(60) DEF SInv, PhaseInv, Nothing
    <2>3. Over[f] = worker.over[f]
      BY <2>2, KnownIs
    <2>4. QED BY <2>1, <2>3, KnownIs, ZenonT(60) DEF Used
  <1>2. QED BY <1>1, Invariance, PTL

\* Every answer a call returns is about the overlays it asked for, and about
\* texts that were on the disk while it ran.
THEOREM AnswersAreCurrent == Spec => AnswerCurrent
  <1>1. SInv => (Receive => \A f \in Files \ missed : Current(f, Head(worker.pipe)[f]))
    BY ZenonT(60) DEF SInv, AnswerInv, Receive
  <1>2. SInv /\ [Next]_vars => [Receive => \A f \in Files \ missed : Current(f, Head(worker.pipe)[f])]_vars
    BY <1>1
  <1>3. QED BY <1>2, Invariance, PTL DEF Spec, AnswerCurrent

\* The points of a call, in their order.
Point(c) == CASE c = "session" -> 1 [] c = "revert" -> 2 [] c = "stat" -> 3 [] c = "wait" -> 4 [] OTHER -> 5

\* A call has come nearer to its return: it has returned, begins its second
\* attempt, has reached a later point, or has a file less to do there.
Nearer ==
    \/ pc' = "idle"
    \/ attempt' > attempt
    \/ attempt' = attempt /\ Point(pc') > Point(pc)
    \/ /\ attempt' = attempt /\ pc' = pc
       /\ Dropped' \subseteq Dropped /\ todo' \subseteq todo
       /\ Dropped' # Dropped \/ todo' # todo \/ (held # <<>> /\ held' = <<>>)

\* Every step of a call brings it nearer to its return, a second attempt
\* included, and no save, deletion or worker takes it back: with finitely many
\* files a call has finitely many steps (runTransformerSidecar).
THEOREM CallsAdvance ==
    Spec => [][pc # "idle" => Nearer \/ (~Step /\ UNCHANGED <<pc, attempt, overlaid, want, todo, held>>)]_vars
  <1>1. ASSUME SInv, Step PROVE Nearer
    <2>1. CASE Session
      BY <2>1 DEF Session, call, Nearer, Point
    <2>2. CASE SpawnFails \/ ReadFails \/ Receive
      BY <2>2 DEF SpawnFails, ReadFails, Receive, Return, Nearer
    <2>3. ASSUME NEW f \in Files, RevertRead(f) PROVE Nearer
      <3>1. attempt' = attempt /\ pc' = pc /\ todo' = todo /\ Dropped' = Dropped \ {f} /\ f \in Dropped
        BY <2>3, ZenonT(60) DEF RevertRead, call, Dropped
      <3>2. QED BY <3>1, ZenonT(60) DEF Nearer
    <2>4. CASE RevertStat
      BY <2>4, ZenonT(60) DEF RevertStat, call, Nearer, Dropped
    <2>5. CASE ShipOverlays
      BY <2>5 DEF ShipOverlays, call, Nearer, Point
    <2>6. ASSUME NEW f \in Files, Stat(f) PROVE Nearer
      <3>1. attempt' = attempt /\ pc' = pc /\ todo' = todo \ {f} /\ f \in todo /\ Dropped' = Dropped
        BY <2>6, ZenonT(60) DEF Stat, call, Dropped
      <3>2. QED BY <3>1, ZenonT(60) DEF Nearer
    <2>7. CASE ReadChanged
      BY <2>7, ZenonT(60) DEF ReadChanged, call, Nearer, Dropped
    <2>8. CASE Send
      BY <2>8 DEF Send, call, Nearer, Point
    <2>9. CASE Fail
      BY <2>9 DEF Fail, call, Nearer, Point
    <2>10. CASE GiveUp
      BY <2>10 DEF GiveUp, Retries, Return, Nearer
    <2>11. QED BY <1>1, <2>1, <2>2, <2>3, <2>4, <2>5, <2>6, <2>7, <2>8, <2>9, <2>10, ZenonT(60) DEF Step
  <1>2. ASSUME Next, ~Step, pc # "idle" PROVE UNCHANGED <<pc, attempt, overlaid, want, todo, held>>
    BY <1>2, ZenonT(60) DEF Next, Save, Delete, Handle, Die, Call, session, call, request
  <1>3. SInv /\ [Next]_vars =>
            [pc # "idle" => Nearer \/ (~Step /\ UNCHANGED <<pc, attempt, overlaid, want, todo, held>>)]_vars
    BY <1>1, <1>2, ZenonT(60)
  <1>4. QED BY <1>3, Invariance, PTL DEF Spec

===============================================================================
