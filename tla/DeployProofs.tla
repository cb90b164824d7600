----------------------------- MODULE DeployProofs -----------------------------
(***************************************************************************)
(* Proofs about Deploy, for any resources, versions, edits and faults.     *)
(*                                                                         *)
(* The inductive invariant has two halves.  Planned and Done relate the    *)
(* plan to the state file; Remote relates the state file to the remote     *)
(* objects.  The second half knows a call only by what the call of any     *)
(* provider leaves alone (Fits) and what it records when it succeeds       *)
(* (Reports).                                                              *)
(*                                                                         *)
(* OrphansBounded counts what each step may lose track of (Loses).         *)
(* EventuallyDeployed is only model-checked; NoChangesMeansDeployed,       *)
(* AppliesAdvance and ApplyNeverStuck are what it rests on.                *)
(***************************************************************************)
EXTENDS Deploy, TLAPS

Objects(n) ==
    [id : 0 .. n - 1, of : Resources, value : UNION {Versions(r) : r \in Resources}, status : {"on", "off"}]

\* Types.  An icon always has a file, and nothing is to be done outside an apply.
Types ==
    /\ DOMAIN desired = Resources
    /\ DOMAIN state = Resources
    /\ TypeOK
    /\ \A r \in Resources : Kind[r] = "asset" => desired[r] # Absent
    /\ phase # "apply" => todo = {}

\* The kinds with one object and its id.
Single == {"badge", "pass", "link", "product", "asset"}

\* A recorded id is one of an object of that resource; what is changed in
\* place has none.
Own ==
    \A r \in Resources :
        /\ \A id \in Ids(r) : id < nextId
        /\ \A o \in live : o.id \in Ids(r) => o.of = r
        /\ Kind[r] \in {"file", "settings"} => Ids(r) = {}
        /\ state[r] # NoEntry /\ Kind[r] \in Single => Ids(r) # {}

\* What every call does: new objects are of its resource and have new ids,
\* objects of other resources stay as they are.
Fits(r, L, k) ==
    /\ L \subseteq Objects(nextId + k)
    /\ \A p \in L : p.of # r => p \in live
    /\ \A p \in live : p.of # r => p \in L
    /\ \A p \in L : p.id = 0 \/ p.id >= nextId \/ \E q \in live : q.id = p.id /\ q.of = p.of
-------------------------------------------------------------------------------
(***************************************************************************)
(* Calls.                                                                  *)
(***************************************************************************)
LEMMA ObjectsGrow ==
    ASSUME Types, NEW k \in Nat
    PROVE  live \subseteq Objects(nextId + k) /\ nextId \in Nat
BY BoundAssumption DEF Types, TypeOK, Objects

LEMMA NextIdTyped ==
    ASSUME Types
    PROVE  nextId \in Nat /\ nextId + 0 = nextId /\ nextId + 0 <= MaxId
BY BoundAssumption DEF Types, TypeOK

LEMMA StateTyped ==
    ASSUME Types
    PROVE  DOMAIN state = Resources /\ \A q \in Resources : state[q] \in Entry(q) \cup {NoEntry}
BY DEF Types, TypeOK

LEMMA IdsTyped ==
    ASSUME Types, NEW r \in Resources
    PROVE  Ids(r) \subseteq 1 .. MaxId
BY DEF Types, TypeOK, Ids, Entry

LEMMA IdsBelow ==
    ASSUME Types, Own
    PROVE  nextId \in Nat /\ \A q \in Resources : Ids(q) \subseteq 1 .. MaxId /\ \A id \in Ids(q) : id < nextId
<1>1. \A q \in Resources : \A id \in Ids(q) : id < nextId
  BY DEF Own
<1> QED
  BY <1>1, NextIdTyped, IdsTyped, ZenonT(60)

LEMMA ReplacedFits ==
    ASSUME Types, NEW r \in Resources, NEW v \in Versions(r), NEW o \in Replaced(r, v)
    PROVE  o.used \in Nat /\ Fits(r, o.live, o.used)
<1>1. live \subseteq Objects(nextId + 0) /\ nextId \in Nat
  BY ObjectsGrow
<1>2. nextId >= 1
  BY BoundAssumption DEF Types, TypeOK
<1>3. Object(InPlace, r, v) \in Objects(nextId + 0)
  BY <1>1, <1>2 DEF Object, InPlace, Objects
<1>4. Object(InPlace, r, v).of = r /\ Object(InPlace, r, v).id = 0
  BY DEF Object, InPlace
<1>5. o.live = {p \in live : p.of # r} \cup {Object(InPlace, r, v)} /\ o.used = 0
  BY DEF Replaced, Outcome
<1>6. \A p \in o.live : p = Object(InPlace, r, v) \/ (p \in live /\ p.of # r)
  BY <1>5
<1> QED
  BY <1>1, <1>3, <1>4, <1>5, <1>6 DEF Fits

LEMMA CreatedFits ==
    ASSUME Types, NEW r \in Resources, NEW v \in Versions(r), NEW o \in Created(r, v)
    PROVE  o.used \in Nat /\ Fits(r, o.live, o.used)
<1>1. live \subseteq Objects(nextId + 1) /\ nextId \in Nat
  BY ObjectsGrow
<1>2. Object(nextId, r, v) \in Objects(nextId + 1)
  BY <1>1 DEF Object, Objects
<1>3. Object(nextId, r, v).of = r /\ Object(nextId, r, v).id >= nextId
  BY <1>1 DEF Object
<1>4. o.live = live \cup {Object(nextId, r, v)} /\ o.used = 1
  BY DEF Created, Outcome
<1>5. \A p \in o.live : p = Object(nextId, r, v) \/ p \in live
  BY ZenonT(60), <1>4
<1> QED
  BY <1>1, <1>2, <1>3, <1>4, <1>5 DEF Fits

LEMMA UpdatedFits ==
    ASSUME Types, Own, NEW r \in Resources, NEW v \in Versions(r), NEW o \in Updated(r, v)
    PROVE  o.used \in Nat /\ Fits(r, o.live, o.used)
<1>1. live \subseteq Objects(nextId + 0) /\ nextId \in Nat
  BY ObjectsGrow
<1>2. ASSUME NEW p \in live
      PROVE  Renewed(r, v, p) \in Objects(nextId + 0) /\ Renewed(r, v, p).id = p.id /\ Renewed(r, v, p).of = p.of
  BY <1>1, <1>2 DEF Objects, Renewed
<1>3. ASSUME NEW p \in live, p.id \in Ids(r)
      PROVE  p.of = r
  BY <1>3 DEF Own
<1>4. o.live = {IF p.id \in Ids(r) THEN Renewed(r, v, p) ELSE p : p \in live} /\ o.used = 0
  BY DEF Updated, Outcome
<1>5. \A p \in o.live : p \in live \/ \E q \in live : q.id \in Ids(r) /\ p = Renewed(r, v, q)
  BY <1>4
<1>6. \A p \in live : p.of # r => p \in o.live
  BY <1>3, <1>4
<1> QED
  BY <1>1, <1>2, <1>3, <1>4, <1>5, <1>6 DEF Fits

LEMMA DeletedFits ==
    ASSUME Types, Own, NEW r \in Resources, NEW d \in Deleted(Ids(r))
    PROVE  /\ d.live \subseteq live
           /\ \A p \in live : p.of # r => p \in d.live
           /\ d.ok => \A p \in d.live : p.id \notin Ids(r)
BY DEF Own, Deleted

LEMMA UploadedFits ==
    ASSUME Types, NEW r \in Resources, NEW v \in Versions(r), NEW k \in Nat, NEW p \in Uploaded(r, v, k)
    PROVE  p \in Objects(nextId + k) /\ p.of = r /\ p.id >= nextId /\ p.value = v /\ p.status = "on"
<1>1. nextId \in Nat
  BY ObjectsGrow
<1>2. PICK id \in nextId .. nextId + k - 1 : p = Object(id, r, v)
  BY DEF Uploaded
<1> QED
  BY <1>1, <1>2 DEF Object, Objects

\* Uploads together with a part of the former objects.
LEMMA PartFits ==
    ASSUME Types, NEW r \in Resources, NEW v \in Versions(r), NEW k \in Nat, NEW L,
           L \subseteq live, \A p \in live : p.of # r => p \in L
    PROVE  Fits(r, L \cup Uploaded(r, v, k), k)
<1>1. live \subseteq Objects(nextId + k) /\ nextId \in Nat
  BY ObjectsGrow
<1>2. \A p \in Uploaded(r, v, k) : p \in Objects(nextId + k) /\ p.of = r /\ p.id >= nextId
  BY UploadedFits
<1> QED
  BY <1>1, <1>2 DEF Fits

LEMMA StaleIds ==
    ASSUME Own, NEW r \in Resources, NEW id
    PROVE  \A p \in live : p.of # r => p \in {o \in live : o.id \notin {j \in Stale(r) : j <= id}}
BY DEF Own, Stale

LEMMA ThumbnailsFit ==
    ASSUME Types, Own, NEW r \in Resources, NEW v \in Versions(r), Count(plan[r].hash) \in Nat,
           NEW o \in Thumbnails(r, v, Stale(r)) \cup ThumbnailsStopped(r, v)
    PROVE  o.used \in Nat /\ Fits(r, o.live, o.used)
<1> DEFINE k == Count(plan[r].hash)
<1>1. CASE o \in Thumbnails(r, v, Stale(r))
  <2>1. PICK d \in Deleted(Stale(r)) : o.live = d.live \cup Uploaded(r, v, k) /\ o.used = k
    BY <1>1 DEF Thumbnails, Outcome
  <2>2. d.live \subseteq live /\ \A p \in live : p.of # r => p \in d.live
    <3>1. CASE Stale(r) = {}
      BY <3>1 DEF Deleted
    <3>2. CASE Stale(r) = Ids(r)
      BY <3>2, DeletedFits
    <3> QED
      BY <3>1, <3>2, ZenonT(60) DEF Stale
  <2> QED
    BY <2>1, <2>2, PartFits, Zenon
<1>2. CASE o \in ThumbnailsStopped(r, v)
  <2>1. CASE \E j \in 0 .. k : o = Outcome(live \cup Uploaded(r, v, j), j, {}, FALSE)
    <3>1. PICK j \in 0 .. k : o = Outcome(live \cup Uploaded(r, v, j), j, {}, FALSE)
      BY <2>1, Zenon
    <3>2. j \in Nat /\ o.live = live \cup Uploaded(r, v, j) /\ o.used = j
      BY <3>1 DEF Outcome
    <3> QED
      BY <3>2, PartFits, ZenonT(60)
  <2>2. CASE \E id \in Stale(r) :
                o = Outcome({p \in live : p.id \notin {j \in Stale(r) : j <= id}} \cup Uploaded(r, v, k), k, {}, FALSE)
    <3>1. PICK id \in Stale(r) :
                o = Outcome({p \in live : p.id \notin {j \in Stale(r) : j <= id}} \cup Uploaded(r, v, k), k, {}, FALSE)
      BY <2>2, Zenon
    <3> DEFINE L == {p \in live : p.id \notin {j \in Stale(r) : j <= id}}
    <3>2. o.live = L \cup Uploaded(r, v, k) /\ o.used = k
      BY <3>1, ZenonT(60) DEF Outcome
    <3>3. \A p \in live : p.of # r => p \in L
      BY StaleIds
    <3>4. L \subseteq live
      OBVIOUS
    <3> HIDE DEF L
    <3> QED
      BY ZenonT(60), <3>2, <3>3, <3>4, PartFits
  <2> QED
    BY <1>2, <2>1, <2>2, Zenon DEF ThumbnailsStopped
<1> QED
  BY <1>1, <1>2

LEMMA CallsFit ==
    ASSUME Types, Own, NEW r \in Resources, NEW v \in Versions(r), Count(plan[r].hash) \in Nat,
           NEW o \in CallsStopped(r, v)
    PROVE  o.used \in Nat /\ Fits(r, o.live, o.used)
<1>1. CASE o = Outcome(live, 0, {}, FALSE)
  <2>1. live \subseteq Objects(nextId + 0)
    BY ZenonT(60), ObjectsGrow
  <2> QED
    BY <1>1, <2>1 DEF Outcome, Fits
<1>2. CASE o \in Calls(r, v)
  <2>1. o \in Replaced(r, v) \/ o \in Created(r, v) \/ o \in Updated(r, v) \/ o \in Thumbnails(r, v, Stale(r))
    BY <1>2, KindAssumption, ZenonT(60) DEF Calls, Kinds
  <2> QED
    BY ZenonT(60), <2>1, ReplacedFits, CreatedFits, UpdatedFits, ThumbnailsFit
<1>3. CASE o \in ThumbnailsStopped(r, v)
  BY ZenonT(60), <1>3, ThumbnailsFit
<1> QED
  BY <1>1, <1>2, <1>3, Zenon DEF CallsStopped

LEMMA DeleteCallsFit ==
    ASSUME Types, Own, NEW r \in Resources, NEW o \in DeleteCallsStopped(r)
    PROVE  Fits(r, o.live, 0)
<1>1. live \subseteq Objects(nextId + 0) /\ nextId \in Nat
  BY ObjectsGrow
<1>2. CASE o.live \subseteq live /\ \A p \in live : p.of # r => p \in o.live
  BY <1>1, <1>2 DEF Fits
<1>3. CASE o.live = {IF p.id \in Ids(r) THEN [p EXCEPT !.status = "off"] ELSE p : p \in live}
  <2>1. ASSUME NEW p \in live
        PROVE  /\ [p EXCEPT !.status = "off"] \in Objects(nextId + 0)
               /\ [p EXCEPT !.status = "off"].id = p.id
               /\ [p EXCEPT !.status = "off"].of = p.of
    BY <1>1, <2>1 DEF Objects
  <2>2. \A p \in o.live : p \in live \/ \E q \in live : q.id \in Ids(r) /\ p = [q EXCEPT !.status = "off"]
    BY <1>3
  <2>3. \A p \in live : p.id \in Ids(r) => p.of = r
    BY DEF Own
  <2>4. \A p \in live : p.of # r => p \in o.live
    BY <1>3, <2>3
  <2> QED
    BY <1>1, <2>1, <2>2, <2>3, <2>4, ZenonT(60) DEF Fits
<1>4. CASE o \in DeleteCalls(r)
  <2>1. CASE Kind[r] \in {"badge", "pass"}
    BY <1>3, <1>4, <2>1 DEF DeleteCalls
  <2>2. CASE Kind[r] \in {"link", "thumbnails"}
    BY <1>2, <1>4, <2>2, DeletedFits DEF DeleteCalls
  <2>3. CASE Kind[r] \notin {"badge", "pass", "link", "thumbnails"}
    BY <1>2, <1>4, <2>3 DEF DeleteCalls
  <2> QED
    BY <2>1, <2>2, <2>3
<1>5. CASE o = [live |-> live]
  BY ZenonT(60), <1>2, <1>5
<1>6. CASE \E id \in Ids(r) : o = [live |-> {p \in live : p.id \notin {j \in Ids(r) : j <= id}}]
  <2>1. \A p \in live : p.id \in Ids(r) => p.of = r
    BY DEF Own
  <2> QED
    BY <1>2, <1>6, <2>1
<1> QED
  BY <1>4, <1>5, <1>6 DEF DeleteCallsStopped

\* What a call that succeeds reports, and the objects it reports.
Found(r, o) == {p \in o.live : p.of = r /\ p.id \in (IF Kind[r] \in {"file", "settings"} THEN {InPlace} ELSE o.ids)}

\* Unless a deletion has reached it, what has one object has it turned on.
OnUnlessCut ==
    \A r \in Resources \ cut : Kind[r] \in Single => \A o \in Recorded(r) : o.status = "on"

Reports(r, v, o) ==
    /\ o.ids \subseteq 1 .. nextId + o.used - 1
    /\ Kind[r] \in {"file", "settings"} => o.ids = {}
    /\ Kind[r] \in Single => o.ids # {}
    /\ \A p \in o.live : p.id \in o.ids => p.of = r
    /\ \A p \in Found(r, o) : p.value = v
    /\ \A id \in o.ids : \E p \in Found(r, o) : p.id = id
    /\ Kind[r] \in {"file", "settings"} => Found(r, o) # {}
    /\ r \notin cut \/ plan[r].op = "create" \/ Kind[r] \notin Single \ {"pass"} =>
            \A p \in Found(r, o) : p.status = "on"

LEMMA ReplacedReports ==
    ASSUME Types, NEW r \in Resources, Kind[r] \in {"file", "settings"}, NEW v, NEW o \in Replaced(r, v)
    PROVE  Reports(r, v, o)
<1>1. /\ o.live = {p \in live : p.of # r} \cup {Object(InPlace, r, v)}
      /\ o.ids = {}
  BY DEF Replaced, Outcome
<1>2. Found(r, o) = {Object(InPlace, r, v)}
  BY <1>1 DEF Found, Object
<1> QED
  BY <1>1, <1>2 DEF Reports, Single, Object

LEMMA CreatedReports ==
    ASSUME Types, NEW r \in Resources, Kind[r] \in Single, NEW v, NEW o \in Created(r, v)
    PROVE  Reports(r, v, o)
<1>1. o.live = live \cup {Object(nextId, r, v)} /\ o.ids = {nextId} /\ o.used = 1
  BY DEF Created, Outcome
<1>2. nextId \in Nat /\ nextId >= 1 /\ \A p \in live : p.id < nextId
  BY BoundAssumption DEF Types, TypeOK
<1>3. Object(nextId, r, v).id = nextId /\ Object(nextId, r, v).of = r
      /\ Object(nextId, r, v).value = v /\ Object(nextId, r, v).status = "on"
  BY ZenonT(60) DEF Object
<1>4. Found(r, o) = {Object(nextId, r, v)}
  BY <1>1, <1>2, <1>3 DEF Found, Single
<1> QED
  BY <1>1, <1>2, <1>3, <1>4 DEF Reports, Single

LEMMA UpdatedReports ==
    ASSUME Types, Own, OnUnlessCut, NEW r \in Resources, Kind[r] \in Single \ {"asset"}, state[r] # NoEntry,
           plan[r].op # "create", NEW v, NEW o \in Updated(r, v), o.ok
    PROVE  Reports(r, v, o)
<1>1. /\ o.live = {IF p.id \in Ids(r) THEN Renewed(r, v, p) ELSE p : p \in live}
      /\ o.ids = Ids(r) /\ o.used = 0
      /\ \A id \in Ids(r) : \E p \in live : p.id = id
  BY DEF Updated, Outcome, Exists
<1>2. nextId \in Nat /\ Ids(r) \subseteq 1 .. nextId - 1 /\ Ids(r) # {}
  BY IdsTyped, BoundAssumption DEF Types, TypeOK, Own
<1>3. \A p \in live : p.id \in Ids(r) => p.of = r
  BY ZenonT(60) DEF Own
<1>4. \A p \in live : /\ Renewed(r, v, p).id = p.id
                      /\ Renewed(r, v, p).of = p.of
                      /\ Renewed(r, v, p).value = v
                      /\ Renewed(r, v, p).status = IF Kind[r] = "pass" THEN "on" ELSE p.status
  BY ZenonT(60) DEF Renewed
<1>5. \A p \in o.live : p.id \in o.ids => \E q \in live : q.id \in Ids(r) /\ p = Renewed(r, v, q)
  BY ZenonT(60), <1>1, <1>4
<1>6. \A q \in live : q.id \in Ids(r) => Renewed(r, v, q) \in o.live
  BY ZenonT(60), <1>1
<1>7. \A id \in o.ids : \E p \in Found(r, o) : p.id = id
  BY <1>1, <1>3, <1>4, <1>6 DEF Found, Single
<1>8. ASSUME r \notin cut \/ Kind[r] = "pass", NEW p \in Found(r, o)
      PROVE  p.status = "on"
  <2>1. PICK q \in live : q.id \in Ids(r) /\ p = Renewed(r, v, q)
    BY <1>5, <1>8, ZenonT(60) DEF Found, Single
  <2>2. q \in Recorded(r)
    BY <1>3, <2>1 DEF Recorded, Single
  <2> QED
    BY <1>4, <1>8, <2>1, <2>2, ZenonT(60) DEF OnUnlessCut
<1>9. \A p \in Found(r, o) : p.value = v
  BY <1>4, <1>5, ZenonT(60) DEF Found, Single
<1>10. \A p \in o.live : p.id \in o.ids => p.of = r
  BY <1>3, <1>4, <1>5, SMTT(60)
<1> QED
  BY <1>1, <1>2, <1>7, <1>8, <1>9, <1>10 DEF Reports, Single

LEMMA ThumbnailsReport ==
    ASSUME Types, Own, NEW r \in Resources, Kind[r] = "thumbnails", NEW v \in Versions(r),
           Count(plan[r].hash) \in Nat, NEW o \in Thumbnails(r, v, Stale(r))
    PROVE  Reports(r, v, o)
<1> DEFINE k == Count(plan[r].hash)
<1>1. PICK d \in Deleted(Stale(r)) :
        o.live = d.live \cup Uploaded(r, v, k) /\ o.used = k /\ o.ids = nextId .. nextId + k - 1
  BY DEF Thumbnails, Outcome
<1>2. d.live \subseteq live
  BY SMTT(60) DEF Deleted
<1>3. nextId \in Nat /\ nextId >= 1 /\ k \in Nat /\ \A p \in live : p.id < nextId
  BY BoundAssumption DEF Types, TypeOK
<1>4. \A p \in Uploaded(r, v, k) : p.of = r /\ p.value = v /\ p.status = "on"
  BY UploadedFits
<1>5. \A p \in o.live : p.id \in o.ids => p \in Uploaded(r, v, k)
  BY <1>1, <1>2, <1>3
<1>6. \A id \in o.ids : Object(id, r, v) \in Uploaded(r, v, k) /\ Object(id, r, v).id = id
  BY <1>1, ZenonT(60) DEF Uploaded, Object
<1>7. \A id \in o.ids : \E p \in Found(r, o) : p.id = id
  BY <1>1, <1>4, <1>6, ZenonT(60) DEF Found
<1>8. \A p \in Found(r, o) : p \in Uploaded(r, v, k)
  BY <1>5, ZenonT(60) DEF Found
<1>9. o.ids \subseteq 1 .. nextId + o.used - 1
  BY <1>1, <1>3
<1> HIDE DEF k
<1> QED
  BY <1>4, <1>5, <1>7, <1>8, <1>9, ZenonT(60) DEF Reports, Single

LEMMA CallsReport ==
    ASSUME Types, Own, OnUnlessCut, NEW r \in Resources, plan[r].op \in {"create", "update"},
           plan[r].op = "update" => state[r] # NoEntry,
           NEW v \in Versions(r), Count(plan[r].hash) \in Nat, NEW o \in Calls(r, v), o.ok
    PROVE  Reports(r, v, o)
<1>1. CASE Kind[r] \in {"file", "settings"}
  BY <1>1, ReplacedReports, ZenonT(60) DEF Calls
<1>2. CASE Kind[r] \in {"badge", "pass", "link", "product"}
  <2>1. CASE plan[r].op = "create"
    <3>1. o \in Created(r, v)
      BY <1>2, <2>1, ZenonT(60) DEF Calls
    <3> QED
      BY <1>2, <3>1, CreatedReports, ZenonT(60) DEF Single
  <2>2. CASE plan[r].op = "update"
    <3>1. o \in Updated(r, v)
      BY <1>2, <2>2, ZenonT(60) DEF Calls
    <3> QED
      BY <1>2, <2>2, <3>1, UpdatedReports, ZenonT(60) DEF Single
  <2> QED
    BY ZenonT(60), <2>1, <2>2
<1>3. CASE Kind[r] = "asset"
  <2>1. o \in Created(r, v)
    BY <1>3, ZenonT(60) DEF Calls
  <2> QED
    BY <1>3, <2>1, CreatedReports DEF Single
<1>4. CASE Kind[r] = "thumbnails"
  <2>1. o \in Thumbnails(r, v, Stale(r))
    BY <1>4 DEF Calls
  <2> QED
    BY ZenonT(60), <1>4, <2>1, ThumbnailsReport
<1> QED
  BY <1>1, <1>2, <1>3, <1>4, KindAssumption, ZenonT(60) DEF Kinds

\* A call turns nothing off.
Keeps(r, L) ==
    \A p \in L : p.id \in Ids(r) => \E q \in live : q.id = p.id /\ q.of = p.of /\ (q.status = "on" => p.status = "on")

LEMMA CallsKeep ==
    ASSUME Types, Own, NEW r \in Resources, Kind[r] \in Single, NEW v \in Versions(r), NEW o \in CallsStopped(r, v)
    PROVE  Keeps(r, o.live)
<1>1. CASE o = Outcome(live, 0, {}, FALSE)
  BY <1>1, ZenonT(60) DEF Outcome, Keeps
<1>2. CASE o \in Created(r, v)
  <2>1. o.live = live \cup {Object(nextId, r, v)} /\ Object(nextId, r, v).id = nextId
    BY <1>2 DEF Created, Outcome, Object
  <2>2. nextId \in Nat /\ \A id \in Ids(r) : id < nextId
    BY BoundAssumption DEF Types, TypeOK, Own
  <2> QED
    BY <2>1, <2>2 DEF Keeps
<1>3. CASE o \in Updated(r, v)
  <2>1. o.live = {IF p.id \in Ids(r) THEN Renewed(r, v, p) ELSE p : p \in live}
    BY <1>3 DEF Updated, Outcome
  <2>2. \A p \in live : /\ Renewed(r, v, p).id = p.id
                        /\ Renewed(r, v, p).of = p.of
                        /\ Renewed(r, v, p).status = IF Kind[r] = "pass" THEN "on" ELSE p.status
    BY DEF Renewed
  <2> QED
    BY <2>1, <2>2, ZenonT(60) DEF Keeps
<1>4. o = Outcome(live, 0, {}, FALSE) \/ o \in Calls(r, v)
  BY Zenon DEF CallsStopped, Single
<1>5. ASSUME o \in Calls(r, v)
      PROVE  o \in Created(r, v) \/ o \in Updated(r, v)
  BY <1>5 DEF Calls, Single
<1> QED
  BY <1>1, <1>2, <1>3, <1>4, <1>5, Zenon
-------------------------------------------------------------------------------
(***************************************************************************)
(* The state file and the remote objects.                                  *)
(***************************************************************************)
Remote == Own /\ OnUnlessCut /\ Truthful

\* A call that is not recorded: nothing changes, or its resource is excepted
\* from now on.
LEMMA UnrecordedRemote ==
    ASSUME Types, Remote, NEW r \in Resources, NEW L, NEW k \in Nat, Fits(r, L, k),
           live' = L, nextId' = nextId + k, state' = state,
           torn \subseteq torn', cut \subseteq cut',
           L = live \/ r \in torn' \cup cut',
           r \in cut' \/ Kind[r] \notin Single \/ Keeps(r, L)
    PROVE  Remote'
<1>1. \A q \in Resources : Ids(q)' = Ids(q)
  BY ZenonT(60) DEF Ids
<1>2. nextId \in Nat /\ \A q \in Resources : Ids(q) \subseteq 1 .. MaxId /\ \A id \in Ids(q) : id < nextId
  BY IdsBelow, ZenonT(60) DEF Remote
<1>3. Own'
  <2>1. ASSUME NEW q \in Resources, NEW p \in L, p.id \in Ids(q)
        PROVE  p.of = q
    <3>1. PICK w \in live : w.id = p.id /\ w.of = p.of
      BY <1>2, <2>1, BoundAssumption DEF Fits
    <3> QED
      BY <2>1, <3>1, ZenonT(60) DEF Remote, Own
  <2> QED
    BY <1>1, <1>2, <2>1, SMTT(60) DEF Remote, Own
<1>4. \A q \in Resources : q # r => Recorded(q)' = Recorded(q)
  BY <1>1, ZenonT(60) DEF Fits, Recorded
<1>5. Truthful'
  <2> SUFFICES ASSUME NEW q \in Resources, q \notin torn' \cup cut'
               PROVE  Truth(q)'
    BY DEF Truthful
  <2>1. Truth(q)
    BY DEF Remote, Truthful
  <2>2. Recorded(q)' = Recorded(q)
    <3>1. CASE q # r
      BY <1>4, <3>1, ZenonT(60)
    <3>2. CASE q = r
      BY <1>1, <3>2, ZenonT(60) DEF Recorded
    <3> QED
      BY <3>1, <3>2
  <2> QED
    BY <1>1, <2>1, <2>2, ZenonT(60) DEF Truth
<1>6. OnUnlessCut'
  <2> SUFFICES ASSUME NEW q \in Resources, q \notin cut', Kind[q] \in Single, NEW p \in Recorded(q)'
               PROVE  p.status = "on"
    BY DEF OnUnlessCut
  <2>1. CASE q # r
    BY <1>4, <2>1, ZenonT(60) DEF Remote, OnUnlessCut
  <2>2. CASE q = r
    <3>1. p \in L /\ p.id \in Ids(r) /\ p.of = r
      BY <1>1, <2>2, ZenonT(60) DEF Recorded, Single
    <3>2. PICK w \in live : w.id = p.id /\ w.of = p.of /\ (w.status = "on" => p.status = "on")
      BY <2>2, <3>1 DEF Keeps
    <3>3. w \in Recorded(r)
      BY <2>2, <3>1, <3>2, ZenonT(60) DEF Recorded, Single
    <3> QED
      BY <2>2, <3>2, <3>3, ZenonT(60) DEF Remote, OnUnlessCut
  <2> QED
    BY ZenonT(60), <2>1, <2>2
<1> QED
  BY <1>3, <1>5, <1>6, ZenonT(60) DEF Remote

\* A call that is recorded.
LEMMA RecordedRemote ==
    ASSUME Types, Remote, NEW r \in Resources, NEW v, NEW o, o.used \in Nat,
           Fits(r, o.live, o.used), Reports(r, v, o),
           live' = o.live, nextId' = nextId + o.used,
           NEW h, NEW i, state' = [state EXCEPT ![r] = [hash |-> h, ids |-> o.ids, icon |-> i]],
           torn \subseteq torn' \cup {r}, cut \subseteq cut' \cup {r},
           r \in torn' \/ v = h,
           r \in cut' \/ r \notin cut \/ plan[r].op = "create" \/ Kind[r] \notin Single \ {"pass"},
           NoEntry # [hash |-> h, ids |-> o.ids, icon |-> i]
    PROVE  Remote'
<1>1. DOMAIN state = Resources
  BY ZenonT(60) DEF Types
<1>2. \A q \in Resources : q # r => state'[q] = state[q] /\ Ids(q)' = Ids(q)
  BY <1>1 DEF Ids
<1>3. state'[r].hash = h /\ state'[r] # NoEntry /\ Ids(r)' = o.ids
  BY <1>1, ZenonT(60) DEF Ids
<1>4. nextId \in Nat /\ \A q \in Resources : Ids(q) \subseteq 1 .. MaxId /\ \A id \in Ids(q) : id < nextId
  BY IdsBelow, ZenonT(60) DEF Remote
<1>5. \A q \in Resources : q # r => Recorded(q)' = Recorded(q)
  BY <1>2 DEF Fits, Recorded
<1>6. Recorded(r)' = Found(r, o)
  BY <1>3, ZenonT(60) DEF Recorded, Found
<1>7. Own'
  <2> SUFFICES ASSUME NEW q \in Resources
               PROVE  /\ \A id \in Ids(q)' : id < nextId'
                      /\ \A p \in live' : p.id \in Ids(q)' => p.of = q
                      /\ Kind[q] \in {"file", "settings"} => Ids(q)' = {}
                      /\ state'[q] # NoEntry /\ Kind[q] \in Single => Ids(q)' # {}
    BY SMTT(60) DEF Own
  <2>1. CASE q = r
    <3>1. \A id \in o.ids : id < nextId + o.used
      BY <1>4, SMTT(60) DEF Reports
    <3> QED
      BY <1>3, <2>1, <3>1, ZenonT(60) DEF Reports
  <2>2. CASE q # r
    <3>1. ASSUME NEW p \in live', p.id \in Ids(q)
          PROVE  p.of = q
      <4>1. PICK w \in live : w.id = p.id /\ w.of = p.of
        BY <1>4, <3>1, BoundAssumption, SMTT(60) DEF Fits
      <4> QED
        BY <3>1, <4>1, ZenonT(60) DEF Remote, Own
    <3>2. \A id \in Ids(q) : id < nextId'
      BY <1>4, BoundAssumption, SMTT(60)
    <3> QED
      BY <1>2, <2>2, <3>1, <3>2, ZenonT(60) DEF Remote, Own
  <2> QED
    BY <2>1, <2>2, ZenonT(60)
<1>8. Truthful'
  <2> SUFFICES ASSUME NEW q \in Resources, q \notin torn' \cup cut'
               PROVE  Truth(q)'
    BY ZenonT(60) DEF Truthful
  <2>1. CASE q # r
    <3>1. Truth(q)
      BY <2>1, ZenonT(60) DEF Remote, Truthful
    <3> QED
      BY <1>2, <1>5, <2>1, <3>1 DEF Truth
  <2>2. CASE q = r
    <3>1. Found(r, o) # {} \/ Kind[r] = "thumbnails"
      BY KindAssumption, ZenonT(60) DEF Reports, Kinds, Single
    <3>2. \A id \in o.ids : \E p \in Found(r, o) : p.id = id
      BY SMTT(60) DEF Reports
    <3>3. \A p \in Found(r, o) : p.value = h /\ p.status = "on"
      BY <2>2, ZenonT(60) DEF Reports
    <3> QED
      BY <1>3, <1>6, <2>2, <3>1, <3>2, <3>3, SMTT(60) DEF Truth
  <2> QED
    BY <2>1, <2>2
<1>9. OnUnlessCut'
  <2> SUFFICES ASSUME NEW q \in Resources, q \notin cut', Kind[q] \in Single, NEW p \in Recorded(q)'
               PROVE  p.status = "on"
    BY DEF OnUnlessCut
  <2>1. CASE q # r
    BY <1>5, <2>1, ZenonT(60) DEF Remote, OnUnlessCut
  <2>2. CASE q = r
    BY <1>6, <2>2 DEF Reports
  <2> QED
    BY <2>1, <2>2, ZenonT(60)
<1> QED
  BY <1>7, <1>8, <1>9, ZenonT(60) DEF Remote

\* A deletion that is recorded.
LEMMA DeletedRemote ==
    ASSUME Types, Remote, NEW r \in Resources, NEW L, Fits(r, L, 0),
           live' = L, nextId' = nextId, state' = [state EXCEPT ![r] = NoEntry],
           torn' = torn, cut' = cut
    PROVE  Remote'
<1>1. DOMAIN state = Resources
  BY ZenonT(60) DEF Types
<1>2. \A q \in Resources : q # r => state'[q] = state[q] /\ Ids(q)' = Ids(q)
  BY <1>1 DEF Ids
<1>3. state'[r] = NoEntry /\ Ids(r)' = {}
  BY <1>1, ZenonT(60) DEF Ids
<1>4. nextId \in Nat /\ \A q \in Resources : Ids(q) \subseteq 1 .. MaxId /\ \A id \in Ids(q) : id < nextId
  BY IdsTyped, BoundAssumption DEF Types, TypeOK, Remote, Own
<1>5. \A q \in Resources : q # r => Recorded(q)' = Recorded(q)
  BY <1>2, ZenonT(60) DEF Fits, Recorded
<1>6. Own'
  <2>1. ASSUME NEW q \in Resources, q # r, NEW p \in live', p.id \in Ids(q)
        PROVE  p.of = q
    <3>1. PICK w \in live : w.id = p.id /\ w.of = p.of
      BY <1>4, <2>1, BoundAssumption DEF Fits
    <3> QED
      BY <2>1, <3>1, ZenonT(60) DEF Remote, Own
  <2> QED
    BY <1>2, <1>3, <1>4, <2>1, ZenonT(60) DEF Remote, Own
<1>7. Truthful'
  <2> SUFFICES ASSUME NEW q \in Resources, q \notin torn \cup cut
               PROVE  Truth(q)'
    BY ZenonT(60) DEF Truthful
  <2>1. CASE q = r
    BY <1>3, <2>1, ZenonT(60) DEF Truth
  <2>2. CASE q # r
    <3>1. Truth(q)
      BY ZenonT(60) DEF Remote, Truthful
    <3> QED
      BY <1>2, <1>5, <2>2, <3>1 DEF Truth
  <2> QED
    BY ZenonT(60), <2>1, <2>2
<1>8. OnUnlessCut'
  <2>1. \A p \in Recorded(r)' : Kind[r] \notin Single
    BY <1>3, ZenonT(60) DEF Recorded, Single
  <2> QED
    BY <1>5, <2>1 DEF Remote, OnUnlessCut
<1> QED
  BY <1>6, <1>7, <1>8, ZenonT(60) DEF Remote
-------------------------------------------------------------------------------

(***************************************************************************)
(* The plan and the state file.                                            *)
(***************************************************************************)
Holds(r) == state[r] # NoEntry /\ state[r].hash = plan[r].hash

\* The plan fits the state from the time it is made.
Planned ==
    phase # "idle" =>
        \A r \in Resources :
            /\ plan[r] = NoStep => state[r] = NoEntry
            /\ plan[r] # NoStep =>
                /\ plan[r].op = "update" => state[r] # NoEntry
                /\ plan[r].op = "no-op" => Holds(r)
                /\ \A a \in plan[r].deps :
                    a \in Resources /\ plan[a] # NoStep /\ plan[a].op # "delete" /\ plan[a].deps = {}

\* What is done and has not failed is as planned.
Done ==
    phase = "apply" =>
        \A r \in Resources \ (todo \cup failed) :
            plan[r] # NoStep => IF plan[r].op = "delete" THEN state[r] = NoEntry ELSE Holds(r)

Inv == Types /\ Planned /\ Done /\ Remote

\* A step that is to be done is typed.
LEMMA NextIsTyped ==
    ASSUME Types, NEW r \in Resources, NEW ops, IsNext(r, ops), "delete" \notin ops
    PROVE  /\ phase = "apply" /\ r \in todo /\ plan[r] # NoStep
           /\ plan[r].op \in {"create", "update", "no-op"}
           /\ plan[r].hash \in Versions(r)
           /\ plan[r].deps \subseteq Resources
           /\ Count(plan[r].hash) \in Nat
           /\ Contents(r) \subseteq Versions(r)
<1>1. phase = "apply" /\ r \in todo /\ plan[r] # NoStep /\ plan[r].op # "delete"
  BY ZenonT(60) DEF IsNext, Types, TypeOK
<1>2. plan[r] \in [op : {"create", "update", "no-op"}, hash : Versions(r), deps : SUBSET Resources]
  BY <1>1, ZenonT(60) DEF Types, TypeOK, StepOf
<1>3. desired[r] \in Versions(r) \cup {Absent}
  BY ZenonT(60) DEF Types, TypeOK
<1> QED
  BY <1>1, <1>2, <1>3, VersionAssumption, ZenonT(60) DEF Contents

\* The step of r is done, and only its entry has changed.
LEMMA StepDone ==
    ASSUME Planned, Done, NEW r \in Resources, phase = "apply", plan[r] # NoStep,
           plan' = plan, phase' = phase, todo' = todo \ {r}, failed' \in {failed, failed \cup {r}},
           \A q \in Resources : q # r => state'[q] = state[q],
           \/ r \in failed' /\ state'[r] = state[r]
           \/ plan[r].op = "no-op" /\ state'[r] = state[r]
           \/ plan[r].op \in {"create", "update"} /\ state'[r] # NoEntry /\ state'[r].hash = plan[r].hash
           \/ plan[r].op = "delete" /\ state'[r] = NoEntry
    PROVE  Planned' /\ Done'
<1>1. Planned'
  <2> SUFFICES ASSUME NEW q \in Resources
               PROVE  /\ plan[q] = NoStep => state'[q] = NoEntry
                      /\ plan[q] # NoStep =>
                          /\ plan[q].op = "update" => state'[q] # NoEntry
                          /\ plan[q].op = "no-op" => Holds(q)'
    BY ZenonT(60) DEF Planned
  <2>1. CASE q # r
    BY <2>1, ZenonT(60) DEF Planned, Holds
  <2>2. CASE q = r
    BY <2>2, ZenonT(60) DEF Planned, Holds
  <2> QED
    BY <2>1, <2>2, ZenonT(60)
<1>2. Done'
  <2> SUFFICES ASSUME NEW q \in Resources, q \notin todo' \cup failed', plan[q] # NoStep
               PROVE  IF plan[q].op = "delete" THEN state'[q] = NoEntry ELSE Holds(q)'
    BY ZenonT(60) DEF Done
  <2>1. CASE q # r
    BY <2>1, ZenonT(60) DEF Done, Holds
  <2>2. CASE q = r
    BY <2>2 DEF Planned, Holds
  <2> QED
    BY <2>1, <2>2, ZenonT(60)
<1> QED
  BY <1>1, <1>2, ZenonT(60)

\* Types over a step of the apply.
LEMMA StepTyped ==
    ASSUME Types, desired' = desired,
           (phase' = phase /\ plan' = plan /\ todo' \subseteq todo /\ failed' \subseteq Resources /\ phase = "apply")
             \/ EndRun,
           NEW k \in Nat, nextId' = nextId + k, nextId + k <= MaxId, live' \subseteq Objects(nextId + k),
           DOMAIN state' = Resources, \A q \in Resources : state'[q] \in Entry(q) \cup {NoEntry}
    PROVE  Types'
<1>1. nextId' \in 1 .. MaxId
  BY BoundAssumption, SMTT(60) DEF Types, TypeOK
<1>2. CASE phase' = phase /\ plan' = plan /\ todo' \subseteq todo /\ failed' \subseteq Resources /\ phase = "apply"
  BY <1>1, <1>2, ZenonT(60) DEF Types, TypeOK, Objects
<1>3. CASE EndRun
  BY <1>1, <1>3, ZenonT(60) DEF Types, TypeOK, Objects, EndRun
<1> QED
  BY <1>2, <1>3, ZenonT(60)

\* The end of a run.
LEMMA Ended ==
    ASSUME EndRun
    PROVE  Planned' /\ Done'
BY ZenonT(60) DEF EndRun, Planned, Done
-------------------------------------------------------------------------------
(***************************************************************************)
(* The actions.                                                            *)
(***************************************************************************)

\* The remote part does not depend on the run.
LEMMA SameRemote ==
    ASSUME Remote, UNCHANGED <<state, remote, history>>
    PROVE  Remote'
<1>1. UNCHANGED <<state, live, nextId, torn, cut>>
  BY ZenonT(60) DEF remote, history
<1>2. Own'
  BY <1>1 DEF Remote, Own, Ids
<1>3. OnUnlessCut'
  BY <1>1, ZenonT(60) DEF Remote, OnUnlessCut, Recorded, Ids
<1>4. Truthful'
  BY <1>1 DEF Remote, Truthful, Truth, Recorded, Ids
<1> QED
  BY <1>2, <1>3, <1>4, ZenonT(60) DEF Remote

LEMMA InitInv == Init => Inv
<1> SUFFICES ASSUME Init
             PROVE  Inv
  BY ZenonT(60)
<1>1. Types
  <2>1. \A r \in Resources : desired[r] \in Versions(r) \cup {Absent} /\ (Kind[r] = "asset" => desired[r] # Absent)
    BY VersionAssumption DEF Init
  <2> QED
    BY <2>1, BoundAssumption DEF Init, Types, TypeOK
<1>2. Planned /\ Done
  BY ZenonT(60) DEF Init, Planned, Done
<1>3. Remote
  BY DEF Init, Remote, Own, OnUnlessCut, Truthful, Truth, Recorded, Ids
<1> QED
  BY <1>1, <1>2, <1>3, ZenonT(60) DEF Inv

LEMMA EditInv ==
    ASSUME Inv, NEW r \in Resources, Edit(r)
    PROVE  Inv'
<1>1. Remote'
  BY SameRemote, SMTT(30) DEF Inv, Edit
<1>2. Types'
  <2>1. PICK v \in Versions(r) \cup (IF Kind[r] = "asset" THEN {} ELSE {Absent}) :
            desired' = [desired EXCEPT ![r] = v]
    BY Zenon DEF Edit
  <2>2. v \in Versions(r) \cup {Absent} /\ (Kind[r] = "asset" => v # Absent)
    BY <2>1, VersionAssumption, ZenonT(60)
  <2> QED
    BY <2>1, <2>2, Zenon DEF Edit, remote, run, Inv, Types, TypeOK
<1>3. Planned' /\ Done'
  BY SMTT(60) DEF Edit, run, Inv, Planned, Done, Holds
<1> QED
  BY <1>1, <1>2, <1>3, ZenonT(60) DEF Inv

LEMMA StepsTyped ==
    ASSUME Types, NEW r \in Resources
    PROVE  /\ Steps[r] \in StepOf(r) \cup {NoStep}
           /\ Wanted(r) => Steps[r] = [op |-> Op(r), hash |-> desired[r], deps |-> Icon(r, desired[r])]
           /\ Wanted(r) => desired[r] \in Versions(r)
<1>1. Wanted(r) => desired[r] \in Versions(r)
  BY ZenonT(60) DEF Types, TypeOK, Wanted
<1>2. Wanted(r) => Icon(r, desired[r]) \subseteq Resources
  BY ZenonT(60), <1>1, IconAssumption
<1>3. Op(r) \in {"create", "update", "no-op"}
  BY ZenonT(60) DEF Op
<1> QED
  BY <1>1, <1>2, <1>3, ZenonT(60) DEF Steps, StepOf

LEMMA PlanInv ==
    ASSUME Inv, NEW allowDeletes \in BOOLEAN, Plan(allowDeletes)
    PROVE  Inv'
<1>1. Remote'
  BY SameRemote, ZenonT(60) DEF Inv, Plan
<1>2. Types'
  BY StepsTyped, ZenonT(60) DEF Plan, remote, Inv, Types, TypeOK
<1>3. Planned'
  <2> SUFFICES ASSUME NEW r \in Resources
               PROVE  /\ plan'[r] = NoStep => state[r] = NoEntry
                      /\ plan'[r] # NoStep =>
                          /\ plan'[r].op = "update" => state[r] # NoEntry
                          /\ plan'[r].op = "no-op" => state[r] # NoEntry /\ state[r].hash = plan'[r].hash
                          /\ \A a \in plan'[r].deps :
                              a \in Resources /\ plan'[a] # NoStep /\ plan'[a].op # "delete" /\ plan'[a].deps = {}
    BY DEF Plan, Planned, Holds
  <2>1. plan' = Steps
    BY ZenonT(60) DEF Plan
  <2>2. CASE Wanted(r)
    <3>1. Steps[r] = [op |-> Op(r), hash |-> desired[r], deps |-> Icon(r, desired[r])] /\ desired[r] \in Versions(r)
      BY <2>2, StepsTyped, ZenonT(60) DEF Inv
    <3>2. Steps[r] \in StepOf(r)
      <4>1. Icon(r, desired[r]) \subseteq Resources
        BY <3>1, IconAssumption, ZenonT(60)
      <4> QED
        BY <3>1, <4>1 DEF StepOf, Op
    <3>3. ASSUME NEW a \in Icon(r, desired[r])
          PROVE  a \in Resources /\ Steps[a] # NoStep /\ Steps[a].op # "delete" /\ Steps[a].deps = {}
      <4>1. a \in Resources /\ Kind[a] = "asset"
        BY <3>1, <3>3, IconAssumption, ZenonT(60)
      <4>2. Wanted(a)
        BY <2>2, <3>1, <3>3, <4>1, VersionAssumption, ZenonT(60) DEF Wanted
      <4>3. Steps[a] = [op |-> Op(a), hash |-> desired[a], deps |-> Icon(a, desired[a])] /\ desired[a] \in Versions(a)
        BY <4>1, <4>2, StepsTyped, ZenonT(60) DEF Inv
      <4>4. Icon(a, desired[a]) = {}
        BY ZenonT(60), <4>1, <4>3, IconAssumption
      <4>5. Op(a) \in {"create", "update", "no-op"}
        BY ZenonT(60) DEF Op
      <4>6. Steps[a] \in StepOf(a)
        BY <4>3, <4>4, <4>5 DEF StepOf
      <4> QED
        BY <4>1, <4>3, <4>4, <4>5, <4>6, MarkerAssumption, SMTT(60)
    <3>4. Op(r) = "update" => state[r] # NoEntry
      BY ZenonT(60) DEF Op
    <3>5. Op(r) = "no-op" => state[r] # NoEntry /\ state[r].hash = desired[r]
      BY ZenonT(60) DEF Op
    <3>6. Steps[r] # NoStep
      BY <3>2, MarkerAssumption, ZenonT(60)
    <3> QED
      BY <2>1, <3>1, <3>3, <3>4, <3>5, <3>6, SMTT(60)
  <2>3. CASE ~Wanted(r)
    <3>1. [op |-> "delete", hash |-> Absent, deps |-> {}] # NoStep
      BY MarkerAssumption DEF StepOf
    <3> QED
      BY <2>1, <2>3, <3>1, ZenonT(60) DEF Steps, Gone
  <2> QED
    BY <2>2, <2>3, ZenonT(60)
<1>4. Done'
  BY ZenonT(60) DEF Plan, Done
<1> QED
  BY <1>1, <1>2, <1>3, <1>4, ZenonT(60) DEF Inv

LEMMA ConfirmInv ==
    ASSUME Inv, Confirm
    PROVE  Inv'
<1>1. Remote'
  BY SameRemote, ZenonT(60) DEF Inv, Confirm
<1>2. Types'
  BY ZenonT(60) DEF Confirm, remote, Inv, Types, TypeOK
<1>3. Planned'
  BY ZenonT(60) DEF Confirm, Inv, Planned, Holds
<1>4. Done'
  BY DEF Confirm, Done
<1> QED
  BY <1>1, <1>2, <1>3, <1>4, ZenonT(60) DEF Inv

LEMMA EndInv ==
    ASSUME Inv, EndRun, UNCHANGED <<desired, state, remote, history>>
    PROVE  Inv'
<1>1. Types'
  BY DEF EndRun, remote, Inv, Types, TypeOK
<1> QED
  BY <1>1, Ended, SameRemote, ZenonT(60) DEF Inv

\* A step that leaves the state and the remote part alone.
LEMMA IdleStepInv ==
    ASSUME Inv, NEW r \in Resources, Unchanged(r) \/ SkipStep(r)
    PROVE  Inv'
<1>1. /\ phase = "apply" /\ r \in todo /\ plan[r] # NoStep
      /\ Advance(r) /\ failed' \in {failed, failed \cup {r}}
      /\ r \in failed' \/ plan[r].op = "no-op"
      /\ UNCHANGED <<desired, state, remote, history>>
  BY ZenonT(60) DEF Inv, Types, TypeOK, Unchanged, SkipStep, IsNext
<1>2. Types'
  BY <1>1, ZenonT(60) DEF Advance, remote, Inv, Types, TypeOK
<1>3. Planned' /\ Done'
  <2>1. plan' = plan /\ phase' = phase /\ todo' = todo \ {r}
    BY <1>1, ZenonT(60) DEF Advance
  <2> QED
    BY <1>1, <2>1, StepDone, ZenonT(60) DEF Inv
<1>4. Remote'
  BY <1>1, SameRemote, ZenonT(60) DEF Inv
<1> QED
  BY <1>2, <1>3, <1>4, ZenonT(60) DEF Inv

NewEntry(r, o) == [hash |-> plan[r].hash, ids |-> o.ids, icon |-> IconIds(r)]

\* A call that succeeds can be recorded.
LEMMA CallRecorded ==
    ASSUME Inv, NEW r \in Resources, Runs(r), NEW v \in Contents(r), NEW o \in Calls(r, v), o.ok,
           nextId + o.used <= MaxId
    PROVE  /\ Reports(r, v, o) /\ o.used \in Nat /\ Fits(r, o.live, o.used)
           /\ NewEntry(r, o) \in Entry(r) /\ NewEntry(r, o) # NoEntry
<1>1. /\ phase = "apply" /\ r \in todo /\ plan[r] # NoStep
      /\ plan[r].op \in {"create", "update"}
      /\ plan[r].hash \in Versions(r)
      /\ plan[r].deps \subseteq Resources
      /\ Count(plan[r].hash) \in Nat
      /\ Contents(r) \subseteq Versions(r)
  BY NextIsTyped, Zenon DEF Runs, IsNext, Inv
<1>2. plan[r].op = "update" => state[r] # NoEntry
  BY <1>1, ZenonT(60) DEF Inv, Planned
<1>3. Reports(r, v, o)
  BY <1>1, <1>2, CallsReport, Zenon DEF Inv, Remote
<1>4. o.used \in Nat /\ Fits(r, o.live, o.used)
  BY <1>1, CallsFit, ZenonT(40) DEF CallsStopped, Inv, Remote
<1>5. IconIds(r) \subseteq 1 .. MaxId
  <2>1. \A q \in Resources : Ids(q) \subseteq 1 .. MaxId
    BY IdsTyped, ZenonT(60) DEF Inv
  <2>2. state[r] # NoEntry => state[r].icon \subseteq 1 .. MaxId
    BY StateTyped, ZenonT(60) DEF Inv, Entry
  <2> QED
    BY <1>1, <2>1, <2>2, ZenonT(60) DEF IconIds
<1>6. NewEntry(r, o) \in Entry(r)
  <2>1. o.ids \subseteq 1 .. MaxId
    BY <1>3, <1>4, BoundAssumption, NextIdTyped DEF Reports, Inv
  <2> QED
    BY <1>1, <1>5, <2>1, ZenonT(60) DEF Entry, NewEntry
<1>7. NewEntry(r, o) # NoEntry
  BY ZenonT(60), <1>6, MarkerAssumption
<1> QED
  BY <1>3, <1>4, <1>6, <1>7, ZenonT(60)

LEMMA ApplyStepInv ==
    ASSUME Inv, NEW r \in Resources, ApplyStep(r)
    PROVE  Inv'
<1>1. /\ phase = "apply" /\ r \in todo /\ plan[r] # NoStep
      /\ plan[r].op \in {"create", "update"}
      /\ plan[r].hash \in Versions(r)
      /\ plan[r].deps \subseteq Resources
      /\ Count(plan[r].hash) \in Nat
      /\ Contents(r) \subseteq Versions(r)
  BY NextIsTyped, Zenon DEF ApplyStep, Runs, IsNext, Inv
<1>2. PICK v \in Contents(r) : \E o \in Calls(r, v) :
            /\ o.ok /\ TakeEffect(o)
            /\ torn' = IF v = plan[r].hash THEN torn \ {r} ELSE torn \cup {r}
            /\ state' = [state EXCEPT ![r] = NewEntry(r, o)]
  BY Zenon DEF ApplyStep, NewEntry
<1>3. PICK o \in Calls(r, v) :
            /\ o.ok /\ TakeEffect(o)
            /\ torn' = IF v = plan[r].hash THEN torn \ {r} ELSE torn \cup {r}
            /\ state' = [state EXCEPT ![r] = NewEntry(r, o)]
  BY <1>2, ZenonT(60)
<1>4. live' = o.live /\ nextId' = nextId + o.used /\ nextId + o.used <= MaxId
  BY <1>3, ZenonT(60) DEF TakeEffect
<1>5. Runs(r)
  BY DEF ApplyStep
<1>6. /\ Reports(r, v, o) /\ o.used \in Nat /\ Fits(r, o.live, o.used)
      /\ NewEntry(r, o) \in Entry(r) /\ NewEntry(r, o) # NoEntry
  BY <1>3, <1>4, <1>5, CallRecorded, ZenonT(60)
<1>7. DOMAIN state' = Resources /\ state'[r] = NewEntry(r, o) /\ \A q \in Resources : q # r => state'[q] = state[q]
  BY <1>3, StateTyped, ZenonT(60) DEF Inv
<1>8. Types'
  <2>1. \A q \in Resources : state'[q] \in Entry(q) \cup {NoEntry}
    <3>1. \A q \in Resources : state[q] \in Entry(q) \cup {NoEntry}
      BY StateTyped, ZenonT(60) DEF Inv
    <3>2. ASSUME NEW q \in Resources
          PROVE  state'[q] \in Entry(q) \cup {NoEntry}
      <4>1. CASE q = r
        BY <1>6, <1>7, <4>1, ZenonT(60)
      <4>2. CASE q # r
        BY ZenonT(60), <1>7, <3>1, <4>2
      <4> QED
        BY <4>1, <4>2, ZenonT(60)
    <3> QED
      BY ZenonT(60), <3>2
  <2>2. /\ desired' = desired /\ phase' = phase /\ plan' = plan /\ todo' \subseteq todo
        /\ failed' \subseteq Resources
    <3>1. failed' = failed /\ failed \subseteq Resources
      BY ZenonT(60) DEF ApplyStep, Inv, Types, TypeOK
    <3> QED
      BY <3>1, ZenonT(60) DEF ApplyStep, Advance
  <2>3. live' \subseteq Objects(nextId + o.used)
    BY <1>4, <1>6, ZenonT(60) DEF Fits
  <2> QED
    BY <1>1, <1>4, <1>6, <1>7, <2>1, <2>2, <2>3, StepTyped, ZenonT(60) DEF Inv
<1>9. Planned' /\ Done'
  <2>1. plan' = plan /\ phase' = phase /\ todo' = todo \ {r} /\ failed' = failed
    BY ZenonT(60) DEF ApplyStep, Advance
  <2>2. state'[r] # NoEntry /\ state'[r].hash = plan[r].hash
    <3>1. NewEntry(r, o).hash = plan[r].hash
      BY DEF NewEntry
    <3> QED
      BY <1>6, <1>7, <3>1, ZenonT(60)
  <2> QED
    BY <1>1, <1>7, <2>1, <2>2, StepDone, ZenonT(60) DEF Inv
<1>10. Remote'
  <2>1. cut' = IF plan[r].op = "create" \/ Kind[r] \in {"pass", "thumbnails"} THEN cut \ {r} ELSE cut
    BY ZenonT(60) DEF ApplyStep
  <2>2. torn \subseteq torn' \cup {r} /\ cut \subseteq cut' \cup {r} /\ (r \in torn' \/ v = plan[r].hash)
    BY <1>3, <2>1, ZenonT(60)
  <2>3. r \in cut' \/ r \notin cut \/ plan[r].op = "create" \/ Kind[r] \notin Single \ {"pass"}
    BY <2>1, ZenonT(60) DEF Single
  <2> QED
    BY <1>3, <1>4, <1>6, <2>2, <2>3, RecordedRemote, ZenonT(40) DEF Inv, NewEntry
<1> QED
  BY <1>8, <1>9, <1>10, ZenonT(60) DEF Inv

\* A call that is not recorded: refused, failed or interrupted.
LEMMA UnrecordedInv ==
    ASSUME Inv, NEW r \in Resources, RefuseStep(r) \/ FailStep(r) \/ InterruptStep(r)
    PROVE  Inv'
<1>1. /\ phase = "apply" /\ r \in todo /\ plan[r] # NoStep
      /\ Count(plan[r].hash) \in Nat
      /\ Contents(r) \subseteq Versions(r)
  BY NextIsTyped, ZenonT(60) DEF RefuseStep, FailStep, InterruptStep, Runs, Inv
<1>2. PICK v \in Contents(r) : \E o \in CallsStopped(r, v) :
            TakeEffect(o) /\ (o.live = live \/ r \in torn') /\ torn \subseteq torn'
  BY ZenonT(40) DEF RefuseStep, FailStep, InterruptStep, CallsStopped
<1>3. PICK o \in CallsStopped(r, v) :
            TakeEffect(o) /\ (o.live = live \/ r \in torn') /\ torn \subseteq torn'
  BY <1>2, ZenonT(60)
<1>4. o.used \in Nat /\ Fits(r, o.live, o.used)
  BY <1>1, CallsFit, ZenonT(60) DEF Inv, Remote
<1>5. live' = o.live /\ nextId' = nextId + o.used /\ nextId + o.used <= MaxId
  BY <1>3, ZenonT(60) DEF TakeEffect
<1>6. desired' = desired /\ state' = state /\ cut' = cut
  BY ZenonT(60) DEF RefuseStep, FailStep, InterruptStep
<1>7. (Advance(r) /\ failed' = failed \cup {r}) \/ EndRun
  BY ZenonT(60) DEF RefuseStep, FailStep, InterruptStep
<1>8. Types'
  <2>1. (phase' = phase /\ plan' = plan /\ todo' \subseteq todo /\ failed' \subseteq Resources /\ phase = "apply")
          \/ EndRun
    BY <1>1, <1>7, ZenonT(40) DEF Advance, Inv, Types, TypeOK
  <2>2. DOMAIN state' = Resources /\ \A q \in Resources : state'[q] \in Entry(q) \cup {NoEntry}
    BY <1>6, StateTyped, ZenonT(60) DEF Inv
  <2>3. live' \subseteq Objects(nextId + o.used)
    BY <1>4, <1>5, ZenonT(60) DEF Fits
  <2> QED
    BY <1>4, <1>5, <1>6, <2>1, <2>2, <2>3, StepTyped, ZenonT(60) DEF Inv
<1>9. Planned' /\ Done'
  <2>1. CASE Advance(r) /\ failed' = failed \cup {r}
    <3>1. plan' = plan /\ phase' = phase /\ todo' = todo \ {r} /\ r \in failed'
      BY <2>1, ZenonT(60) DEF Advance
    <3> QED
      BY <1>1, <1>6, <2>1, <3>1, StepDone, Zenon DEF Inv
  <2> QED
    BY <1>7, <2>1, Ended, ZenonT(60)
<1>10. Remote'
  <2>1. Kind[r] \notin Single \/ Keeps(r, o.live)
    BY <1>1, CallsKeep, ZenonT(60) DEF Inv, Remote
  <2> QED
    BY <1>3, <1>4, <1>5, <1>6, <2>1, UnrecordedRemote, ZenonT(60) DEF Inv
<1> QED
  BY <1>8, <1>9, <1>10, ZenonT(60) DEF Inv

LEMMA DeleteStepInv ==
    ASSUME Inv, NEW r \in Resources, DeleteStep(r)
    PROVE  Inv'
<1>1. phase = "apply" /\ r \in todo /\ plan[r] # NoStep /\ plan[r].op = "delete"
  BY Zenon DEF DeleteStep, IsNext, Inv, Types, TypeOK
<1>2. PICK o \in DeleteCalls(r) : live' = o.live
  BY ZenonT(60) DEF DeleteStep
<1>3. Fits(r, o.live, 0)
  BY DeleteCallsFit, ZenonT(60) DEF DeleteCallsStopped, Inv, Remote
<1>4. DOMAIN state' = Resources /\ state'[r] = NoEntry /\ \A q \in Resources : q # r => state'[q] = state[q]
  BY ZenonT(60) DEF DeleteStep, Inv, Types
<1>5. Types'
  <2>1. \A q \in Resources : state'[q] \in Entry(q) \cup {NoEntry}
    BY <1>4, StateTyped, ZenonT(60) DEF Inv
  <2>2. /\ desired' = desired /\ phase' = phase /\ plan' = plan /\ todo' \subseteq todo
        /\ failed' \subseteq Resources
    BY ZenonT(60) DEF DeleteStep, Advance, Inv, Types, TypeOK
  <2>3. live' \subseteq Objects(nextId + 0)
    BY <1>2, <1>3, ZenonT(60) DEF Fits
  <2>4. nextId' = nextId
    BY DEF DeleteStep
  <2>5. nextId' = nextId + 0 /\ nextId + 0 <= MaxId
    BY <2>4, NextIdTyped, ZenonT(60) DEF Inv
  <2> QED
    BY <1>1, <1>4, <2>1, <2>2, <2>3, <2>5, StepTyped, ZenonT(60) DEF Inv
<1>6. Planned' /\ Done'
  <2>1. plan' = plan /\ phase' = phase /\ todo' = todo \ {r} /\ failed' = failed
    BY DEF DeleteStep, Advance
  <2> QED
    BY <1>1, <1>4, <2>1, StepDone, ZenonT(60) DEF Inv
<1>7. Remote'
  <2>1. /\ nextId' = nextId /\ state' = [state EXCEPT ![r] = NoEntry] /\ torn' = torn /\ cut' = cut
    BY ZenonT(60) DEF DeleteStep, history
  <2> QED
    BY <1>2, <1>3, <2>1, DeletedRemote, ZenonT(40) DEF Inv
<1> QED
  BY <1>5, <1>6, <1>7, ZenonT(60) DEF Inv

\* A deletion that is not recorded.
LEMMA UndeletedInv ==
    ASSUME Inv, NEW r \in Resources, RefuseDelete(r) \/ FailDelete(r) \/ InterruptDelete(r)
    PROVE  Inv'
<1>1. phase = "apply" /\ r \in todo /\ plan[r] # NoStep
  BY Zenon DEF RefuseDelete, FailDelete, InterruptDelete, IsNext, Inv, Types, TypeOK
<1>2. PICK o \in DeleteCallsStopped(r) : live' = o.live /\ (o.live = live \/ r \in cut') /\ cut \subseteq cut'
  BY Zenon DEF RefuseDelete, FailDelete, InterruptDelete, DeleteCallsStopped
<1>3. Fits(r, o.live, 0)
  BY DeleteCallsFit, ZenonT(60) DEF Inv, Remote
<1>4. desired' = desired /\ state' = state /\ torn' = torn /\ nextId' = nextId + 0 /\ nextId + 0 <= MaxId
  <2>1. desired' = desired /\ state' = state /\ torn' = torn /\ nextId' = nextId
    BY ZenonT(60) DEF RefuseDelete, FailDelete, InterruptDelete
  <2> QED
    BY <2>1, NextIdTyped, ZenonT(60) DEF Inv
<1>5. (Advance(r) /\ failed' = failed \cup {r}) \/ EndRun
  BY DEF RefuseDelete, FailDelete, InterruptDelete
<1>6. Types'
  <2>1. (phase' = phase /\ plan' = plan /\ todo' \subseteq todo /\ failed' \subseteq Resources /\ phase = "apply")
          \/ EndRun
    BY <1>1, <1>5, ZenonT(60) DEF Advance, Inv, Types, TypeOK
  <2>2. DOMAIN state' = Resources /\ \A q \in Resources : state'[q] \in Entry(q) \cup {NoEntry}
    BY <1>4, StateTyped, ZenonT(60) DEF Inv
  <2>3. live' \subseteq Objects(nextId + 0)
    BY <1>2, <1>3, ZenonT(60) DEF Fits
  <2> QED
    BY <1>4, <2>1, <2>2, <2>3, StepTyped, ZenonT(60) DEF Inv
<1>7. Planned' /\ Done'
  <2>1. CASE Advance(r) /\ failed' = failed \cup {r}
    <3>1. plan' = plan /\ phase' = phase /\ todo' = todo \ {r} /\ r \in failed'
      BY <2>1 DEF Advance
    <3> QED
      BY <1>1, <1>4, <2>1, <3>1, StepDone, ZenonT(60) DEF Inv
  <2> QED
    BY <1>5, <2>1, Ended, ZenonT(60)
<1>8. Remote'
  <2>1. r \in cut' \/ Keeps(r, o.live)
    BY <1>2 DEF Keeps
  <2> QED
    BY <1>2, <1>3, <1>4, <2>1, UnrecordedRemote, ZenonT(60) DEF Inv
<1> QED
  BY <1>6, <1>7, <1>8, ZenonT(60) DEF Inv

LEMMA NextInv == Inv /\ [Next]_vars => Inv'
<1> SUFFICES ASSUME Inv, [Next]_vars
             PROVE  Inv'
  BY ZenonT(60)
<1>1. CASE \E r \in Resources : Edit(r)
  BY ZenonT(60), <1>1, EditInv
<1>2. CASE \E allowDeletes \in BOOLEAN : Plan(allowDeletes)
  BY ZenonT(60), <1>2, PlanInv
<1>3. CASE Confirm
  BY ZenonT(60), <1>3, ConfirmInv
<1>4. CASE Decline \/ Finish
  BY <1>4, EndInv, ZenonT(60) DEF Decline, Finish
<1>5. CASE \E r \in Resources : Step(r)
  BY <1>5, IdleStepInv, ApplyStepInv, UnrecordedInv, DeleteStepInv, UndeletedInv, ZenonT(60) DEF Step
<1>6. CASE UNCHANGED vars
  <2>1. UNCHANGED <<desired, state, remote, phase, plan, todo, failed, history>>
    BY <1>6, ZenonT(60) DEF vars, run
  <2>2. Types' /\ Planned' /\ Done'
    BY <2>1, ZenonT(60) DEF remote, Inv, Types, TypeOK, Planned, Done, Holds
  <2> QED
    BY <2>1, <2>2, SameRemote, ZenonT(60) DEF Inv
<1> QED
  BY <1>1, <1>2, <1>3, <1>4, <1>5, <1>6, ZenonT(60) DEF Next, Command

LEMMA InvHolds == Spec => []Inv
<1> QED
  BY InitInv, NextInv, PTL DEF Spec
-------------------------------------------------------------------------------
(***************************************************************************)
(* Icons.                                                                  *)
(***************************************************************************)

\* What a step depends on are assets, and they are done when it is.
IconsFirst ==
    /\ phase # "idle" => \A r \in Resources : plan[r] # NoStep => \A a \in plan[r].deps : Kind[a] = "asset"
    /\ phase = "apply" => \A r \in Resources \ todo : plan[r] # NoStep => plan[r].deps \cap todo = {}

PickUpInv == IconsFirst /\ DependentsPickUp

LEMMA NextIsFirst ==
    ASSUME Inv, NEW r \in Resources, NEW ops, IsNext(r, ops)
    PROVE  phase = "apply" /\ plan[r] # NoStep /\ r \in todo /\ plan[r].deps \cap todo = {}
<1>1. phase = "apply" /\ plan[r] # NoStep /\ r \in todo
  BY ZenonT(60) DEF IsNext, Inv, Types, TypeOK
<1>2. plan[r].op = "delete" => plan[r].deps = {}
  BY <1>1, ZenonT(60) DEF Inv, Types, TypeOK, StepOf
<1>3. ASSUME NEW a \in plan[r].deps, a \in todo
      PROVE  FALSE
  <2>1. a \in Resources /\ plan[a].op # "delete" /\ plan[a].deps = {}
    BY <1>1, <1>3, ZenonT(60) DEF Inv, Planned
  <2>2. a # r /\ Place(r) = 1 /\ Place(a) = 0
    BY <1>2, <1>3, <2>1, ZenonT(60) DEF Place
  <2> QED
    BY <1>3, <2>2, SMTT(60) DEF IsNext, Earlier
<1> QED
  BY <1>1, <1>3

\* A step of r that leaves the other entries alone.
LEMMA StepPicksUp ==
    ASSUME Inv, PickUpInv, NEW r \in Resources, NEW ops, IsNext(r, ops), Advance(r), failed \subseteq failed',
           \A q \in Resources : q # r => state'[q] = state[q],
           \/ r \in failed'
           \/ plan[r].op \notin {"create", "update"} \/ plan[r].deps = {}
           \/ state'[r].icon = UNION {Ids(a) : a \in plan[r].deps}
    PROVE  PickUpInv'
<1>1. phase = "apply" /\ plan[r] # NoStep /\ r \in todo /\ plan[r].deps \cap todo = {}
  BY NextIsFirst, ZenonT(60)
<1>2. phase' = phase /\ plan' = plan /\ todo' = todo \ {r}
  BY ZenonT(60) DEF Advance
<1>3. IconsFirst'
  BY <1>1, <1>2, ZenonT(60) DEF PickUpInv, IconsFirst
<1>4. ASSUME NEW q \in Resources, q \notin todo', plan[q] # NoStep
      PROVE  \A a \in plan[q].deps : Ids(a)' = Ids(a)
  <2> SUFFICES ASSUME NEW a \in plan[q].deps
               PROVE  Ids(a)' = Ids(a)
    BY ZenonT(60)
  <2>1. a \in Resources
    BY <1>1, <1>4, ZenonT(60) DEF Inv, Planned
  <2>2. a # r
    BY <1>1, <1>2, <1>4, ZenonT(60) DEF PickUpInv, IconsFirst
  <2> QED
    BY <2>1, <2>2, ZenonT(60) DEF Ids
<1>5. DependentsPickUp'
  <2> SUFFICES ASSUME NEW q \in Resources, q \notin todo', q \notin failed',
                      plan[q] # NoStep, plan[q].op \in {"create", "update"}, plan[q].deps # {}
               PROVE  state'[q].icon = UNION {Ids(a)' : a \in plan[q].deps}
    BY <1>2, ZenonT(60) DEF DependentsPickUp
  <2>1. UNION {Ids(a)' : a \in plan[q].deps} = UNION {Ids(a) : a \in plan[q].deps}
    BY <1>4, ZenonT(60)
  <2>2. CASE q = r
    BY <2>1, <2>2, ZenonT(60)
  <2>3. CASE q # r
    <3>1. state[q].icon = UNION {Ids(a) : a \in plan[q].deps}
      BY <1>1, <1>2, <2>3, ZenonT(60) DEF PickUpInv, DependentsPickUp
    <3> QED
      BY <2>1, <2>3, <3>1, ZenonT(60)
  <2> QED
    BY <2>2, <2>3, ZenonT(60)
<1> QED
  BY <1>3, <1>5, ZenonT(60) DEF PickUpInv

LEMMA ReadyInv == Inv => DependenciesReady
<1> SUFFICES ASSUME Inv, NEW r \in Resources, Runs(r), NEW a \in plan[r].deps
             PROVE  state[a] # NoEntry /\ state[a].hash = plan[a].hash
  BY ZenonT(60) DEF DependenciesReady
<1>1. phase = "apply" /\ plan[r] # NoStep /\ a \notin todo
  BY NextIsFirst, ZenonT(60) DEF Runs
<1>2. a \in Resources /\ plan[a] # NoStep /\ plan[a].op # "delete"
  BY <1>1, ZenonT(60) DEF Inv, Planned
<1>3. a \notin failed
  BY ZenonT(60) DEF Runs, FailedDep
<1> QED
  BY <1>1, <1>2, <1>3, ZenonT(60) DEF Inv, Done, Holds

LEMMA PickUpStep == Inv /\ PickUpInv /\ [Next]_vars => PickUpInv'
<1> SUFFICES ASSUME Inv, PickUpInv, [Next]_vars
             PROVE  PickUpInv'
  BY ZenonT(60)
<1>1. CASE UNCHANGED <<state, run>>
  BY <1>1 DEF run, PickUpInv, IconsFirst, DependentsPickUp, Ids
<1>2. CASE EndRun
  BY <1>2, ZenonT(60) DEF EndRun, PickUpInv, IconsFirst, DependentsPickUp
<1>3. CASE \E allowDeletes \in BOOLEAN : Plan(allowDeletes)
  <2>1. phase' = "confirm" /\ plan' = Steps
    BY <1>3, ZenonT(60) DEF Plan
  <2>2. ASSUME NEW r \in Resources, Steps[r] # NoStep, NEW a \in Steps[r].deps
        PROVE  Kind[a] = "asset"
    <3>1. CASE Wanted(r)
      <4>1. desired[r] \in Versions(r) /\ Steps[r].deps = Icon(r, desired[r])
        <5>1. Types
          BY ZenonT(60) DEF Inv
        <5>2. Steps[r] = [op |-> Op(r), hash |-> desired[r], deps |-> Icon(r, desired[r])] /\ desired[r] \in Versions(r)
          BY <3>1, <5>1, StepsTyped, ZenonT(60)
        <5> QED
          BY <5>2
      <4> QED
        BY <2>2, <4>1, IconAssumption, ZenonT(60)
    <3>2. CASE ~Wanted(r)
      BY <2>2, <3>2, ZenonT(60) DEF Steps
    <3> QED
      BY <3>1, <3>2, ZenonT(60)
  <2> QED
    BY <2>1, <2>2, ZenonT(60) DEF PickUpInv, IconsFirst, DependentsPickUp
<1>4. CASE Confirm
  BY <1>4, ZenonT(60) DEF Confirm, PickUpInv, IconsFirst, DependentsPickUp
<1>5. ASSUME NEW r \in Resources, Unchanged(r) \/ SkipStep(r)
      PROVE  PickUpInv'
  <2>1. CASE Unchanged(r)
    <3>1. IsNext(r, {"no-op"}) /\ Advance(r) /\ failed' = failed /\ state' = state /\ plan[r].op = "no-op"
      BY <2>1, ZenonT(60) DEF Unchanged, IsNext
    <3> QED
      BY <3>1, StepPicksUp, ZenonT(60)
  <2>2. CASE SkipStep(r)
    <3>1. IsNext(r, {"create", "update"}) /\ Advance(r) /\ failed' = failed \cup {r} /\ state' = state
      BY <2>2, ZenonT(60) DEF SkipStep
    <3> QED
      BY <3>1, StepPicksUp, ZenonT(60)
  <2> QED
    BY <1>5, <2>1, <2>2, ZenonT(60)
<1>6. ASSUME NEW r \in Resources, RefuseStep(r) \/ FailStep(r) \/ RefuseDelete(r) \/ FailDelete(r)
      PROVE  PickUpInv'
  <2>1. /\ IsNext(r, {"create", "update"}) \/ IsNext(r, {"delete"})
        /\ Advance(r) /\ failed' = failed \cup {r} /\ state' = state
    BY <1>6, Zenon DEF RefuseStep, FailStep, RefuseDelete, FailDelete, Runs
  <2> QED
    BY ZenonT(60), <2>1, StepPicksUp
<1>7. ASSUME NEW r \in Resources, DeleteStep(r)
      PROVE  PickUpInv'
  <2>1. IsNext(r, {"delete"}) /\ Advance(r) /\ failed' = failed /\ plan[r].op = "delete"
    BY <1>7, ZenonT(60) DEF DeleteStep, IsNext
  <2>2. \A q \in Resources : q # r => state'[q] = state[q]
    BY <1>7, ZenonT(60) DEF DeleteStep, Inv, Types
  <2> QED
    BY <2>1, <2>2, StepPicksUp, ZenonT(60)
<1>8. ASSUME NEW r \in Resources, ApplyStep(r)
      PROVE  PickUpInv'
  <2> DEFINE now == UNION {Ids(a) : a \in plan[r].deps}
  <2>1. Runs(r) /\ IsNext(r, {"create", "update"}) /\ Advance(r) /\ failed' = failed
    BY <1>8, ZenonT(60) DEF ApplyStep, Runs
  <2>2. PICK ids : state' = [state EXCEPT ![r] = [hash |-> plan[r].hash, ids |-> ids, icon |-> IconIds(r)]]
    BY <1>8, ZenonT(60) DEF ApplyStep
  <2>3. state'[r].icon = IconIds(r) /\ \A q \in Resources : q # r => state'[q] = state[q]
    BY <2>2, ZenonT(60) DEF Inv, Types
  <2>4. CASE plan[r].deps = {}
    BY <2>1, <2>3, <2>4, StepPicksUp, ZenonT(60)
  <2>5. CASE plan[r].deps # {}
    <3>1. PICK a \in plan[r].deps : TRUE
      BY <2>5, ZenonT(60)
    <3>2. state[a] # NoEntry
      BY <2>1, ReadyInv, ZenonT(60) DEF DependenciesReady
    <3>3. a \in Resources /\ Kind[a] = "asset"
      BY <2>1, NextIsFirst, ZenonT(60) DEF Inv, Planned, PickUpInv, IconsFirst
    <3>4. Ids(a) # {}
      BY <3>2, <3>3, ZenonT(60) DEF Inv, Remote, Own, Single
    <3>5. IconIds(r) = now
      BY <3>1, <3>4, ZenonT(60) DEF IconIds
    <3> QED
      BY <2>1, <2>3, <3>5, StepPicksUp, ZenonT(60)
  <2> QED
    BY <2>4, <2>5, ZenonT(60)
<1>9. CASE Decline \/ Finish \/ (\E r \in Resources : InterruptStep(r) \/ InterruptDelete(r))
  BY <1>2, <1>9, ZenonT(60) DEF Decline, Finish, InterruptStep, InterruptDelete
<1>10. CASE UNCHANGED vars \/ (\E r \in Resources : Edit(r))
  BY <1>1, <1>10, ZenonT(60) DEF Edit, vars
<1> QED
  BY <1>3, <1>4, <1>5, <1>6, <1>7, <1>8, <1>9, <1>10, ZenonT(60) DEF Next, Command, Step
-------------------------------------------------------------------------------
(***************************************************************************)
(* Orphans.  What is done to the objects of a resource leaves each as it   *)
(* is, makes it a recorded one, or turns it off; a new object is recorded  *)
(* or the answer was lost.                                                 *)
(***************************************************************************)
Removable == {"badge", "pass", "link"}

Orphans == {o \in live : Kind[o.of] \in Removable /\ o.status = "on" /\ o.id \notin Ids(o.of)}

\* A resource that is still to be created has no entry.
CreateInv ==
    phase # "idle" => \A r \in Resources :
        plan[r] # NoStep /\ plan[r].op = "create" /\ (phase = "confirm" \/ r \in todo) => state[r] = NoEntry

\* What a step may lose track of: nothing or, with a fault, one object.
Loses ==
    \/ faults' = faults /\ Orphans' \subseteq Orphans
    \/ faults' = faults + 1 /\ \E x : Orphans' \subseteq Orphans \cup {x}

LEMMA CallOrphans ==
    ASSUME NEW r \in Resources, Kind[r] \in Removable, NEW v, NEW o \in Calls(r, v)
    PROVE  /\ plan[r].op = "create" => o.ok /\ o.ids = {nextId} /\ \A p \in o.live : p \in live \/ p = Object(nextId, r, v)
           /\ plan[r].op # "create" => o.ids = Ids(r) /\ \A p \in o.live : p \in live \/ p.id \in Ids(r)
<1>1. Kind[r] \in {"badge", "pass", "link", "product"} /\ Kind[r] \notin {"file", "settings"}
  BY ZenonT(60) DEF Removable
<1>2. CASE plan[r].op = "create"
  <2>1. o \in Created(r, v)
    BY <1>1, <1>2, ZenonT(60) DEF Calls
  <2>2. o.live = live \cup {Object(nextId, r, v)} /\ o.ids = {nextId} /\ o.ok
    BY <2>1 DEF Created, Outcome
  <2> QED
    BY ZenonT(60), <1>2, <2>2
<1>3. CASE plan[r].op # "create"
  <2>1. o \in Updated(r, v)
    BY <1>1, <1>3, ZenonT(60) DEF Calls
  <2>2. o.live = {IF p.id \in Ids(r) THEN Renewed(r, v, p) ELSE p : p \in live} /\ o.ids = Ids(r)
    BY <2>1 DEF Updated, Outcome
  <2>3. \A p : Renewed(r, v, p).id = p.id
    BY ZenonT(60) DEF Renewed
  <2>4. \A p \in o.live : p \in live \/ p.id \in Ids(r)
    BY <2>2, <2>3, ZenonT(60)
  <2> QED
    BY <1>3, <2>2, <2>4, ZenonT(60)
<1> QED
  BY ZenonT(60), <1>2, <1>3

LEMMA DeleteOrphans ==
    ASSUME Types, NEW r \in Resources, Kind[r] \in Removable
    PROVE  /\ \A o \in DeleteCallsStopped(r) : \A p \in o.live : p \in live \/ p.status # "on"
           /\ \A o \in DeleteCalls(r) : o.ok => \A p \in o.live : p.status = "on" => p.id \notin Ids(r)
<1>1. CASE Kind[r] \in {"badge", "pass"}
  <2>1. DeleteCalls(r) = {[live |-> {IF o.id \in Ids(r) THEN [o EXCEPT !.status = "off"] ELSE o : o \in live}, ok |-> TRUE]}
    BY <1>1, ZenonT(60) DEF DeleteCalls
  <2>2. \A p \in live : [p EXCEPT !.status = "off"].status = "off"
    BY DEF Types, TypeOK
  <2>3. ASSUME NEW o \in DeleteCalls(r), NEW p \in o.live
        PROVE  (p \in live /\ p.id \notin Ids(r)) \/ p.status = "off"
    <3>1. o.live = {IF q.id \in Ids(r) THEN [q EXCEPT !.status = "off"] ELSE q : q \in live}
      BY <2>1
    <3>2. PICK q \in live : p = IF q.id \in Ids(r) THEN [q EXCEPT !.status = "off"] ELSE q
      BY <3>1, ZenonT(60)
    <3> QED
      BY ZenonT(60), <2>2, <3>2
  <2>4. \A o \in DeleteCallsStopped(r) : o.live = live \/ o \in DeleteCalls(r)
    BY <1>1 DEF DeleteCallsStopped
  <2>5. "off" # "on"
    BY ZenonT(60)
  <2> QED
    BY ZenonT(60), <2>3, <2>4, <2>5
<1>2. CASE Kind[r] = "link"
  <2>1. DeleteCalls(r) = Deleted(Ids(r))
    BY <1>2, ZenonT(60) DEF DeleteCalls
  <2>2. \A o \in Deleted(Ids(r)) : o.live \subseteq live /\ (o.ok => \A p \in o.live : p.id \notin Ids(r))
    BY DEF Deleted
  <2>3. \A o \in DeleteCallsStopped(r) : o.live = live \/ o \in DeleteCalls(r)
    BY <1>2 DEF DeleteCallsStopped
  <2> QED
    BY ZenonT(60), <2>1, <2>2, <2>3
<1> QED
  BY <1>1, <1>2, ZenonT(60) DEF Removable

\* A call of r: where the other resources are left alone, its own objects
\* decide.
LEMMA OwnOrphans ==
    ASSUME NEW r \in Resources, NEW k, NEW L, Fits(r, L, k), live' = L,
           \A q \in Resources : q # r => state'[q] = state[q], live \subseteq Objects(nextId),
           NEW X, \A p \in L : p.of = r /\ Kind[r] \in Removable /\ p.status = "on" /\ p.id \notin Ids(r)' =>
                        p \in X \/ (p \in live /\ p.id \notin Ids(r))
    PROVE  Orphans' \subseteq Orphans \cup X
<1> SUFFICES ASSUME NEW p \in L, Kind[p.of] \in Removable, p.status = "on", p.id \notin Ids(p.of)'
             PROVE  p \in Orphans \cup X
  BY ZenonT(60) DEF Orphans
<1>1. CASE p.of = r
  BY <1>1, ZenonT(60) DEF Orphans
<1>2. CASE p.of # r
  <2>1. p \in live
    BY <1>2, ZenonT(60) DEF Fits
  <2>2. p.of \in Resources
    BY <2>1, ZenonT(60) DEF Objects
  <2>3. Ids(p.of)' = Ids(p.of)
    BY <1>2, <2>2, ZenonT(60) DEF Ids
  <2> QED
    BY <2>1, <2>3, ZenonT(60) DEF Orphans
<1> QED
  BY <1>1, <1>2, ZenonT(60)

\* CreateInv over a step of r, which only r's entry may take part in.
LEMMA StepCreates ==
    ASSUME CreateInv, phase = "apply", NEW r \in Resources, Advance(r) \/ EndRun,
           \A q \in Resources : q # r => state'[q] = state[q]
    PROVE  CreateInv'
<1>1. CASE EndRun
  BY <1>1, ZenonT(60) DEF EndRun, CreateInv
<1>2. CASE Advance(r)
  <2>1. plan' = plan /\ phase' = "apply" /\ todo' = todo \ {r}
    BY <1>2, ZenonT(60) DEF Advance
  <2>2. "apply" # "idle" /\ "apply" # "confirm"
    OBVIOUS
  <2> QED
    BY <2>1, <2>2, ZenonT(60) DEF CreateInv
<1> QED
  BY <1>1, <1>2, ZenonT(60)

\* A step that leaves the objects and the entries alone.
LEMMA SameOrphans ==
    ASSUME UNCHANGED <<live, state, faults>>
    PROVE  Loses
<1>1. Orphans' \subseteq Orphans
  BY ZenonT(60) DEF Orphans, Ids
<1> QED
  BY <1>1, ZenonT(60) DEF Loses

LEMMA InvParts ==
    ASSUME Inv
    PROVE  Types /\ Own /\ live \subseteq Objects(nextId)
BY ZenonT(60) DEF Inv, Remote, Types, TypeOK, Objects

LEMMA NewEntryIds == \A r, o : NewEntry(r, o).ids = o.ids
  BY DEF NewEntry

LEMMA ApplyOrphans ==
    ASSUME Inv, CreateInv, NEW r \in Resources, ApplyStep(r)
    PROVE  CreateInv' /\ Loses
<1>1. /\ phase = "apply" /\ r \in todo /\ plan[r] # NoStep
      /\ Count(plan[r].hash) \in Nat /\ Contents(r) \subseteq Versions(r)
  BY NextIsTyped, ZenonT(60) DEF ApplyStep, Runs, Inv
<1>2. PICK v \in Contents(r) : \E o \in Calls(r, v) :
        o.ok /\ TakeEffect(o) /\ state' = [state EXCEPT ![r] = NewEntry(r, o)]
  BY ZenonT(60) DEF ApplyStep, NewEntry
<1>3. PICK o \in Calls(r, v) :
        o.ok /\ TakeEffect(o) /\ state' = [state EXCEPT ![r] = NewEntry(r, o)]
  BY <1>2, ZenonT(60)
<1>4. live' = o.live /\ faults' = faults /\ Advance(r)
  BY <1>3, ZenonT(60) DEF ApplyStep, TakeEffect
<1>5. /\ state'[r] = NewEntry(r, o)
      /\ \A q \in Resources : q # r => state'[q] = state[q]
  BY <1>3, ZenonT(60) DEF Inv, Types
<1>6. CreateInv'
  BY <1>1, <1>4, <1>5, StepCreates, ZenonT(60)
<1>7. Ids(r)' = o.ids
  <2>1. state'[r].ids = o.ids
    BY <1>5, NewEntryIds, ZenonT(60)
  <2>2. state'[r] # NoEntry
    BY <1>3, <1>5, CallRecorded, ZenonT(60) DEF ApplyStep, TakeEffect, NewEntry
  <2> QED
    BY <2>1, <2>2, ZenonT(60) DEF Ids
<1>8. Fits(r, o.live, o.used)
  <2>1. o \in CallsStopped(r, v)
    BY <1>3, ZenonT(60) DEF CallsStopped
  <2> QED
    BY <1>1, <2>1, InvParts, CallsFit, ZenonT(60)
<1>9. ASSUME NEW p \in o.live, Kind[r] \in Removable, p.id \notin Ids(r)'
      PROVE  p \in live /\ p.id \notin Ids(r)
  <2>1. CASE plan[r].op = "create"
    <3>1. Ids(r) = {}
      BY <1>1, <2>1, ZenonT(60) DEF CreateInv, Ids
    <3>2. o.ids = {nextId} /\ (p \in live \/ p = Object(nextId, r, v))
      BY <1>9, <2>1, CallOrphans, ZenonT(60)
    <3>3. Object(nextId, r, v).id = nextId
      BY ZenonT(60) DEF Object
    <3> QED
      BY <1>7, <1>9, <3>1, <3>2, <3>3, ZenonT(60)
  <2>2. CASE plan[r].op # "create"
    <3>1. o.ids = Ids(r) /\ (p \in live \/ p.id \in Ids(r))
      BY <1>9, <2>2, CallOrphans, ZenonT(60)
    <3> QED
      BY <1>7, <1>9, <3>1, ZenonT(60)
  <2> QED
    BY <2>1, <2>2
<1>10. Orphans' \subseteq Orphans \cup {}
  BY <1>4, <1>5, <1>8, <1>9, InvParts, OwnOrphans, ZenonT(60)
<1>11. Loses
  BY <1>4, <1>10, ZenonT(60) DEF Loses
<1> QED
  BY <1>6, <1>11, ZenonT(60)

\* The call of a step that is not recorded.
LEMMA UnrecordedOrphans ==
    ASSUME Inv, CreateInv, NEW r \in Resources, RefuseStep(r) \/ FailStep(r) \/ InterruptStep(r)
    PROVE  CreateInv' /\ Loses
<1>1. /\ phase = "apply" /\ r \in todo /\ plan[r] # NoStep
      /\ Count(plan[r].hash) \in Nat /\ Contents(r) \subseteq Versions(r)
  BY NextIsTyped, ZenonT(60) DEF RefuseStep, FailStep, InterruptStep, Runs, Inv
<1>2. PICK v \in Contents(r) : \E o \in CallsStopped(r, v) :
        live' = o.live /\ ((o \in Calls(r, v) /\ ~o.ok /\ faults' = faults) \/ faults' = faults + 1)
  BY ZenonT(60) DEF RefuseStep, FailStep, InterruptStep, CallsStopped, TakeEffect, Fault
<1>3. PICK o \in CallsStopped(r, v) :
        live' = o.live /\ ((o \in Calls(r, v) /\ ~o.ok /\ faults' = faults) \/ faults' = faults + 1)
  BY <1>2, ZenonT(60)
<1>4. state' = state /\ (Advance(r) \/ EndRun)
  BY ZenonT(60) DEF RefuseStep, FailStep, InterruptStep
<1>5. CreateInv'
  BY <1>1, <1>4, StepCreates, ZenonT(60)
<1>6. Fits(r, o.live, o.used)
  BY <1>1, InvParts, CallsFit, ZenonT(60)
<1>7. Ids(r)' = Ids(r)
  BY <1>4, ZenonT(60) DEF Ids
<1>8. ASSUME Kind[r] \in Removable, NEW p \in o.live, p.id \notin Ids(r)
      PROVE  p \in live \/ (p = Object(nextId, r, v) /\ ~(o \in Calls(r, v) /\ ~o.ok))
  <2>1. CASE o \in Calls(r, v)
    BY <1>3, <1>8, <2>1, CallOrphans, ZenonT(60)
  <2>2. CASE o \notin Calls(r, v)
    <3>1. o = Outcome(live, 0, {}, FALSE)
      BY <1>8, <2>2, ZenonT(60) DEF CallsStopped, Removable
    <3>2. o.live = live
      BY <3>1, ZenonT(60) DEF Outcome
    <3> QED
      BY <1>8, <3>2, ZenonT(60)
  <2> QED
    BY ZenonT(60), <2>1, <2>2
<1>9. \A q \in Resources : q # r => state'[q] = state[q]
  BY <1>4, ZenonT(60)
<1>10. CASE o \in Calls(r, v) /\ ~o.ok /\ faults' = faults
  <2>1. Orphans' \subseteq Orphans \cup {}
    <3>1. \A p \in o.live : p.of = r /\ Kind[r] \in Removable /\ p.status = "on" /\ p.id \notin Ids(r)' =>
            p \in {} \/ (p \in live /\ p.id \notin Ids(r))
      BY <1>7, <1>8, <1>10, ZenonT(60)
    <3> QED
      BY <1>3, <1>6, <1>9, <3>1, InvParts, OwnOrphans, ZenonT(60)
  <2>2. Loses
    BY <1>10, <2>1, ZenonT(60) DEF Loses
  <2> QED
    BY <1>5, <2>2, ZenonT(60)
<1>11. CASE faults' = faults + 1
  <2>1. Orphans' \subseteq Orphans \cup {Object(nextId, r, v)}
    <3>1. \A p \in o.live : p.of = r /\ Kind[r] \in Removable /\ p.status = "on" /\ p.id \notin Ids(r)' =>
            p \in {Object(nextId, r, v)} \/ (p \in live /\ p.id \notin Ids(r))
      BY <1>7, <1>8, ZenonT(60)
    <3> QED
      BY <1>3, <1>6, <1>9, <3>1, InvParts, OwnOrphans, ZenonT(60)
  <2>2. Loses
    BY <1>11, <2>1, ZenonT(60) DEF Loses
  <2> QED
    BY <1>5, <2>2, ZenonT(60)
<1> QED
  BY <1>3, <1>10, <1>11, ZenonT(60)

LEMMA DeleteStepOrphans ==
    ASSUME Inv, CreateInv, NEW r \in Resources, DeleteStep(r)
    PROVE  CreateInv' /\ Loses
<1>1. PICK o \in DeleteCalls(r) : o.ok /\ live' = o.live
  BY ZenonT(60) DEF DeleteStep
<1>2. /\ phase = "apply" /\ Advance(r) /\ faults' = faults
      /\ state'[r] = NoEntry /\ \A q \in Resources : q # r => state'[q] = state[q]
  BY ZenonT(60) DEF DeleteStep, IsNext, Inv, Types
<1>3. CreateInv'
  BY <1>2, StepCreates, ZenonT(60)
<1>4. o \in DeleteCallsStopped(r)
  BY ZenonT(60) DEF DeleteCallsStopped
<1>5. Fits(r, o.live, 0)
  BY <1>4, InvParts, DeleteCallsFit, ZenonT(60)
<1>6. ASSUME NEW p \in o.live, Kind[r] \in Removable, p.status = "on"
      PROVE  p \in live /\ p.id \notin Ids(r)
  BY <1>1, <1>4, <1>6, InvParts, DeleteOrphans, ZenonT(60)
<1>7. Orphans' \subseteq Orphans \cup {}
  BY <1>1, <1>2, <1>5, <1>6, InvParts, OwnOrphans, ZenonT(60)
<1>8. Loses
  BY <1>2, <1>7, ZenonT(60) DEF Loses
<1> QED
  BY <1>3, <1>8, ZenonT(60)

LEMMA UndeletedOrphans ==
    ASSUME Inv, CreateInv, NEW r \in Resources, RefuseDelete(r) \/ FailDelete(r) \/ InterruptDelete(r)
    PROVE  CreateInv' /\ Loses
<1>1. PICK o \in DeleteCallsStopped(r) : live' = o.live
  BY ZenonT(60) DEF RefuseDelete, FailDelete, InterruptDelete, DeleteCallsStopped
<1>2. /\ phase = "apply" /\ state' = state /\ (Advance(r) \/ EndRun)
      /\ faults' = faults \/ faults' = faults + 1
  BY ZenonT(60) DEF RefuseDelete, FailDelete, InterruptDelete, IsNext, Fault
<1>3. CreateInv'
  BY <1>2, StepCreates, ZenonT(60)
<1>4. Fits(r, o.live, 0)
  BY InvParts, DeleteCallsFit, ZenonT(60)
<1>5. ASSUME NEW p \in o.live, Kind[r] \in Removable, p.status = "on"
      PROVE  p \in live
  BY <1>5, InvParts, DeleteOrphans, ZenonT(60)
<1>6. Ids(r)' = Ids(r)
  BY <1>2, ZenonT(60) DEF Ids
<1>7. Orphans' \subseteq Orphans \cup {}
  <2>1. \A p \in o.live : p.of = r /\ Kind[r] \in Removable /\ p.status = "on" /\ p.id \notin Ids(r)' =>
          p \in {} \/ (p \in live /\ p.id \notin Ids(r))
    BY <1>5, <1>6, ZenonT(60)
  <2>2. \A q \in Resources : q # r => state'[q] = state[q]
    BY <1>2, ZenonT(60)
  <2> QED
    BY <1>1, <1>4, <2>1, <2>2, InvParts, OwnOrphans, ZenonT(60)
<1>8. Loses
  BY <1>2, <1>7, ZenonT(60) DEF Loses
<1> QED
  BY <1>3, <1>8, ZenonT(60)

LEMMA OrphanStep == Inv /\ CreateInv /\ [Next]_vars => CreateInv' /\ Loses
<1> SUFFICES ASSUME Inv, CreateInv, [Next]_vars
             PROVE  CreateInv' /\ Loses
  BY ZenonT(60)
<1>1. CASE UNCHANGED <<state, live, faults>> /\ (UNCHANGED run \/ EndRun)
  <2>1. CreateInv'
    BY <1>1, ZenonT(60) DEF run, EndRun, CreateInv
  <2> QED
    BY <1>1, <2>1, SameOrphans, ZenonT(60)
<1>2. CASE \E allowDeletes \in BOOLEAN : Plan(allowDeletes)
  <2>1. plan' = Steps /\ UNCHANGED <<state, live, faults>>
    BY <1>2, ZenonT(60) DEF Plan, remote
  <2>2. ASSUME NEW r \in Resources, Steps[r] # NoStep, Steps[r].op = "create"
        PROVE  state[r] = NoEntry
    <3>1. CASE Wanted(r)
      <4>1. Steps[r].op = Op(r)
        BY <3>1, ZenonT(60) DEF Steps
      <4> QED
        BY <2>2, <4>1, ZenonT(60) DEF Op
    <3>2. CASE ~Wanted(r)
      BY <2>2, <3>2, ZenonT(60) DEF Steps
    <3> QED
      BY <3>1, <3>2, ZenonT(60)
  <2>3. CreateInv'
    BY <2>1, <2>2, ZenonT(60) DEF CreateInv
  <2> QED
    BY <2>1, <2>3, SameOrphans, ZenonT(60)
<1>3. CASE Confirm
  <2>1. phase = "confirm" /\ plan' = plan /\ UNCHANGED <<state, live, faults>>
    BY <1>3, ZenonT(60) DEF Confirm, remote
  <2>2. CreateInv'
    BY <2>1, ZenonT(60) DEF CreateInv
  <2> QED
    BY <2>1, <2>2, SameOrphans, ZenonT(60)
<1>4. ASSUME NEW r \in Resources, Unchanged(r) \/ SkipStep(r)
      PROVE  CreateInv' /\ Loses
  <2>1. phase = "apply" /\ Advance(r) /\ UNCHANGED <<state, live, faults>>
    BY <1>4, ZenonT(60) DEF Unchanged, SkipStep, IsNext, remote
  <2>2. CreateInv'
    BY <2>1, StepCreates, ZenonT(60)
  <2> QED
    BY <2>1, <2>2, SameOrphans, ZenonT(60)
<1>5. CASE Decline \/ Finish \/ (\E r \in Resources : Edit(r)) \/ UNCHANGED vars
  <2>1. UNCHANGED <<state, remote, faults>> /\ (UNCHANGED run \/ EndRun)
    BY <1>5, ZenonT(60) DEF Decline, Finish, Edit, vars
  <2> QED
    BY <1>1, <2>1, ZenonT(60) DEF remote
<1> QED
  BY <1>2, <1>3, <1>4, <1>5, ApplyOrphans, UnrecordedOrphans, DeleteStepOrphans, UndeletedOrphans, ZenonT(60)
  DEF Next, Command, Step
-------------------------------------------------------------------------------
\* The types, and todo is always a part of the plan.
THEOREM TypeCorrect == Spec => []TypeOK
<1>1. Inv => TypeOK
  BY ZenonT(60) DEF Inv, Types
<1> QED
  BY <1>1, InvHolds, PTL

\* The state file tells the truth about every resource that no fault has
\* touched, whatever is edited, refused or interrupted: Apply records a step
\* only after its call, and every call by the recorded ids.
THEOREM StateIsTruthful == Spec => []Truthful
<1>1. Inv => Truthful
  BY ZenonT(60) DEF Inv, Remote
<1> QED
  BY <1>1, InvHolds, PTL

\* topoSort and failedDep: a step is carried out only with its dependencies
\* deployed as planned.
THEOREM DependenciesAreReady == Spec => []DependenciesReady
BY ReadyInv, InvHolds, PTL

\* Apply without failures leaves the state that BuildPlan aimed at.
THEOREM AppliesInFull == Spec => []AppliedInFull
<1>1. Inv => AppliedInFull
  BY DEF Inv, Planned, Done, Holds, AppliedInFull
<1> QED
  BY <1>1, InvHolds, PTL

\* A dependent that this apply has created or updated records the id its icon
\* has now: topoSort puts assets first, and they are done when it is.
THEOREM DependentsDoPickUp == Spec => []DependentsPickUp
<1>1. Init => PickUpInv
  BY ZenonT(60) DEF Init, PickUpInv, IconsFirst, DependentsPickUp
<1>2. PickUpInv => DependentsPickUp
  BY DEF PickUpInv
<1> QED
  BY <1>1, <1>2, PickUpStep, InitInv, NextInv, PTL DEF Spec
-------------------------------------------------------------------------------
(***************************************************************************)
(* What a plan is worth.                                                   *)
(***************************************************************************)

\* The resource is deployed as it is configured, or not at all.
AsConfigured(r) ==
    IF Wanted(r)
    THEN /\ state[r] # NoEntry
         /\ Recorded(r) # {} \/ Kind[r] = "thumbnails"
         /\ \A id \in Ids(r) : \E o \in Recorded(r) : o.id = id
         /\ \A o \in Recorded(r) : o.value = desired[r] /\ o.status = "on"
    ELSE state[r] = NoEntry

NothingToDo == ~HasChanges => \A r \in Resources \ (torn \cup cut) : AsConfigured(r)

\* A plan without changes means that what exists remotely is what is configured,
\* for every resource that no fault and no late edit has touched: the state file
\* that BuildPlan compares with can be believed.  It is what EventuallyDeployed
\* has to say of the state in which nothing is left to apply.
THEOREM NoChangesMeansDeployed == Spec => []NothingToDo
<1>1. Inv => NothingToDo
  <2> SUFFICES ASSUME Inv, ~HasChanges, NEW r \in Resources, r \notin torn \cup cut
               PROVE  AsConfigured(r)
    BY ZenonT(60) DEF NothingToDo
  <2>1. Steps[r] = NoStep \/ Steps[r].op = "no-op"
    BY ZenonT(60) DEF HasChanges
  <2>2. Types /\ Truth(r)
    BY ZenonT(60) DEF Inv, Remote, Truthful
  <2>3. CASE Wanted(r)
    <3> DEFINE step == [op |-> Op(r), hash |-> desired[r], deps |-> Icon(r, desired[r])]
    <3>1. Steps[r] = step
      BY <2>3, ZenonT(60) DEF Steps
    <3>2. step.op = Op(r) /\ step \in StepOf(r)
      <4>1. step.op = Op(r)
        OBVIOUS
      <4>2. desired[r] \in Versions(r)
        BY <2>2, <2>3, StepsTyped, ZenonT(60)
      <4>3. Icon(r, desired[r]) \subseteq Resources
        BY <4>2, IconAssumption, ZenonT(60)
      <4>4. Op(r) \in {"create", "update", "no-op"}
        BY ZenonT(60) DEF Op
      <4> QED
        BY <4>1, <4>2, <4>3, <4>4, ZenonT(60) DEF StepOf
    <3>3. Op(r) = "no-op"
      BY <2>1, <3>1, <3>2, MarkerAssumption, ZenonT(60)
    <3>4. state[r] # NoEntry /\ state[r].hash = desired[r]
      BY <3>3, ZenonT(60) DEF Op
    <3> QED
      BY <2>2, <2>3, <3>4, ZenonT(60) DEF Truth, AsConfigured
  <2>4. CASE ~Wanted(r)
    <3>1. r \in Gone => Steps[r] = [op |-> "delete", hash |-> Absent, deps |-> {}]
      BY <2>4, ZenonT(60) DEF Steps
    <3> DEFINE step == [op |-> "delete", hash |-> Absent, deps |-> {}]
    <3>2. step.op = "delete" /\ step \in StepOf(r)
      BY ZenonT(60) DEF StepOf
    <3>3. r \notin Gone
      BY <2>1, <3>1, <3>2, MarkerAssumption, ZenonT(60)
    <3> QED
      BY <2>4, <3>3, ZenonT(60) DEF Gone, AsConfigured
  <2> QED
    BY ZenonT(60), <2>3, <2>4
<1> QED
  BY <1>1, InvHolds, PTL

\* Nothing but r has changed, neither its entry nor its objects.
OnlyOf(r) ==
    /\ \A q \in Resources \ {r} : state'[q] = state[q]
    /\ \A o : o.of # r => (o \in live <=> o \in live')

\* What r is about in the plan that was shown.
Shown(r) == phase = "apply" /\ r \in todo /\ plan[r].op # "no-op" /\ OnlyOf(r)

LEMMA FitsOnly ==
    ASSUME NEW r \in Resources, NEW L, NEW k, Fits(r, L, k), live' = L,
           \A q \in Resources \ {r} : state'[q] = state[q]
    PROVE  OnlyOf(r)
BY ZenonT(60) DEF Fits, OnlyOf

\* What changes remotely or in the state file was shown and confirmed: an apply
\* changes one resource at a time, one whose step in the plan is not a no-op and
\* is still to be done, and leaves every other one alone, whether the call
\* succeeds, fails half way or ends with the process.
THEOREM PlanIsBinding == Spec => [][UNCHANGED <<state, live>> \/ \E r \in Resources : Shown(r)]_vars
<1>1. ASSUME Inv, NEW r \in Resources, ApplyStep(r) \/ RefuseStep(r) \/ FailStep(r) \/ InterruptStep(r)
      PROVE  Shown(r)
  <2>1. Runs(r)
    BY <1>1, ZenonT(60) DEF ApplyStep, RefuseStep, FailStep, InterruptStep
  <2>2. Types /\ Own /\ IsNext(r, {"create", "update"})
    BY <1>1, <2>1, ZenonT(60) DEF Inv, Remote, Runs
  <2>3. phase = "apply" /\ r \in todo /\ plan[r].op # "no-op"
    BY <2>2, ZenonT(60) DEF IsNext
  <2>4. Count(plan[r].hash) \in Nat /\ Contents(r) \subseteq Versions(r)
    BY <2>2, NextIsTyped, ZenonT(60)
  <2>5. PICK v \in Contents(r) : \E o \in CallsStopped(r, v) : live' = o.live
    BY <1>1, ZenonT(60) DEF ApplyStep, RefuseStep, FailStep, InterruptStep, TakeEffect, CallsStopped
  <2>6. PICK o \in CallsStopped(r, v) : live' = o.live
    BY ZenonT(60), <2>5
  <2>7. Fits(r, o.live, o.used)
    BY <2>2, <2>4, CallsFit, ZenonT(60)
  <2>8. \A q \in Resources \ {r} : state'[q] = state[q]
    BY <1>1, <2>2, StateTyped, ZenonT(60) DEF ApplyStep, RefuseStep, FailStep, InterruptStep
  <2> QED
    BY <2>3, <2>6, <2>7, <2>8, FitsOnly, ZenonT(60) DEF Shown
<1>2. ASSUME Inv, NEW r \in Resources, DeleteStep(r) \/ RefuseDelete(r) \/ FailDelete(r) \/ InterruptDelete(r)
      PROVE  Shown(r)
  <2>1. Types /\ Own
    BY <1>2, ZenonT(60) DEF Inv, Remote
  <2>2. phase = "apply" /\ r \in todo /\ plan[r].op # "no-op"
    BY <1>2, ZenonT(60) DEF DeleteStep, RefuseDelete, FailDelete, InterruptDelete, IsNext
  <2>3. PICK o \in DeleteCallsStopped(r) : live' = o.live
    BY <1>2, ZenonT(60) DEF DeleteStep, RefuseDelete, FailDelete, InterruptDelete, DeleteCallsStopped
  <2>4. Fits(r, o.live, 0)
    BY <2>1, <2>3, DeleteCallsFit, ZenonT(60)
  <2>5. \A q \in Resources \ {r} : state'[q] = state[q]
    BY <1>2, <2>1, StateTyped, ZenonT(60) DEF DeleteStep, RefuseDelete, FailDelete, InterruptDelete
  <2> QED
    BY <2>2, <2>3, <2>4, <2>5, FitsOnly, ZenonT(60) DEF Shown
<1>3. ASSUME NEW r \in Resources, Unchanged(r) \/ SkipStep(r) \/ Edit(r)
      PROVE  UNCHANGED <<state, live>>
  BY <1>3, ZenonT(60) DEF Unchanged, SkipStep, Edit, remote
<1>4. ASSUME Confirm \/ Decline \/ Finish \/ \E allowDeletes \in BOOLEAN : Plan(allowDeletes)
      PROVE  UNCHANGED <<state, live>>
  BY <1>4, ZenonT(60) DEF Confirm, Decline, Finish, Plan, remote
<1>5. ASSUME Inv, Next PROVE UNCHANGED <<state, live>> \/ \E r \in Resources : Shown(r)
  BY <1>1, <1>2, <1>3, <1>4, <1>5, ZenonT(60) DEF Next, Command, Step
<1>6. Inv /\ [Next]_vars => [UNCHANGED <<state, live>> \/ \E r \in Resources : Shown(r)]_vars
  BY <1>5, ZenonT(60)
<1> QED
  BY <1>6, InvHolds, PTL DEF Spec

\* Each step of an apply takes its resource off the list, failed or not, or ends
\* the run, and no edit puts one back: with finitely many resources an apply has
\* finitely many steps, and one that fails keeps none of the others from its turn.
THEOREM AppliesAdvance ==
    Spec => [][phase = "apply" =>
                  \/ phase' = "idle"
                  \/ phase' = phase /\ plan' = plan /\ \E r \in todo : todo' = todo \ {r}
                  \/ UNCHANGED run /\ \E r \in Resources : Edit(r)]_vars
<1> DEFINE Progress ==
        phase = "apply" =>
            \/ phase' = "idle"
            \/ phase' = phase /\ plan' = plan /\ \E r \in todo : todo' = todo \ {r}
            \/ UNCHANGED run /\ \E r \in Resources : Edit(r)
<1>1. ASSUME NEW r \in Resources, Step(r) PROVE Progress
  <2>1. (Advance(r) \/ EndRun) /\ r \in todo
    BY <1>1, ZenonT(60) DEF Step, Unchanged, SkipStep, ApplyStep, RefuseStep, FailStep, InterruptStep,
       DeleteStep, RefuseDelete, FailDelete, InterruptDelete, Runs, IsNext
  <2> QED
    BY <2>1, ZenonT(60) DEF Advance, EndRun
<1>2. ASSUME Decline \/ Finish \/ Confirm \/ \E allowDeletes \in BOOLEAN : Plan(allowDeletes) PROVE Progress
  BY <1>2, ZenonT(60) DEF Decline, Finish, Confirm, Plan, EndRun
<1>3. ASSUME NEW r \in Resources, Edit(r) PROVE Progress
  BY <1>3, ZenonT(60) DEF Edit
<1>4. ASSUME Next PROVE Progress
  <2>1. (\E r \in Resources : Step(r)) \/ (\E r \in Resources : Edit(r)) \/
        Decline \/ Finish \/ Confirm \/ \E allowDeletes \in BOOLEAN : Plan(allowDeletes)
    BY <1>4, ZenonT(60) DEF Next, Command
  <2> HIDE DEF Progress
  <2> QED
    BY <1>1, <1>2, <1>3, <2>1, ZenonT(60)
<1>5. [Next]_vars => [Progress]_vars
  BY <1>4, ZenonT(60)
<1> HIDE DEF Progress
<1>6. Spec => [][Progress]_vars
  BY <1>5, PTL DEF Spec
<1> QED
  BY <1>6, Zenon DEF Progress
-------------------------------------------------------------------------------
(***************************************************************************)
(* Counting the orphans.  The theorems on finite sets come with a          *)
(* Cardinality of their own; Size, its definition, shows it to be the one  *)
(* of OrphansBounded.                                                      *)
(***************************************************************************)
Size(set) ==
    LET size[part \in SUBSET set] == IF part = {} THEN 0 ELSE 1 + size[part \ {CHOOSE x : x \in part}]
    IN  size[set]

LEMMA SizeBounds == Size(Orphans) <= faults => OrphansBounded
<1>1. \A set : Cardinality(set) = Size(set)
  BY ZenonT(60) DEF Cardinality, Size
<1> QED
  BY <1>1, ZenonT(60) DEF OrphansBounded, Orphans, Removable

LOCAL INSTANCE FiniteSetTheorems

Bounded == faults \in Nat /\ IsFiniteSet(Orphans) /\ Cardinality(Orphans) <= faults

OrphanInv == CreateInv /\ Bounded

LEMMA SizeIsCardinality == \A set : Cardinality(set) = Size(set)
BY ZenonT(60) DEF Cardinality, Size

LEMMA FewerOrphans ==
    ASSUME Bounded, Orphans' \subseteq Orphans, faults' = faults
    PROVE  Bounded'
<1>1. IsFiniteSet(Orphans)' /\ Cardinality(Orphans)' <= Cardinality(Orphans)
  BY FS_Subset, ZenonT(60) DEF Bounded
<1>2. Cardinality(Orphans) \in Nat /\ Cardinality(Orphans)' \in Nat
  BY <1>1, FS_CardinalityType, ZenonT(60) DEF Bounded
<1> QED
  BY <1>1, <1>2 DEF Bounded

LEMMA OneMoreOrphan ==
    ASSUME Bounded, NEW x, Orphans' \subseteq Orphans \cup {x}, faults' = faults + 1
    PROVE  Bounded'
<1> DEFINE S == Orphans \cup {x}
<1>1. IsFiniteSet(S) /\ Cardinality(S) <= Cardinality(Orphans) + 1 /\ Cardinality(Orphans) \in Nat
  <2>1. /\ IsFiniteSet(S)
        /\ Cardinality(S) = IF x \in Orphans THEN Cardinality(Orphans) ELSE Cardinality(Orphans) + 1
    BY FS_AddElement, ZenonT(60) DEF Bounded
  <2>2. Cardinality(Orphans) \in Nat
    BY FS_CardinalityType, ZenonT(60) DEF Bounded
  <2> HIDE DEF S
  <2> QED
    BY <2>1, <2>2
<1>2. IsFiniteSet(Orphans)' /\ Cardinality(Orphans)' <= Cardinality(S)
  <2> HIDE DEF S
  <2>1. Orphans' \in SUBSET S
    BY ZenonT(60) DEF S
  <2> QED
    BY <1>1, <2>1, FS_Subset, ZenonT(60)
<1>3. Cardinality(S) \in Nat /\ Cardinality(Orphans)' \in Nat
  BY <1>1, <1>2, FS_CardinalityType, ZenonT(60)
<1> HIDE DEF S
<1> QED
  BY <1>1, <1>2, <1>3 DEF Bounded

LEMMA LossBounded ==
    ASSUME Bounded, Loses
    PROVE  Bounded'
BY FewerOrphans, OneMoreOrphan, ZenonT(60) DEF Loses

\* Repeating an apply makes no duplicates: an object that the service would
\* remove or disable is lost from the state file only with the answer to the
\* call that made it.  BuildPlan creates only what has no entry, Apply records
\* what it creates, and Delete disables or removes before it forgets.
THEOREM OrphansAreBounded == Spec => []OrphansBounded
<1>1. Init => OrphanInv
  <2> SUFFICES ASSUME Init
               PROVE  OrphanInv
    BY ZenonT(60)
  <2>1. live = {} /\ faults = 0 /\ phase = "idle"
    BY ZenonT(60) DEF Init
  <2>2. Orphans = {}
    BY <2>1, ZenonT(60) DEF Orphans
  <2>3. Bounded
    BY <2>1, <2>2, FS_EmptySet DEF Bounded
  <2> QED
    BY <2>1, <2>3, ZenonT(60) DEF OrphanInv, CreateInv
<1>2. Bounded => OrphansBounded
  BY SizeIsCardinality, SizeBounds, ZenonT(60) DEF Bounded
<1>3. Inv /\ OrphanInv /\ [Next]_vars => OrphanInv'
  BY OrphanStep, LossBounded, ZenonT(60) DEF OrphanInv
<1>4. OrphanInv => Bounded
  BY ZenonT(60) DEF OrphanInv
<1> QED
  BY <1>1, <1>2, <1>3, <1>4, InitInv, NextInv, PTL DEF Spec
-------------------------------------------------------------------------------
LEMMA LeastNatural ==
    ASSUME NEW T, T \subseteq Nat, T # {}
    PROVE  \E x \in T : \A y \in T : x <= y
<1> DEFINE LT == {ss \in Nat \X Nat : ss[1] < ss[2]}
<1>1. IsWellFoundedOn(LT, Nat)
  BY NatLessThanWellFounded, ZenonT(60) DEF OpToRel
<1>2. \A x, y \in Nat : y < x => <<y, x>> \in LT
  BY ZenonT(60)
<1> HIDE DEF LT
<1>3. \E x \in T : \A y \in T : ~(<<y, x>> \in LT)
  BY <1>1, WFMin, ZenonT(60)
<1>4. \A x, y \in Nat : ~(y < x) => x <= y
  OBVIOUS
<1> QED
  BY <1>2, <1>3, <1>4, ZenonT(60)

SomeStepIsNext ==
    phase = "apply" /\ todo # {} =>
        \E r \in Resources :
            IsNext(r, {"create", "update", "no-op", "delete"}) /\ plan[r].deps \cap todo = {}

\* As long as an apply has steps to do, one of them is the next, and what it depends
\* on has had its turn: the order that topoSort gives the plan never puts a
\* resource before one it refers to and leaves none of them out.
THEOREM ApplyNeverStuck == Spec => []SomeStepIsNext
<1>1. Inv => SomeStepIsNext
  <2> SUFFICES ASSUME Inv, phase = "apply", todo # {}
               PROVE  \E r \in Resources : IsNext(r, {"create", "update", "no-op", "delete"}) /\ plan[r].deps \cap todo = {}
    BY ZenonT(60) DEF SomeStepIsNext
  <2>1. todo \subseteq Resources /\ \A r \in todo : plan[r].op \in {"create", "update", "no-op", "delete"}
    <3>1. todo \subseteq {r \in Resources : plan[r] # NoStep} /\ \A r \in Resources : plan[r] \in StepOf(r) \cup {NoStep}
      BY ZenonT(60) DEF Inv, Types, TypeOK
    <3>2. \A r \in todo : plan[r] \in StepOf(r)
      BY <3>1, ZenonT(60)
    <3> QED
      BY <3>1, <3>2, ZenonT(60) DEF StepOf
  <2> DEFINE Places == {Place(r) : r \in todo}
  <2>2. \A r \in todo : Place(r) \in Nat
    BY ZenonT(60) DEF Place
  <2>3. Places \subseteq Nat /\ Places # {}
    BY <2>2, ZenonT(60)
  <2>4. PICK m \in Places : \A y \in Places : m <= y
    <3> HIDE DEF Places
    <3> QED
      BY <2>3, LeastNatural, ZenonT(60)
  <2> DEFINE Ranks == {Rank[r] : r \in {q \in todo : Place(q) = m}}
  <2>5. Ranks \subseteq Nat /\ Ranks # {}
    <3>1. \E r \in todo : Place(r) = m
      BY <2>4, ZenonT(60)
    <3>2. \A r \in todo : Rank[r] \in Nat
      BY ZenonT(60), <2>1, RankAssumption
    <3> QED
      BY <3>1, <3>2, ZenonT(60)
  <2>6. PICK k \in Ranks : \A y \in Ranks : k <= y
    <3> HIDE DEF Ranks
    <3> QED
      BY <2>5, LeastNatural, ZenonT(60)
  <2>7. PICK r \in todo : Place(r) = m /\ Rank[r] = k
    BY <2>6, ZenonT(60)
  <2>8. ASSUME NEW q \in todo \ {r} PROVE Earlier(r, q)
    <3>1. m <= Place(q) /\ m \in Nat /\ Place(q) \in Nat
      BY <2>2, <2>3, <2>4, ZenonT(60)
    <3>2. CASE Place(q) = m
      <4>1. k <= Rank[q] /\ Rank[q] \in Nat /\ k \in Nat /\ Rank[q] # k
        <5>1. Rank[q] \in Ranks
          BY <3>2, ZenonT(60)
        <5>2. k <= Rank[q]
          BY <2>6, <5>1, ZenonT(60)
        <5>3. Rank[q] # Rank[r]
          BY <2>1, RankAssumption, ZenonT(60)
        <5> QED
          BY <2>5, <2>6, <2>7, <5>1, <5>2, <5>3, ZenonT(60)
      <4>2. k < Rank[q]
        BY <4>1
      <4> QED
        BY <2>7, <3>2, <4>2, ZenonT(60) DEF Earlier
    <3>3. CASE Place(q) # m
      <4>1. m < Place(q)
        BY <3>1, <3>3
      <4> QED
        BY <2>7, <4>1, ZenonT(60) DEF Earlier
    <3> QED
      BY ZenonT(60), <3>2, <3>3
  <2>9. r \in Resources /\ IsNext(r, {"create", "update", "no-op", "delete"})
    BY <2>1, <2>7, <2>8, ZenonT(60) DEF IsNext
  <2> QED
    BY <2>9, NextIsFirst, ZenonT(60)
<1> QED
  BY <1>1, InvHolds, PTL
===============================================================================
