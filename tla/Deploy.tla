-------------------------------- MODULE Deploy --------------------------------
(***************************************************************************)
(* `rotor deploy plan|apply` (internal/deploy, cmd/rotor/deploy.go): the   *)
(* plan is the difference between the configuration and a state file, the  *)
(* apply carries it out step by step against Open Cloud and stores the     *)
(* state after each.  The configuration may be edited and the process may  *)
(* end at any time; calls may fail before or after they took effect.       *)
(*                                                                         *)
(* A version of a resource stands for its inputs and their hash, which for *)
(* a resource with a file covers the content of the file.                  *)
(***************************************************************************)
EXTENDS Integers, FiniteSets

CONSTANTS
    Resources,
    Kind,               \* Kind[r], one of Kinds
    Rank,               \* the order of the keys "<kind>/<name>"
    Versions(_),        \* Versions(r): what may be configured for r
    Icon(_, _),         \* Icon(r, v): the assets that version v of r refers to
    Count(_),           \* Count(v): the number of thumbnails in version v
    Absent, NoEntry, NoStep,
    Scopes,             \* which resources one configuration may have
    MaxEdits,           \* bounds on the edits, the faults and the remote
    MaxFaults, MaxId    \* objects

\* "file": place file and experience icon; "settings": place configuration
\* and experience; "pass": game pass; "link": social link; "product":
\* developer product.
Kinds == {"file", "settings", "badge", "pass", "link", "product", "asset", "thumbnails"}

ASSUME KindAssumption == Kind \in [Resources -> Kinds]

ASSUME RankAssumption ==
    /\ Rank \in [Resources -> Nat]
    /\ \A r, q \in Resources : Rank[r] = Rank[q] => r = q

\* Only badges and game passes refer to other resources: to assets.
ASSUME IconAssumption ==
    \A r \in Resources : \A v \in Versions(r) :
        /\ Icon(r, v) \subseteq {a \in Resources : Kind[a] = "asset"}
        /\ Kind[r] = "asset" => Icon(r, v) = {}

ASSUME VersionAssumption ==
    \A r \in Resources :
        /\ Versions(r) # {}
        /\ Absent \notin Versions(r)
        /\ \A v \in Versions(r) : Count(v) \in Nat

ASSUME BoundAssumption == MaxEdits \in Nat /\ MaxFaults \in Nat /\ MaxId \in Nat \ {0}

\* An entry of the state: the hash of the inputs, and of the outputs the ids.
Entry(r) == [hash : Versions(r), ids : SUBSET (1 .. MaxId), icon : SUBSET (1 .. MaxId)]

\* A step of the plan.
StepOf(r) ==
    [op : {"create", "update", "no-op"}, hash : Versions(r), deps : SUBSET Resources] \cup
    [op : {"delete"}, hash : {Absent}, deps : {{}}]

ASSUME MarkerAssumption == \A r \in Resources : NoEntry \notin Entry(r) /\ NoStep \notin StepOf(r)

VARIABLES
    scope,              \* the member of Scopes this is about; never changes
    edits,
    desired,            \* desired[r]: the version configured, or Absent
    state,              \* the state file
    live,               \* the remote objects
    nextId,
    phase,              \* "idle", "confirm" (a plan is shown) or "apply"
    plan,               \* plan[r]: the step for r, or NoStep
    todo,               \* the resources whose steps are still to do
    failed,             \* those failed or skipped in this apply
    faults,
    torn,               \* history: see Truthful
    cut                 \* history: a deletion took effect but was not recorded

remote == <<live, nextId>>

run == <<phase, plan, todo, failed>>

history == <<torn, cut>>

vars == <<scope, edits, desired, state, remote, run, faults, history>>

\* The key of a resource that is changed in place.
InPlace == 0

HasFile(r) == Kind[r] \in {"file", "asset", "thumbnails"}

\* BuildResources: an icon is a resource while something configured refers to it.
Wanted(r) ==
    IF Kind[r] = "asset"
    THEN \E q \in Resources : desired[q] # Absent /\ r \in Icon(q, desired[q])
    ELSE desired[r] # Absent

Init ==
    /\ scope \in Scopes
    /\ edits = 0
    /\ desired = [r \in Resources |-> IF Kind[r] = "asset" THEN CHOOSE v \in Versions(r) : TRUE ELSE Absent]
    /\ state = [r \in Resources |-> NoEntry]
    /\ live = {}
    /\ nextId = 1
    /\ phase = "idle"
    /\ plan = [r \in Resources |-> NoStep]
    /\ todo = {}
    /\ failed = {}
    /\ faults = 0
    /\ torn = {}
    /\ cut = {}

\* The user edits the configuration or a file, at any time.
Edit(r) ==
    /\ r \in scope
    /\ edits < MaxEdits
    /\ edits' = edits + 1
    /\ \E v \in Versions(r) \cup (IF Kind[r] = "asset" THEN {} ELSE {Absent}) :
        v # desired[r] /\ desired' = [desired EXCEPT ![r] = v]
    /\ UNCHANGED <<state, remote, run, faults, history>>
-------------------------------------------------------------------------------
(***************************************************************************)
(* Plan.                                                                   *)
(***************************************************************************)

Op(r) ==
    IF state[r] = NoEntry THEN "create"
    ELSE IF state[r].hash = desired[r] THEN "no-op" ELSE "update"

Gone == {r \in Resources : ~Wanted(r) /\ state[r] # NoEntry}

\* BuildPlan.
Steps ==
    [r \in Resources |->
        IF Wanted(r) THEN [op |-> Op(r), hash |-> desired[r], deps |-> Icon(r, desired[r])]
        ELSE IF r \in Gone THEN [op |-> "delete", hash |-> Absent, deps |-> {}]
        ELSE NoStep]

\* Mistake: deletes do not count.
HasChangesLive == \E r \in Resources : Steps[r] # NoStep /\ Steps[r].op \in {"create", "update"}

HasChanges == \E r \in Resources : Steps[r] # NoStep /\ Steps[r].op # "no-op"

\* The apply command makes a plan and shows it.  With deletes that are not
\* allowed, or without changes, it ends there.
Plan(allowDeletes) ==
    /\ phase = "idle"
    /\ Gone # {} => allowDeletes
    /\ HasChanges
    /\ phase' = "confirm"
    /\ plan' = Steps
    /\ UNCHANGED <<desired, state, remote, todo, failed, faults, history>>

Confirm ==
    /\ phase = "confirm"
    /\ phase' = "apply"
    /\ todo' = {r \in Resources : plan[r] # NoStep}
    /\ failed' = {}
    /\ UNCHANGED <<desired, state, remote, plan, faults, history>>

EndRun ==
    /\ phase' = "idle"
    /\ plan' = [r \in Resources |-> NoStep]
    /\ todo' = {}
    /\ failed' = {}

Decline ==
    /\ phase = "confirm"
    /\ EndRun
    /\ UNCHANGED <<desired, state, remote, faults, history>>
-------------------------------------------------------------------------------
(***************************************************************************)
(* What the providers do remotely.  An outcome is what a call leaves there *)
(* (live), the ids it used, those it reports, and whether it succeeds.     *)
(***************************************************************************)
Object(id, r, v) == [id |-> id, of |-> r, value |-> v, status |-> "on"]

Outcome(objects, used, ids, ok) == [live |-> objects, used |-> used, ids |-> ids, ok |-> ok]

\* The ids of r in the state.
Ids(r) == IF state[r] = NoEntry THEN {} ELSE state[r].ids

Exists(id) == \E o \in live : o.id = id

\* What is sent: the inputs of the plan, but the content the file has now.
\* It has changed if the last edit was one of the file.
Contents(r) == {plan[r].hash} \cup (IF HasFile(r) THEN {desired[r]} \ {Absent} ELSE {})

\* A PATCH sends the fields that are set, and never payments.  The versions of
\* one resource are taken to set the same fields, those that are sent.
Replaced(r, v) ==
    {Outcome({o \in live : o.of # r} \cup {Object(InPlace, r, v)}, 0, {}, TRUE)}

Created(r, v) == {Outcome(live \cup {Object(nextId, r, v)}, 1, {nextId}, TRUE)}

\* An update by the recorded id.  It puts a game pass on sale again, but a
\* disabled badge stays disabled; a link that is gone cannot be updated.
Renewed(r, v, o) == [id |-> o.id, of |-> o.of, value |-> v, status |-> IF Kind[r] = "pass" THEN "on" ELSE o.status]

Updated(r, v) ==
    {Outcome({IF o.id \in Ids(r) THEN Renewed(r, v, o) ELSE o : o \in live}, 0, Ids(r), \A id \in Ids(r) : Exists(id))}

\* Thumbnails are deleted one by one; one that is gone may or may not be an
\* error.
Deleted(ids) ==
    {[live |-> {o \in live : o.id \notin ids}, ok |-> TRUE]} \cup
    {[live |-> {o \in live : o.id \notin {j \in ids : j < id}}, ok |-> FALSE] :
        id \in {i \in ids : ~Exists(i)}}

\* replaceThumbnails: the uploads in order, then the stale ones are deleted.
Uploaded(r, v, k) == {Object(id, r, v) : id \in nextId .. nextId + k - 1}

\* Mistake: the deleted ones are still recorded.
ThumbnailsMerged(r, v, stale) ==
    LET k == Count(plan[r].hash)
    IN  {Outcome(d.live \cup Uploaded(r, v, k), k, stale \cup nextId .. nextId + k - 1, d.ok) : d \in Deleted(stale)}

Thumbnails(r, v, stale) ==
    LET k == Count(plan[r].hash)
    IN  {Outcome(d.live \cup Uploaded(r, v, k), k, nextId .. nextId + k - 1, d.ok) : d \in Deleted(stale)}

Stale(r) == IF plan[r].op = "create" THEN {} ELSE Ids(r)

\* Create and Update of the providers.
Calls(r, v) ==
    CASE Kind[r] \in {"file", "settings"} -> Replaced(r, v)
      [] Kind[r] \in {"badge", "pass", "link", "product"} ->
            IF plan[r].op = "create" THEN Created(r, v) ELSE Updated(r, v)
      [] Kind[r] = "asset" -> Created(r, v)
      [] Kind[r] = "thumbnails" -> Thumbnails(r, v, Stale(r))

\* Where a call of Thumbnails may stop: after some uploads or, with all of
\* them, after some deletions.
ThumbnailsStopped(r, v) ==
    LET k == Count(plan[r].hash)
    IN  {Outcome(live \cup Uploaded(r, v, j), j, {}, FALSE) : j \in 0 .. k} \cup
        {Outcome({o \in live : o.id \notin {j \in Stale(r) : j <= id}} \cup Uploaded(r, v, k), k, {}, FALSE) :
            id \in Stale(r)}

\* Where a call may stop: before its effect or after it.
CallsStopped(r, v) ==
    {Outcome(live, 0, {}, FALSE)} \cup Calls(r, v) \cup
    (IF Kind[r] = "thumbnails" THEN ThumbnailsStopped(r, v) ELSE {})

\* Mistake: deleted resources are forgotten and stay as they are.
DeleteCallsForget(r) == {[live |-> live, ok |-> TRUE]}

\* Delete of the providers.  Most of them only forget.
DeleteCalls(r) ==
    CASE Kind[r] \in {"badge", "pass"} ->
            {[live |-> {IF o.id \in Ids(r) THEN [o EXCEPT !.status = "off"] ELSE o : o \in live}, ok |-> TRUE]}
      [] Kind[r] \in {"link", "thumbnails"} -> Deleted(Ids(r))
      [] OTHER -> {[live |-> live, ok |-> TRUE]}

DeleteCallsStopped(r) ==
    {[live |-> live]} \cup DeleteCalls(r) \cup
    (IF Kind[r] = "thumbnails"
     THEN {[live |-> {o \in live : o.id \notin {j \in Ids(r) : j <= id}}] : id \in Ids(r)}
     ELSE {})
-------------------------------------------------------------------------------
(***************************************************************************)
(* Apply, step by step in the order of the plan: the live resources, those *)
(* without dependencies first, then the deletes.                           *)
(***************************************************************************)
Place(r) == IF plan[r].op = "delete" THEN 2 ELSE IF plan[r].deps = {} THEN 0 ELSE 1

Earlier(r, q) == Place(r) < Place(q) \/ (Place(r) = Place(q) /\ Rank[r] < Rank[q])

IsNext(r, ops) ==
    /\ phase = "apply"
    /\ r \in todo
    /\ \A q \in todo \ {r} : Earlier(r, q)
    /\ plan[r].op \in ops

\* Mistake: a step is carried out whatever became of its dependencies.
FailedDepNever(r) == FALSE

FailedDep(r) == plan[r].deps \cap failed # {}

Advance(r) ==
    /\ todo' = todo \ {r}
    /\ UNCHANGED <<phase, plan>>

Unchanged(r) ==
    /\ IsNext(r, {"no-op"})
    /\ Advance(r)
    /\ UNCHANGED <<desired, state, remote, failed, faults, history>>

SkipStep(r) ==
    /\ IsNext(r, {"create", "update"})
    /\ FailedDep(r)
    /\ Advance(r)
    /\ failed' = failed \cup {r}
    /\ UNCHANGED <<desired, state, remote, faults, history>>

Runs(r) == IsNext(r, {"create", "update"}) /\ ~FailedDep(r)

TakeEffect(o) ==
    /\ nextId + o.used <= MaxId
    /\ live' = o.live
    /\ nextId' = nextId + o.used

\* Mistake: an icon once recorded is kept.
IconIdsKept(r) ==
    IF state[r] # NoEntry THEN state[r].icon ELSE UNION {Ids(a) : a \in plan[r].deps}

\* The icon a badge records: the id its asset has now, else the one it had.
IconIds(r) ==
    LET now == UNION {Ids(a) : a \in plan[r].deps}
    IN  IF now # {} \/ state[r] = NoEntry THEN now ELSE state[r].icon

ApplyStep(r) ==
    /\ Runs(r)
    /\ \E v \in Contents(r) : \E o \in Calls(r, v) :
        /\ o.ok
        /\ TakeEffect(o)
        /\ torn' = IF v = plan[r].hash THEN torn \ {r} ELSE torn \cup {r}
        /\ state' = [state EXCEPT ![r] = [hash |-> plan[r].hash, ids |-> o.ids, icon |-> IconIds(r)]]
    /\ Advance(r)
    /\ cut' = IF plan[r].op = "create" \/ Kind[r] \in {"pass", "thumbnails"} THEN cut \ {r} ELSE cut
    /\ UNCHANGED <<desired, failed, faults>>

\* The service refuses the call: something recorded is gone.
RefuseStep(r) ==
    /\ Runs(r)
    /\ \E v \in Contents(r) : \E o \in Calls(r, v) : ~o.ok /\ TakeEffect(o)
    /\ Advance(r)
    /\ failed' = failed \cup {r}
    /\ torn' = torn \cup {r}
    /\ UNCHANGED <<desired, state, faults, cut>>

Fault ==
    /\ faults < MaxFaults
    /\ faults' = faults + 1

\* The call fails, before or after it took effect; the apply goes on.
FailStep(r) ==
    /\ Runs(r)
    /\ Fault
    /\ \E v \in Contents(r) : \E o \in CallsStopped(r, v) :
        /\ TakeEffect(o)
        /\ torn' = IF o.live = live THEN torn ELSE torn \cup {r}
    /\ Advance(r)
    /\ failed' = failed \cup {r}
    /\ UNCHANGED <<desired, state, cut>>

\* The process ends within a step: the call may have taken effect, the state
\* is not stored.  So it is when storing the state fails.
InterruptStep(r) ==
    /\ Runs(r)
    /\ Fault
    /\ \E v \in Contents(r) : \E o \in CallsStopped(r, v) :
        /\ TakeEffect(o)
        /\ torn' = IF o.live = live THEN torn ELSE torn \cup {r}
    /\ EndRun
    /\ UNCHANGED <<desired, state, cut>>

DeleteStep(r) ==
    /\ IsNext(r, {"delete"})
    /\ \E o \in DeleteCalls(r) : o.ok /\ live' = o.live
    /\ state' = [state EXCEPT ![r] = NoEntry]
    /\ Advance(r)
    /\ UNCHANGED <<desired, nextId, failed, faults, history>>

RefuseDelete(r) ==
    /\ IsNext(r, {"delete"})
    /\ \E o \in DeleteCalls(r) : ~o.ok /\ live' = o.live
    /\ Advance(r)
    /\ failed' = failed \cup {r}
    /\ cut' = cut \cup {r}
    /\ UNCHANGED <<desired, state, nextId, faults, torn>>

\* Mistake: the failure is not reported.
FailDeleteSilently(r) ==
    /\ IsNext(r, {"delete"})
    /\ Fault
    /\ \E o \in DeleteCallsStopped(r) :
        /\ live' = o.live
        /\ cut' = IF o.live = live THEN cut ELSE cut \cup {r}
    /\ Advance(r)
    /\ UNCHANGED <<desired, state, nextId, failed, torn>>

FailDelete(r) ==
    /\ IsNext(r, {"delete"})
    /\ Fault
    /\ \E o \in DeleteCallsStopped(r) :
        /\ live' = o.live
        /\ cut' = IF o.live = live THEN cut ELSE cut \cup {r}
    /\ Advance(r)
    /\ failed' = failed \cup {r}
    /\ UNCHANGED <<desired, state, nextId, torn>>

InterruptDelete(r) ==
    /\ IsNext(r, {"delete"})
    /\ Fault
    /\ \E o \in DeleteCallsStopped(r) :
        /\ live' = o.live
        /\ cut' = IF o.live = live THEN cut ELSE cut \cup {r}
    /\ EndRun
    /\ UNCHANGED <<desired, state, nextId, torn>>

Finish ==
    /\ phase = "apply"
    /\ todo = {}
    /\ EndRun
    /\ UNCHANGED <<desired, state, remote, faults, history>>

Step(r) ==
    \/ Unchanged(r) \/ SkipStep(r) \/ ApplyStep(r) \/ RefuseStep(r) \/ FailStep(r) \/ InterruptStep(r)
    \/ DeleteStep(r) \/ RefuseDelete(r) \/ FailDelete(r) \/ InterruptDelete(r)

Command ==
    \/ \E allowDeletes \in BOOLEAN : Plan(allowDeletes)
    \/ Confirm
    \/ \E r \in Resources : Step(r)
    \/ Finish

Next ==
    /\ \/ (Command \/ Decline) /\ UNCHANGED edits
       \/ \E r \in Resources : Edit(r)
    /\ UNCHANGED scope

Spec == Init /\ [][Next]_vars

\* The user runs the command again until there is nothing to apply, confirms
\* in the end, and each process gets on.
FairSpec ==
    /\ Spec
    /\ WF_vars(Command /\ UNCHANGED <<scope, edits>>)
    /\ SF_vars(Confirm /\ UNCHANGED <<scope, edits>>)
-------------------------------------------------------------------------------
\* The types.  While a plan is carried out, each step still to do is one of it.
TypeOK ==
    /\ \A r \in Resources : /\ desired[r] \in Versions(r) \cup {Absent}
                            /\ state[r] \in Entry(r) \cup {NoEntry}
                            /\ plan[r] \in StepOf(r) \cup {NoStep}
    /\ nextId \in 1 .. MaxId
    /\ live \subseteq [id : 0 .. nextId - 1, of : Resources, value : UNION {Versions(r) : r \in Resources}, status : {"on", "off"}]
    /\ phase \in {"idle", "confirm", "apply"}
    /\ todo \subseteq {r \in Resources : plan[r] # NoStep}
    /\ failed \subseteq Resources

\* The objects the state has for r.
Recorded(r) == {o \in live : o.of = r /\ o.id \in (IF Kind[r] \in {"file", "settings"} THEN {InPlace} ELSE Ids(r))}

\* What the state file says of r is so: the recorded objects exist, are not
\* disabled and have the recorded version.
Truth(r) ==
    state[r] # NoEntry =>
        /\ Recorded(r) # {} \/ Kind[r] = "thumbnails"
        /\ \A id \in Ids(r) : \E o \in Recorded(r) : o.id = id
        /\ \A o \in Recorded(r) : o.value = state[r].hash /\ o.status = "on"

\* The state file is right, and so is a no-op, for every resource but those
\* whose last call took effect without being recorded or sent a file that had
\* changed since the plan (torn), and those that a deletion has reached
\* without being recorded (cut).
Truthful == \A r \in Resources \ (torn \cup cut) : Truth(r)

\* When a step runs, what it depends on is deployed as planned.
DependenciesReady ==
    \A r \in Resources : Runs(r) =>
        \A a \in plan[r].deps : state[a] # NoEntry /\ state[a].hash = plan[a].hash

\* An apply without failures leaves the state the plan describes: planning
\* again would find nothing to do.
AppliedInFull ==
    phase = "apply" /\ todo = {} /\ failed = {} =>
        \A r \in Resources :
            IF plan[r] = NoStep \/ plan[r].op = "delete" THEN state[r] = NoEntry
            ELSE state[r] # NoEntry /\ state[r].hash = plan[r].hash

\* Repeating an apply makes no duplicates: of what the service would really
\* remove or disable, the objects the state has lost track of are no more than
\* the answers that were lost.  Thumbnails are not counted: an update that
\* cannot delete the stale ones has uploaded the whole set, and does so again
\* each time it is repeated.
OrphansBounded ==
    Cardinality({o \in live : Kind[o.of] \in {"badge", "pass", "link"} /\ o.status = "on" /\ o.id \notin Ids(o.of)}) <= faults

\* A resource whose calls are never refused is deployed in the end as it was
\* last configured, whatever becomes of the others.
EventuallyDeployed ==
    \A r \in {q \in Resources : Kind[q] \notin {"link", "thumbnails"}} :
        <>[](IF Wanted(r) THEN state[r] # NoEntry /\ state[r].hash = desired[r] ELSE state[r] = NoEntry)

\* A dependent that this apply has created or updated records the id its icon
\* has now.  A dependent with the same inputs as before is a no-op and keeps the
\* one it had, whatever has become of the icon.
DependentsPickUp ==
    phase = "apply" => \A r \in Resources \ (todo \cup failed) :
        plan[r] # NoStep /\ plan[r].op \in {"create", "update"} /\ plan[r].deps # {} =>
            state[r].icon = UNION {Ids(a) : a \in plan[r].deps}
===============================================================================
