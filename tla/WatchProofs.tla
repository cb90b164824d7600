------------------------------ MODULE WatchProofs ------------------------------
(***************************************************************************)
(* Proofs about the two watches.  First the solution watch, for any        *)
(* projects and any references between them, any edits and any faults: the *)
(* cycles exclude each other, collected events have a cycle, no change is  *)
(* forgotten but the missed ones, and a blocked project has a failed one   *)
(* upstream.  Then the polling watch: what it never does, for any files,   *)
(* stamps and bounds.                                                      *)
(*                                                                         *)
(* NothingForgotten is not inductive by itself.  Shape adds what the       *)
(* cycle's position says of the events it has taken and of the projects it *)
(* has yet to build, and Waits says that the failed project a blocked one  *)
(* waits for is not about to be built.                                     *)
(*                                                                         *)
(* EditsReachBuilds and ComesToRest are only model-checked.  What they     *)
(* rest on is proved: that a watch at rest has seen everything, that a     *)
(* waiting Drain is woken, that a turn of the gate and the answers to a    *)
(* build's own outputs come to an end.                                     *)
(***************************************************************************)
EXTENDS SolutionWatch, PollWatch, TLAPS

Shape ==
    /\ \A p \in Projects : unseen[p] \subseteq Reads(p)
    /\ s.configs \cup taken.configs \subseteq ConfigFiles
    /\ todo # {} => pc = "drain"
    /\ todo \cap blocked = {}
    /\ \A p \in todo \cup blocked : ~upToDate[p]
    /\ pc \in {"none", "take", "leave"} => taken = NoEvents
    /\ pc \in {"drain", "close again", "open again", "assets"} =>
            taken.projects = {} /\ taken.configs = {}
    /\ pc \in {"close", "open", "invalidate"} =>
            \A p \in Projects : In("config", p) \in taken.configs => p \in taken.projects

Waits ==
    \A p \in blocked : \E q \in Upstream(p) : ~upToDate[q] /\ q \notin blocked \cup todo
-------------------------------------------------------------------------------
LEMMA InputsDiffer ==
    /\ \A k, l, p, q : In(k, p) = In(l, q) => k = l /\ p = q
    /\ \A k, p : In(k, p) # Rojo
  BY DEF In, Rojo

LEMMA TriggerGate ==
    ASSUME TypeOK, OneCycle, Trigger
    PROVE  /\ running' = TRUE /\ pending' \in BOOLEAN /\ loops' \in Nat
           /\ pc' = pc \/ (pc = "none" /\ pc' = "take")
           /\ OneCycle'
           /\ pc' = "take" \/ pending'
<1>1. CASE running
  <2>1. pending' = TRUE /\ running' = TRUE /\ loops' = loops /\ pc' = pc
    BY <1>1, Zenon DEF Trigger
  <2> QED
    BY <1>1, <2>1, ZenonT(60) DEF TypeOK, OneCycle
<1>2. CASE ~running
  <2>1. pending' \in BOOLEAN
    BY Zenon DEF Trigger
  <2>2. running' = TRUE /\ loops' = 1 /\ pc' = "take" /\ pc = "none"
    BY <1>2 DEF Trigger, OneCycle
  <2> QED
    BY <2>1, <2>2 DEF OneCycle
<1> QED
  BY ZenonT(60), <1>1, <1>2, ZenonT(60)

LEMMA LeaveGate ==
    ASSUME TypeOK, OneCycle, Leave, pc = "leave"
    PROVE  /\ running' \in BOOLEAN /\ pending' = FALSE /\ loops' \in Nat
           /\ pc' \in {"take", "none"}
           /\ OneCycle'
           /\ pending => pc' = "take"
<1>1. CASE pending
  <2>1. running' = TRUE /\ pending' = FALSE /\ loops' = loops /\ pc' = "take"
    BY <1>1, Zenon DEF Leave
  <2> QED
    BY <2>1 DEF OneCycle, TypeOK
<1>2. CASE ~pending
  <2>1. running' = FALSE /\ pending' = FALSE /\ loops' = loops - 1 /\ pc' = "none"
    BY <1>2, Zenon DEF Leave
  <2>2. loops = 1
    BY DEF OneCycle
  <2>3. loops' = 0
    BY <2>1, <2>2
  <2>4. ~running' /\ running' \in BOOLEAN
    BY <2>1, Zenon
  <2>5. OneCycle'
    BY <2>1, <2>3, <2>4, ZenonT(60) DEF OneCycle
  <2> QED
    BY <1>2, <2>1, <2>3, <2>4, <2>5
<1> QED
  BY ZenonT(60), <1>1, <1>2, ZenonT(60)

\* The gate: what Trigger and the end of a turn do under its lock.
Gate == OneCycle /\ EventsHaveACycle

LEMMA GateStep ==
    ASSUME TypeOK, Gate, [Next]_vars
    PROVE  Gate'
<1>1. ASSUME NEW x \in Inputs, Edit(x) PROVE Gate'
  BY <1>1, ZenonT(60) DEF Edit, gate, TypeOK, Gate, OneCycle, EventsHaveACycle
<1>2. ASSUME NEW p \in Projects, RootCallback(p) PROVE Gate'
  BY <1>2, TriggerGate DEF RootCallback, Gate, EventsHaveACycle
<1>3. ASSUME NEW p \in Projects, RootOverflow(p) PROVE Gate'
  BY <1>3, TriggerGate DEF RootOverflow, Gate, EventsHaveACycle
<1>4. ASSUME NEW p \in Projects, RootError(p) PROVE Gate'
  BY <1>4, TriggerGate DEF RootError, Gate, EventsHaveACycle
<1>5. CASE RojoCallback
  BY <1>5, TriggerGate DEF RojoCallback, Gate, EventsHaveACycle
<1>6. ASSUME NEW x \in ConfigFiles, ConfigCallback(x) PROVE Gate'
  BY <1>6, ZenonT(60) DEF ConfigCallback, gate, TypeOK, Gate, OneCycle, EventsHaveACycle
<1>7. ASSUME NEW x \in ConfigFiles, ConfigTrigger(x) PROVE Gate'
  BY <1>7, TriggerGate DEF ConfigTrigger, Gate, EventsHaveACycle
<1>8. CASE Take
  BY <1>8 DEF Take, gate, TypeOK, Gate, OneCycle, EventsHaveACycle
<1>9. CASE Reload
  BY <1>9 DEF Reload, gate, TypeOK, Gate, OneCycle, EventsHaveACycle
<1>10. CASE ReloadFails
  BY <1>10 DEF ReloadFails, gate, TypeOK, Gate, OneCycle, EventsHaveACycle
<1>11. CASE Close
  BY <1>11, ZenonT(60) DEF Close, gate, TypeOK, Gate, OneCycle, EventsHaveACycle
<1>12. CASE Open
  BY <1>12, ZenonT(60) DEF Open, gate, TypeOK, Gate, OneCycle, EventsHaveACycle
<1>13. CASE Invalidate
  BY <1>13 DEF Invalidate, gate, TypeOK, Gate, OneCycle, EventsHaveACycle
<1>14. ASSUME NEW p \in Projects, Build(p) PROVE Gate'
  BY <1>14 DEF Build, gate, TypeOK, Gate, OneCycle, EventsHaveACycle
<1>15. ASSUME NEW p \in Projects, Block(p) PROVE Gate'
  BY <1>15 DEF Block, gate, TypeOK, Gate, OneCycle, EventsHaveACycle
<1>16. CASE EndDrain
  BY <1>16, ZenonT(60) DEF EndDrain, gate, TypeOK, Gate, OneCycle, EventsHaveACycle
<1>17. ASSUME NEW p \in Projects, DrainAssets(p) PROVE Gate'
  BY <1>17 DEF DrainAssets, gate, TypeOK, Gate, OneCycle, EventsHaveACycle
<1>18. ASSUME NEW p \in Projects, DrainAssetsFails(p) PROVE Gate'
  BY <1>18 DEF DrainAssetsFails, gate, TypeOK, Gate, OneCycle, EventsHaveACycle
<1>19. CASE EndAssets
  BY <1>19 DEF EndAssets, gate, TypeOK, Gate, OneCycle, EventsHaveACycle
<1>20. CASE EndTurn
  BY <1>20, LeaveGate DEF EndTurn, Gate, EventsHaveACycle
<1>21. CASE FirstRefresh
  BY <1>21, ZenonT(60) DEF FirstRefresh, gate, TypeOK, Gate, OneCycle, EventsHaveACycle
<1>22. CASE Fill
  BY <1>22, ZenonT(60) DEF Fill, gate, TypeOK, Gate, OneCycle, EventsHaveACycle
<1>23. CASE FillRaces
  BY <1>23, ZenonT(60) DEF FillRaces, gate, TypeOK, Gate, OneCycle, EventsHaveACycle
<1>24. CASE FirstTrigger
  BY <1>24, TriggerGate DEF FirstTrigger, Gate, EventsHaveACycle
<1>25. CASE Drain
  BY <1>25, ZenonT(60) DEF Drain, gate, TypeOK, Gate, OneCycle, EventsHaveACycle
<1>26. CASE UNCHANGED vars
  BY <1>26, ZenonT(60) DEF vars, gate, TypeOK, Gate, OneCycle, EventsHaveACycle
<1>27. ASSUME NEW p \in Projects, RojoOverflow(p) PROVE Gate'
  BY <1>27, TriggerGate DEF RojoOverflow, Gate, EventsHaveACycle
<1>28. CASE RojoError
  BY <1>28, TriggerGate DEF RojoError, Gate, EventsHaveACycle
<1> QED
  BY <1>1, <1>2, <1>3, <1>4, <1>5, <1>6, <1>7, <1>8, <1>9, <1>10, <1>11, <1>12, <1>13,
     <1>14, <1>15, <1>16, <1>17, <1>18, <1>19, <1>20, <1>21, <1>22, <1>23, <1>24, <1>25, <1>26, <1>27, <1>28
     DEF Next, Callback, Cycle, Main
-------------------------------------------------------------------------------
LEMMA EventsTyped ==
    ASSUME NEW e \in Events
    PROVE  /\ e.projects \subseteq Projects /\ e.configs \subseteq Inputs /\ e.assets \subseteq Projects
           /\ \A p \in Projects : AddProject(e, p) \in Events /\ AddAsset(e, p) \in Events
           /\ \A x \in Inputs : AddConfig(e, x) \in Events
           /\ NoEvents \in Events
           /\ \A P \in SUBSET Projects : [e EXCEPT !.projects = P] \in Events
           /\ \A P \in SUBSET Projects : [e EXCEPT !.assets = P] \in Events
           /\ \A P \in SUBSET Projects : [NoEvents EXCEPT !.assets = P] \in Events
  BY DEF Events, AddProject, AddAsset, AddConfig, NoEvents

LEMMA InputsTyped ==
    /\ \A p \in Projects : Reads(p) \subseteq Inputs /\ Own(p) \subseteq Reads(p)
    /\ \A p \in Projects : In("source", p) \in Own(p) /\ In("config", p) \in Own(p) /\ In("asset", p) \in Own(p)
    /\ \A p \in Projects : Rojo \in Reads(p)
    /\ Projects # {} => ConfigFiles \subseteq Inputs
  BY DEF Inputs, Reads, Own, ConfigFiles

LEMMA InvalidatedTyped == ASSUME TypeOK PROVE Invalidated(taken) \subseteq Projects
<1>1. Changed(taken) \subseteq Projects
  BY EventsTyped, ZenonT(60) DEF TypeOK, Changed
<1> QED
  BY <1>1, DownstreamAssumption DEF Invalidated

LEMMA TypeStep ==
    ASSUME TypeOK, OneCycle, [Next]_vars
    PROVE  TypeOK'
<1>1. ASSUME NEW x \in Inputs, Edit(x) PROVE TypeOK'
  BY <1>1, InputsTyped, ZenonT(60) DEF Edit, TypeOK, gate
<1>2. ASSUME NEW p \in Projects, RootCallback(p) PROVE TypeOK'
  BY <1>2, TriggerGate, EventsTyped, ZenonT(60) DEF RootCallback, TypeOK
<1>3. ASSUME NEW p \in Projects, RootOverflow(p) PROVE TypeOK'
  BY <1>3, TriggerGate, EventsTyped, ZenonT(60) DEF RootOverflow, TypeOK
<1>4. ASSUME NEW p \in Projects, RootError(p) PROVE TypeOK'
  BY <1>4, TriggerGate, ZenonT(60) DEF RootError, TypeOK, Lose
<1>5. CASE RojoCallback
  BY <1>5, TriggerGate, EventsTyped, InputsTyped, ZenonT(60) DEF RojoCallback, TypeOK
<1>6. ASSUME NEW x \in ConfigFiles, ConfigCallback(x) PROVE TypeOK'
  BY <1>6, EventsTyped, InputsTyped, ZenonT(60) DEF ConfigCallback, TypeOK, gate
<1>7. ASSUME NEW x \in ConfigFiles, ConfigTrigger(x) PROVE TypeOK'
  BY <1>7, TriggerGate, ZenonT(60) DEF ConfigTrigger, TypeOK
<1>8. CASE Take
  BY <1>8, EventsTyped DEF Take, TypeOK, gate
<1>9. CASE Reload
  BY <1>9, EventsTyped, ZenonT(60) DEF Reload, TypeOK, gate
<1>10. CASE ReloadFails
  BY <1>10, EventsTyped DEF ReloadFails, TypeOK, gate
<1>11. CASE Close
  BY <1>11, ZenonT(60) DEF Close, TypeOK, gate, CloseWatches, Lose
<1>12. CASE Open
  BY <1>12, ZenonT(60) DEF Open, TypeOK, gate, OpenWatches
<1>13. CASE Invalidate
  <2>1. upToDate' \in [Projects -> BOOLEAN]
    BY <1>13, Zenon DEF Invalidate
  <2>2. todo' \subseteq Projects /\ blocked' \subseteq Projects
    BY <1>13, InvalidatedTyped DEF Invalidate, TypeOK
  <2>3. missed' \in [Projects -> SUBSET Inputs]
    BY <1>13 DEF Invalidate, TypeOK
  <2>4. taken' \in Events /\ pc' \in {"drain", "assets"}
    BY <1>13, EventsTyped, ZenonT(60) DEF Invalidate, TypeOK
  <2> QED
    BY <1>13, <2>1, <2>2, <2>3, <2>4 DEF Invalidate, TypeOK, gate
<1>14. ASSUME NEW p \in Projects, Build(p) PROVE TypeOK'
  BY <1>14, InputsTyped DEF Build, TypeOK, gate
<1>15. ASSUME NEW p \in Projects, Block(p) PROVE TypeOK'
  BY <1>15 DEF Block, TypeOK, gate
<1>16. CASE EndDrain
  BY <1>16, ZenonT(60) DEF EndDrain, TypeOK, gate
<1>17. ASSUME NEW p \in Projects, DrainAssets(p) PROVE TypeOK'
  BY <1>17, EventsTyped, ZenonT(60) DEF DrainAssets, TypeOK, gate
<1>18. ASSUME NEW p \in Projects, DrainAssetsFails(p) PROVE TypeOK'
  BY <1>18, EventsTyped, ZenonT(60) DEF DrainAssetsFails, TypeOK, gate, Lose
<1>19. CASE EndAssets
  BY <1>19 DEF EndAssets, TypeOK, gate
<1>20. CASE EndTurn
  BY <1>20, LeaveGate, ZenonT(60) DEF EndTurn, TypeOK
<1>21. CASE FirstRefresh
  BY <1>21, ZenonT(60) DEF FirstRefresh, TypeOK, gate, OpenWatches
<1>22. CASE Fill
  BY <1>22, EventsTyped, ZenonT(60) DEF Fill, TypeOK, gate
<1>23. CASE FillRaces
  BY <1>23, EventsTyped, ZenonT(60) DEF FillRaces, TypeOK, gate
<1>24. CASE FirstTrigger
  BY <1>24, TriggerGate, ZenonT(60) DEF FirstTrigger, TypeOK
<1>25. CASE Drain
  BY <1>25, ZenonT(60) DEF Drain, TypeOK, gate
<1>26. CASE UNCHANGED vars
  BY <1>26, ZenonT(60) DEF vars, gate, TypeOK
<1>27. ASSUME NEW p \in Projects, RojoOverflow(p) PROVE TypeOK'
  BY <1>27, TriggerGate, EventsTyped, InputsTyped, ZenonT(60) DEF RojoOverflow, TypeOK
<1>28. CASE RojoError
  BY <1>28, TriggerGate, ZenonT(60) DEF RojoError, TypeOK, Lose
<1> QED
  BY ZenonT(60), <1>1, <1>2, <1>3, <1>4, <1>5, <1>6, <1>7, <1>8, <1>9, <1>10, <1>11, <1>12, <1>13,
     <1>14, <1>15, <1>16, <1>17, <1>18, <1>19, <1>20, <1>21, <1>22, <1>23, <1>24, <1>25, <1>26, <1>27, <1>28
     DEF Next, Callback, Cycle, Main
-------------------------------------------------------------------------------
LEMMA ShapeStep ==
    ASSUME TypeOK, OneCycle, Shape, [Next]_vars
    PROVE  Shape'
<1>1. ASSUME NEW x \in Inputs, Edit(x) PROVE Shape'
  BY <1>1, ZenonT(60) DEF Edit, Shape, TypeOK
<1>2. ASSUME NEW p \in Projects, RootCallback(p) PROVE Shape'
  BY <1>2, TriggerGate, ZenonT(60) DEF RootCallback, Shape, AddProject, AddAsset, TypeOK, Events
<1>3. ASSUME NEW p \in Projects, RootOverflow(p) PROVE Shape'
  BY <1>3, TriggerGate, ZenonT(60) DEF RootOverflow, Shape, AddProject, AddAsset, TypeOK, Events
<1>4. ASSUME NEW p \in Projects, RootError(p) PROVE Shape'
  BY <1>4, TriggerGate, ZenonT(60) DEF RootError, Shape, TypeOK, Events
<1>5. CASE RojoCallback
  BY <1>5, TriggerGate, ZenonT(60) DEF RojoCallback, Shape, AddConfig, ConfigFiles, TypeOK, Events
<1>6. ASSUME NEW x \in ConfigFiles, ConfigCallback(x) PROVE Shape'
  BY <1>6, ZenonT(60) DEF ConfigCallback, Shape, AddConfig, ConfigFiles, TypeOK, Events, NoEvents
<1>7. ASSUME NEW x \in ConfigFiles, ConfigTrigger(x) PROVE Shape'
  BY <1>7, TriggerGate, ZenonT(60) DEF ConfigTrigger, Shape, TypeOK, Events
<1>8. CASE Take
  BY <1>8 DEF Take, Shape, NoEvents
<1>9. CASE Reload
  BY <1>9, ZenonT(60) DEF Reload, Shape, TypeOK, Events, NoEvents
<1>10. CASE ReloadFails
  BY <1>10 DEF ReloadFails, Shape, NoEvents
<1>11. CASE Close
  BY <1>11, ZenonT(60) DEF Close, Shape, CloseWatches
<1>12. CASE Open
  BY <1>12, ZenonT(60) DEF Open, Shape
<1>13. CASE Invalidate
  <2>1. (todo' # {} => pc' = "drain") /\ todo' \cap blocked' = {}
    BY <1>13 DEF Invalidate
  <2>2. \A p \in todo' \cup blocked' : ~upToDate'[p]
    <3> DEFINE stale == {p \in Projects : ~upToDate[p]} \cup Invalidated(taken)
    <3>1. todo' \subseteq stale /\ blocked' \subseteq blocked
      BY <1>13 DEF Invalidate
    <3>2. \A p \in stale \cup blocked : p \in Projects /\ (~upToDate[p] \/ p \in Invalidated(taken))
      BY InvalidatedTyped, ZenonT(60) DEF Shape, TypeOK
    <3>3. \A p \in Projects : upToDate'[p] <=> upToDate[p] /\ p \notin Invalidated(taken)
      BY <1>13, Zenon DEF Invalidate
    <3> HIDE DEF stale
    <3> QED
      BY <3>1, <3>2, <3>3
  <2>3. taken'.projects = {} /\ taken'.configs = {} /\ pc' \in {"drain", "assets"}
    BY <1>13, ZenonT(60) DEF Invalidate, NoEvents
  <2> QED
    BY <1>13, <2>1, <2>2, <2>3, ZenonT(60) DEF Invalidate, Shape
<1>14. ASSUME NEW p \in Projects, Build(p) PROVE Shape'
  <2>1. unseen'[p] \subseteq Reads(p) /\ \A q \in Projects \ {p} : unseen'[q] = unseen[q]
    BY <1>14, ZenonT(60) DEF Build, TypeOK
  <2>2. \A q \in todo' \cup blocked' : ~upToDate'[q]
    <3>1. \A q \in Projects \ {p} : upToDate'[q] = upToDate[q]
      BY <1>14, ZenonT(60) DEF Build, TypeOK
    <3>2. p \notin todo' \cup blocked'
      BY <1>14, ZenonT(60) DEF Build, Shape
    <3> QED
      BY <1>14, <3>1, <3>2 DEF Build, Shape, TypeOK
  <2> QED
    BY <1>14, <2>1, <2>2, ZenonT(60) DEF Build, Shape
<1>15. ASSUME NEW p \in Projects, Block(p) PROVE Shape'
  BY <1>15 DEF Block, Shape
<1>16. CASE EndDrain
  BY <1>16, ZenonT(60) DEF EndDrain, Shape
<1>17. ASSUME NEW p \in Projects, DrainAssets(p) PROVE Shape'
  BY <1>17 DEF DrainAssets, Shape, TypeOK, TypeOK, Events, NoEvents
<1>18. ASSUME NEW p \in Projects, DrainAssetsFails(p) PROVE Shape'
  BY <1>18, ZenonT(60) DEF DrainAssetsFails, Shape, TypeOK, Events, NoEvents
<1>19. CASE EndAssets
  BY <1>19 DEF EndAssets, Shape, TypeOK, Events, NoEvents
<1>20. CASE EndTurn
  BY <1>20, LeaveGate, ZenonT(60) DEF EndTurn, Shape
<1>21. CASE FirstRefresh
  BY <1>21, ZenonT(60) DEF FirstRefresh, Shape
<1>22. CASE Fill
  BY <1>22, ZenonT(60) DEF Fill, Shape, TypeOK, Events, NoEvents
<1>23. CASE FillRaces
  BY <1>23, ZenonT(60) DEF FillRaces, Shape, TypeOK, Events, NoEvents
<1>24. CASE FirstTrigger
  BY <1>24, TriggerGate, ZenonT(60) DEF FirstTrigger, Shape, TypeOK, Events
<1>25. CASE Drain
  BY <1>25, ZenonT(60) DEF Drain, Shape
<1>26. CASE UNCHANGED vars
  BY <1>26, ZenonT(60) DEF vars, gate, Shape
<1>27. ASSUME NEW p \in Projects, RojoOverflow(p) PROVE Shape'
  BY <1>27, TriggerGate, ZenonT(60) DEF RojoOverflow, Shape, AddConfig, ConfigFiles, TypeOK, Events
<1>28. CASE RojoError
  BY <1>28, TriggerGate, ZenonT(60) DEF RojoError, Shape, TypeOK, Events
<1> QED
  BY ZenonT(60), <1>1, <1>2, <1>3, <1>4, <1>5, <1>6, <1>7, <1>8, <1>9, <1>10, <1>11, <1>12, <1>13,
     <1>14, <1>15, <1>16, <1>17, <1>18, <1>19, <1>20, <1>21, <1>22, <1>23, <1>24, <1>25, <1>26, <1>27, <1>28
     DEF Next, Callback, Cycle, Main
-------------------------------------------------------------------------------
LEMMA UpstreamFacts ==
    ASSUME NEW p \in Projects
    PROVE  /\ Upstream(p) \subseteq Projects \ {p}
           /\ \A q \in Upstream(p) : p \in Downstream[q]
           /\ \A q \in Upstream(p) : \A r \in Upstream(q) : r # p => r \in Upstream(p)
           /\ \A q \in Upstream(p) : \A r \in Projects : q \in Downstream[r] => p \in Downstream[r]
  BY DownstreamAssumption DEF Upstream

\* Only a drain changes who waits for whom.
LEMMA WaitsUnchanged ==
    ASSUME Waits, UNCHANGED <<todo, upToDate, blocked>>
    PROVE  Waits'
  BY ZenonT(60) DEF Waits

LEMMA WaitsStep ==
    ASSUME TypeOK, Shape, Waits, [Next]_vars
    PROVE  Waits'
<1>1. ASSUME NEW x \in Inputs, Edit(x) PROVE Waits'
  BY <1>1, WaitsUnchanged DEF Edit
<1>2. ASSUME NEW p \in Projects, RootCallback(p) PROVE Waits'
  BY <1>2, WaitsUnchanged DEF RootCallback
<1>3. ASSUME NEW p \in Projects, RootOverflow(p) PROVE Waits'
  BY <1>3, WaitsUnchanged DEF RootOverflow
<1>4. ASSUME NEW p \in Projects, RootError(p) PROVE Waits'
  BY <1>4, WaitsUnchanged DEF RootError
<1>5. CASE RojoCallback
  BY <1>5, WaitsUnchanged DEF RojoCallback
<1>6. ASSUME NEW x \in ConfigFiles, ConfigCallback(x) PROVE Waits'
  BY <1>6, WaitsUnchanged DEF ConfigCallback
<1>7. ASSUME NEW x \in ConfigFiles, ConfigTrigger(x) PROVE Waits'
  BY <1>7, WaitsUnchanged DEF ConfigTrigger
<1>8. CASE Take
  BY <1>8, WaitsUnchanged DEF Take
<1>9. CASE Reload
  BY <1>9, WaitsUnchanged DEF Reload
<1>10. CASE ReloadFails
  BY <1>10, WaitsUnchanged DEF ReloadFails
<1>11. CASE Close
  BY <1>11, WaitsUnchanged, ZenonT(60) DEF Close
<1>12. CASE Open
  BY <1>12, WaitsUnchanged, ZenonT(60) DEF Open
<1>13. CASE Invalidate
  <2>1. CASE Changed(taken) # {} \/ taken.configs # {}
    BY <1>13, <2>1 DEF Invalidate, Waits
  <2>2. CASE ~(Changed(taken) # {} \/ taken.configs # {})
    <3>1. blocked' = blocked /\ todo' = {} /\ Invalidated(taken) = {}
      BY <1>13, <2>2 DEF Invalidate, Invalidated
    <3>2. \A q \in Projects : ~upToDate[q] => ~upToDate'[q]
      BY <1>13, ZenonT(60) DEF Invalidate
    <3> QED
      BY <3>1, <3>2, UpstreamFacts, ZenonT(60) DEF Waits, TypeOK
  <2> QED
    BY <2>1, <2>2
<1>14. ASSUME NEW p \in Projects, Build(p) PROVE Waits'
  <2>1. \A q \in Projects \ {p} : upToDate'[q] = upToDate[q]
    BY <1>14, ZenonT(60) DEF Build, TypeOK
  <2> QED
    BY <1>14, <2>1, UpstreamFacts DEF Build, Waits, TypeOK
<1>15. ASSUME NEW p \in Projects, Block(p) PROVE Waits'
  <2>1. \E r \in Upstream(p) : ~upToDate[r] /\ r \notin blocked \cup todo
    <3>1. PICK q \in Upstream(p) : ~upToDate[q]
      BY <1>15, ZenonT(60) DEF Block
    <3>2. q \notin todo /\ q \in Projects
      BY <1>15, UpstreamFacts, ZenonT(60) DEF Block
    <3>3. CASE q \in blocked
      <4>1. PICK r \in Upstream(q) : ~upToDate[r] /\ r \notin blocked \cup todo
        BY <3>3 DEF Waits
      <4>2. r # p
        BY <1>15, <4>1 DEF Block
      <4> QED
        BY <4>1, <4>2, UpstreamFacts
    <3> QED
      BY <3>1, <3>2, <3>3
  <2> QED
    BY <1>15, <2>1, UpstreamFacts DEF Block, Waits, TypeOK
<1>16. CASE EndDrain
  BY <1>16, WaitsUnchanged, ZenonT(60) DEF EndDrain
<1>17. ASSUME NEW p \in Projects, DrainAssets(p) PROVE Waits'
  BY <1>17, WaitsUnchanged DEF DrainAssets
<1>18. ASSUME NEW p \in Projects, DrainAssetsFails(p) PROVE Waits'
  BY <1>18, WaitsUnchanged DEF DrainAssetsFails
<1>19. CASE EndAssets
  BY <1>19, WaitsUnchanged DEF EndAssets
<1>20. CASE EndTurn
  BY <1>20, WaitsUnchanged DEF EndTurn
<1>21. CASE FirstRefresh
  BY <1>21, WaitsUnchanged DEF FirstRefresh
<1>22. CASE Fill
  BY <1>22, WaitsUnchanged DEF Fill
<1>23. CASE FillRaces
  BY <1>23, WaitsUnchanged, ZenonT(60) DEF FillRaces
<1>24. CASE FirstTrigger
  BY <1>24, WaitsUnchanged DEF FirstTrigger
<1>25. CASE Drain
  BY <1>25, WaitsUnchanged DEF Drain
<1>26. CASE UNCHANGED vars
  BY <1>26, WaitsUnchanged DEF vars, gate
<1>27. ASSUME NEW p \in Projects, RojoOverflow(p) PROVE Waits'
  BY <1>27, WaitsUnchanged DEF RojoOverflow
<1>28. CASE RojoError
  BY <1>28, WaitsUnchanged, ZenonT(60) DEF RojoError
<1> QED
  BY ZenonT(60), <1>1, <1>2, <1>3, <1>4, <1>5, <1>6, <1>7, <1>8, <1>9, <1>10, <1>11, <1>12, <1>13,
     <1>14, <1>15, <1>16, <1>17, <1>18, <1>19, <1>20, <1>21, <1>22, <1>23, <1>24, <1>25, <1>26, <1>27, <1>28
     DEF Next, Callback, Cycle, Main
-------------------------------------------------------------------------------
\* What NothingForgotten says of one change.
OnItsWay(p, x) ==
    \/ x \in queue
    \/ Announces(s, p, x)
    \/ Announces(taken, p, x)
    \/ p \in todo \cup blocked
    \/ main \in {"refresh", "fill"}

LEMMA ForgottenByParts ==
    NothingForgotten <=> \A p \in Projects : \A x \in unseen[p] : x \in missed[p] \/ OnItsWay(p, x)
  BY DEF NothingForgotten, OnItsWay

LEMMA AnnouncesFacts ==
    ASSUME NEW e \in Events, NEW p \in Projects, NEW x
    PROVE  /\ ~Announces(NoEvents, p, x)
           /\ \A q \in Projects : Announces(e, p, x) => Announces(AddProject(e, q), p, x)
           /\ \A q \in Projects : Announces(e, p, x) => Announces(AddAsset(e, q), p, x)
           /\ \A y : Announces(e, p, x) => Announces(AddConfig(e, y), p, x)
           /\ Announces(AddConfig(e, x), p, x)
           /\ \A q \in Projects : p \in Downstream[q] => Announces(AddProject(e, q), p, x)
           /\ \A q \in Projects : p \in Downstream[q] => Announces(AddConfig(e, In("config", q)), p, x)
           /\ \A q \in Projects : x = In("asset", q) => Announces(AddAsset(e, q), p, x)
           /\ \A P : Announces(e, p, x) => Announces([e EXCEPT !.projects = @ \cup P], p, x)
           /\ Announces([e EXCEPT !.projects = Projects], p, x)
  BY DownstreamAssumption, ZenonT(60) DEF Announces, Events, NoEvents, AddProject, AddAsset, AddConfig

\* A change of the sources, the tsconfig or the assets of q concerns q and
\* what is downstream of it.
LEMMA ReadsFacts ==
    ASSUME NEW p \in Projects, NEW q \in Projects
    PROVE  /\ In("source", q) \in Reads(p) => p \in Downstream[q]
           /\ In("config", q) \in Reads(p) => p \in Downstream[q]
           /\ In("asset", q) \in Reads(p) => p = q
  BY InputsDiffer, DownstreamAssumption, SMTT(60) DEF Reads, Own, Upstream

LEMMA ForgottenStep ==
    ASSUME TypeOK, OneCycle, Shape, NothingForgotten, [Next]_vars
    PROVE  NothingForgotten'
<1> SUFFICES ASSUME NEW r \in Projects, NEW y \in unseen'[r], y \notin missed'[r]
             PROVE  OnItsWay(r, y)'
  BY DEF NothingForgotten, OnItsWay
<1> DEFINE Known == y \in unseen[r] /\ y \notin missed[r]
<1>0. Known => OnItsWay(r, y)
  BY ForgottenByParts
<1> HIDE DEF Known
<1>1. ASSUME NEW x \in Inputs, Edit(x) PROVE OnItsWay(r, y)'
  <2>1. CASE y = x
    <3>1. x \in Reads(r)
      <4>1. y \in unseen[r] \/ x \in Reads(r)
        BY <1>1, <2>1, ZenonT(60) DEF Edit
      <4> QED
        BY <2>1, <4>1, ZenonT(60) DEF Shape
    <3>2. y \in queue'
      BY <1>1, <2>1, <3>1, ZenonT(60) DEF Edit
    <3> QED
      BY <3>2 DEF OnItsWay
  <2>2. CASE y # x
    <3>1. Known
      BY <1>1, <2>2, ZenonT(60) DEF Edit, Known, TypeOK
    <3> QED
      BY <1>1, <3>1, <1>0 DEF Edit, OnItsWay
  <2> QED
    BY <2>1, <2>2
<1>2. ASSUME NEW p \in Projects, RootCallback(p) PROVE OnItsWay(r, y)'
  <2>1. PICK x \in queue \cap {In("source", p), In("asset", p)} :
            /\ queue' = queue \ {x}
            /\ s' = IF x.kind = "source" THEN AddProject(s, p) ELSE AddAsset(s, p)
    BY <1>2, ZenonT(60) DEF RootCallback
  <2>2. Known
    BY <1>2, ZenonT(60) DEF RootCallback, Known
  <2>3. CASE y = x
    <3>1. y \in Reads(r)
      BY <2>2, ZenonT(60) DEF Known, Shape
    <3>2. In("source", p).kind = "source" /\ In("asset", p).kind = "asset"
      BY DEF In
    <3>3. Announces(s', r, y)
      BY <2>1, <2>3, <3>1, <3>2, ReadsFacts, AnnouncesFacts, ZenonT(60) DEF TypeOK
    <3> QED
      BY <3>3 DEF OnItsWay
  <2>4. CASE y # x
    <3>1. Announces(s, r, y) => Announces(s', r, y)
      BY <2>1, AnnouncesFacts, ZenonT(60) DEF TypeOK
    <3> QED
      BY <1>2, <1>0, <2>1, <2>2, <2>4, <3>1 DEF RootCallback, OnItsWay
  <2> QED
    BY ZenonT(60), <2>3, <2>4
<1>3. ASSUME NEW p \in Projects, RootOverflow(p) PROVE OnItsWay(r, y)'
  <2>1. Known
    BY <1>3 DEF RootOverflow, Known
  <2>2. Announces(s, r, y) => Announces(s', r, y)
    BY <1>3, AnnouncesFacts, ZenonT(60) DEF RootOverflow, TypeOK
  <2>3. CASE y \in {In("source", p), In("asset", p)}
    <3>1. y \in Reads(r)
      BY <2>1, ZenonT(60) DEF Known, Shape
    <3>2. r \in Downstream[p]
      BY <2>3, <3>1, ReadsFacts, DownstreamAssumption
    <3>3. Announces(s', r, y)
      BY <1>3, <3>2, AnnouncesFacts, ZenonT(60) DEF RootOverflow, TypeOK
    <3> QED
      BY <3>3 DEF OnItsWay
  <2>4. CASE y \notin {In("source", p), In("asset", p)}
    BY <1>3, <1>0, <2>1, <2>2, <2>4, ZenonT(60) DEF RootOverflow, OnItsWay
  <2> QED
    BY <2>3, <2>4
<1>4. ASSUME NEW p \in Projects, RootError(p) PROVE OnItsWay(r, y)'
  <2>1. Known /\ y \notin queue \cap {In("source", p), In("asset", p)}
    BY <1>4, ZenonT(60) DEF RootError, Lose, Known
  <2> QED
    BY <1>4, <1>0, <2>1, ZenonT(60) DEF RootError, OnItsWay
<1>5. CASE RojoCallback
  <2>1. Known
    BY <1>5 DEF RojoCallback, Known
  <2>2. (Announces(s, r, y) => Announces(s', r, y)) /\ (y = Rojo => Announces(s', r, y))
    BY <1>5, AnnouncesFacts, ZenonT(60) DEF RojoCallback, TypeOK
  <2> QED
    BY <1>5, <1>0, <2>1, <2>2, ZenonT(60) DEF RojoCallback, OnItsWay
<1>6. ASSUME NEW x \in ConfigFiles, ConfigCallback(x) PROVE OnItsWay(r, y)'
  <2>1. Known
    BY <1>6 DEF ConfigCallback, Known
  <2>2. (Announces(s, r, y) => Announces(s', r, y)) /\ (y = x => Announces(s', r, y))
    BY <1>6, AnnouncesFacts, ZenonT(60) DEF ConfigCallback, TypeOK
  <2> QED
    BY <1>6, <1>0, <2>1, <2>2, ZenonT(60) DEF ConfigCallback, OnItsWay
<1>7. ASSUME NEW x \in ConfigFiles, ConfigTrigger(x) PROVE OnItsWay(r, y)'
  BY <1>7, <1>0, ZenonT(60) DEF ConfigTrigger, Known, OnItsWay
<1>8. CASE Take
  <2>1. Known
    BY <1>8, ZenonT(60) DEF Take, Known
  <2>2. taken = NoEvents
    BY <1>8 DEF Take, Shape
  <2>3. ~Announces(taken, r, y)
    BY <2>2, AnnouncesFacts, ZenonT(60) DEF TypeOK
  <2> QED
    BY <1>8, <1>0, <2>1, <2>3, ZenonT(60) DEF Take, OnItsWay
<1>9. CASE Reload
  <2>1. Known
    BY <1>9 DEF Reload, Known
  <2>2. Announces(taken, r, y) => Announces(taken', r, y)
    BY <1>9, AnnouncesFacts, ZenonT(60) DEF Reload, TypeOK
  <2> QED
    BY <1>9, <1>0, <2>1, <2>2 DEF Reload, OnItsWay
<1>10. CASE ReloadFails
  <2>1. Known /\ ~Announces(taken, r, y)
    BY <1>10 DEF ReloadFails, Known
  <2> QED
    BY <1>10, <1>0, <2>1, ZenonT(60) DEF ReloadFails, OnItsWay
<1>11. CASE Close
  <2>1. Known /\ y \notin queue
    BY <1>11, ZenonT(60) DEF Close, CloseWatches, Lose, Known
  <2> QED
    BY <1>11, <1>0, <2>1, ZenonT(60) DEF Close, OnItsWay
<1>12. CASE Open
  BY <1>12, <1>0, ZenonT(60) DEF Open, Known, OnItsWay
<1>13. CASE Invalidate
  <2> DEFINE drains == Changed(taken) # {} \/ taken.configs # {}
             stale == {p \in Projects : ~upToDate[p]} \cup Invalidated(taken)
  <2>1. Known
    BY <1>13 DEF Invalidate, Known, TypeOK
  <2>2. todo = {} /\ taken.configs \subseteq ConfigFiles /\ y \in Reads(r)
    BY <1>13, <2>1 DEF Invalidate, Shape, Known
  <2>3. drains => todo' = stale
    BY <1>13 DEF Invalidate
  <2>4. ~drains => blocked' = blocked
    BY <1>13 DEF Invalidate
  <2>5. r \in blocked => r \in stale
    BY ZenonT(60) DEF Shape
  <2>6. ASSUME NEW q \in taken.projects, r \in Downstream[q] PROVE r \in todo'
    <3>1. q \in Changed(taken)
      BY <2>6, ZenonT(60) DEF Changed
    <3> QED
      BY <2>3, <2>6, <3>1, ZenonT(60) DEF Invalidated
  <2>7. ASSUME y \in taken.configs PROVE r \in todo'
    <3>1. CASE taken.projects = {}
      <4>1. r \in Invalidated(taken)
        BY <2>7, <3>1, DownstreamAssumption, ZenonT(60) DEF Invalidated, Changed
      <4> QED
        BY <2>3, <2>7, <4>1
    <3>2. CASE taken.projects # {} /\ y = Rojo
      <4>1. r \in stale
        BY <1>13, <2>1, <2>7, <3>2, ZenonT(60) DEF Invalidate, Known
      <4> QED
        BY <2>3, <2>7, <4>1
    <3>3. CASE y # Rojo
      <4>1. PICK q \in Projects : y = In("config", q)
        BY <2>2, <2>7, <3>3, ZenonT(60) DEF ConfigFiles
      <4>2. q \in taken.projects
        BY <1>13, <2>7, <4>1, ZenonT(60) DEF Invalidate, Shape
      <4>3. r \in Downstream[q]
        BY <2>2, <4>1, ReadsFacts
      <4> QED
        BY ZenonT(60), <2>6, <4>2, <4>3
    <3> QED
      BY ZenonT(60), <3>1, <3>2, <3>3
  <2>8. ASSUME NEW q \in Projects, In("config", q) \in taken.configs, r \in Downstream[q] PROVE r \in todo'
    <3>1. q \in taken.projects
      BY <1>13, <2>8, ZenonT(60) DEF Invalidate, Shape
    <3> QED
      BY <2>6, <2>8, <3>1, ZenonT(60)
  <2>9. taken'.assets = taken.assets
    BY <1>13, ZenonT(60) DEF Invalidate, NoEvents
  <2>10. Announces(taken, r, y) => r \in todo' \/ Announces(taken', r, y)
    BY <2>6, <2>7, <2>9, <2>8, ZenonT(60) DEF Announces
  <2>11. r \in todo \cup blocked => r \in todo' \cup blocked'
    BY <2>2, <2>3, <2>4, <2>5
  <2>12. UNCHANGED <<queue, s, main>>
    BY <1>13, ZenonT(60) DEF Invalidate
  <2> QED
    BY <1>0, <2>1, <2>10, <2>11, <2>12, ZenonT(60) DEF OnItsWay
<1>14. ASSUME NEW p \in Projects, Build(p) PROVE OnItsWay(r, y)'
  <2>1. CASE r = p
    <3> DEFINE left == {x \in Reads(p) : \E q \in Upstream(p) : x \in unseen[q] /\ x \notin Own(p) \cup {Rojo}}
    <3>1. y \in left /\ y \notin {x \in left : \E q \in Upstream(p) : x \in missed[q]}
      BY <1>14, <2>1, ZenonT(60) DEF Build, TypeOK
    <3>2. PICK q \in Upstream(p) : y \in unseen[q] /\ y \notin missed[q]
      BY ZenonT(60), <3>1
    <3>3. q \in Projects /\ p \in Downstream[q]
      BY ZenonT(60), UpstreamFacts
    <3>4. OnItsWay(q, y)
      BY <3>2, <3>3, ForgottenByParts, ZenonT(60)
    <3>5. q \notin todo \cup blocked
      BY <1>14 DEF Build, Shape
    <3>6. \A e \in Events : Announces(e, q, y) => Announces(e, p, y)
      BY <3>3, UpstreamFacts, EventsTyped, ZenonT(60) DEF Announces
    <3>7. y \in queue \/ Announces(s, p, y) \/ Announces(taken, p, y) \/ main \in {"refresh", "fill"}
      BY <3>4, <3>5, <3>6, ZenonT(60) DEF OnItsWay, TypeOK
    <3> QED
      BY <1>14, <2>1, <3>7, ZenonT(60) DEF Build, OnItsWay
  <2>2. CASE r # p
    <3>1. Known
      BY <1>14, <2>2 DEF Build, Known, TypeOK
    <3> QED
      BY <1>14, <1>0, <2>2, <3>1, ZenonT(60) DEF Build, OnItsWay
  <2> QED
    BY ZenonT(60), <2>1, <2>2
<1>15. ASSUME NEW p \in Projects, Block(p) PROVE OnItsWay(r, y)'
  BY <1>15, <1>0 DEF Block, Known, OnItsWay
<1>16. CASE EndDrain
  BY <1>16, <1>0, ZenonT(60) DEF EndDrain, Known, OnItsWay
<1>17. ASSUME NEW p \in Projects, DrainAssets(p) PROVE OnItsWay(r, y)'
  <2>1. Known /\ (r = p => y # In("asset", p))
    BY <1>17, ZenonT(60) DEF DrainAssets, Known, TypeOK
  <2>2. y # In("asset", p)
    <3>1. y \in Reads(r)
      BY <2>1, ZenonT(60) DEF Known, Shape
    <3> QED
      BY <2>1, <3>1, ReadsFacts
  <2>3. Announces(taken, r, y) => Announces(taken', r, y)
    BY <1>17, <2>2 DEF DrainAssets, Announces, TypeOK, Events
  <2> QED
    BY <1>17, <1>0, <2>1, <2>3 DEF DrainAssets, OnItsWay
<1>18. ASSUME NEW p \in Projects, DrainAssetsFails(p) PROVE OnItsWay(r, y)'
  <2>1. Known /\ y # In("asset", p)
    BY <1>18 DEF DrainAssetsFails, Lose, Known
  <2>2. Announces(taken, r, y) => Announces(taken', r, y)
    BY <1>18, <2>1, ZenonT(60) DEF DrainAssetsFails, Announces, TypeOK, Events
  <2> QED
    BY <1>18, <1>0, <2>1, <2>2 DEF DrainAssetsFails, OnItsWay
<1>19. CASE EndAssets
  BY <1>19, <1>0, ZenonT(60) DEF EndAssets, Known, OnItsWay
<1>20. CASE EndTurn
  BY <1>20, <1>0, ZenonT(60) DEF EndTurn, Known, OnItsWay
<1>21. CASE FirstRefresh
  BY <1>21, <1>0, ZenonT(60) DEF FirstRefresh, Known, OnItsWay
<1>22. CASE Fill
  <2>1. Announces(s', r, y)
    BY <1>22, AnnouncesFacts, ZenonT(60) DEF Fill, TypeOK
  <2> QED
    BY <2>1 DEF OnItsWay
<1>23. CASE FillRaces
  <2>1. taken' = [taken EXCEPT !.projects = Projects]
    BY <1>23, ZenonT(60) DEF FillRaces
  <2>2. Announces(taken', r, y)
    BY <2>1, AnnouncesFacts, ZenonT(60) DEF TypeOK
  <2> QED
    BY <2>2 DEF OnItsWay
<1>24. CASE FirstTrigger
  BY <1>24, <1>0, ZenonT(60) DEF FirstTrigger, Known, OnItsWay
<1>25. CASE Drain
  BY <1>25, <1>0, ZenonT(60) DEF Drain, Known, OnItsWay
<1>26. CASE UNCHANGED vars
  BY <1>26, <1>0 DEF vars, gate, Known, OnItsWay
<1>27. ASSUME NEW p \in Projects, RojoOverflow(p) PROVE OnItsWay(r, y)'
  <2>1. Known /\ (y = Rojo => r \in Downstream[p])
    BY <1>27, ZenonT(60) DEF RojoOverflow, Known
  <2>2. Announces(s, r, y) \/ r \in Downstream[p] => Announces(s', r, y)
    BY <1>27, AnnouncesFacts, ZenonT(60) DEF RojoOverflow, TypeOK
  <2> QED
    BY <1>27, <1>0, <2>1, <2>2, ZenonT(60) DEF RojoOverflow, OnItsWay
<1>28. CASE RojoError
  <2>1. Known /\ y # Rojo
    BY <1>28, ZenonT(60) DEF RojoError, Lose, Known
  <2> QED
    BY <1>28, <1>0, <2>1, ZenonT(60) DEF RojoError, OnItsWay
<1> QED
  BY ZenonT(60), <1>1, <1>2, <1>3, <1>4, <1>5, <1>6, <1>7, <1>8, <1>9, <1>10, <1>11, <1>12, <1>13,
     <1>14, <1>15, <1>16, <1>17, <1>18, <1>19, <1>20, <1>21, <1>22, <1>23, <1>24, <1>25, <1>26, <1>27, <1>28
     DEF Next, Callback, Cycle, Main
-------------------------------------------------------------------------------
Inv == TypeOK /\ Gate /\ Shape /\ Waits /\ NothingForgotten

LEMMA InitInv == ASSUME Init PROVE Inv
<1>1. TypeOK
  BY InputsTyped, ZenonT(60) DEF Init, TypeOK, Events, NoEvents
<1>2. Gate
  BY ZenonT(60) DEF Init, Gate, OneCycle, EventsHaveACycle
<1>3. Shape
  BY DEF Init, Shape, NoEvents
<1>4. Waits
  BY ZenonT(60) DEF Init, Waits
<1>5. NothingForgotten
  BY DEF Init, NothingForgotten
<1> QED
  BY <1>1, <1>2, <1>3, <1>4, <1>5 DEF Inv

LEMMA StepInv == ASSUME Inv, [Next]_vars PROVE Inv'
  BY TypeStep, GateStep, ShapeStep, WaitsStep, ForgottenStep DEF Inv, Gate

LEMMA Invariance == Spec => []Inv
  BY InitInv, StepInv, PTL DEF Spec

\* The state keeps its types.
THEOREM TypesCorrect == Spec => []TypeOK
<1>1. Inv => TypeOK
  BY DEF Inv
<1> QED
  BY <1>1, Invariance, PTL

\* compileGate never lets two cycles run at the same time.
THEOREM CyclesExclude == Spec => []OneCycle
<1>1. Inv => OneCycle
  BY DEF Inv, Gate
<1> QED
  BY <1>1, Invariance, PTL

\* No callback leaves events behind that nothing will take.
THEOREM EventsAreTaken == Spec => []EventsHaveACycle
<1>1. Inv => EventsHaveACycle
  BY DEF Inv, Gate
<1> QED
  BY <1>1, Invariance, PTL

\* Every change that is not missed is on its way to a build of each project
\* that reads it.
THEOREM ChangesReachBuilds == Spec => []NothingForgotten
<1>1. Inv => NothingForgotten
  BY DEF Inv
<1> QED
  BY <1>1, Invariance, PTL

\* A project is blocked only below one whose own build has failed.
THEOREM BlockedWaits == Spec => []BlockedByFailure
<1>1. Inv => BlockedByFailure
  BY ZenonT(60) DEF Inv, Waits, BlockedByFailure
<1> QED
  BY <1>1, Invariance, PTL
-------------------------------------------------------------------------------
\* What the gate and the callers of Drain remember.
GateRest ==
    /\ pending => running
    /\ main = "wait" => running
    /\ \A p \in Projects : missed[p] \subseteq unseen[p]

LEMMA TriggerRest == ASSUME TypeOK, Trigger PROVE running' /\ (pending' => running')
  BY Zenon DEF Trigger, TypeOK

LEMMA GateRestStep == TypeOK /\ GateRest /\ [Next]_vars => GateRest'
<1> SUFFICES ASSUME TypeOK, GateRest, [Next]_vars
             PROVE  GateRest'
  OBVIOUS
<1>0. unseen \in [Projects -> SUBSET Inputs] /\ missed \in [Projects -> SUBSET Inputs]
  BY Zenon DEF TypeOK
<1>1. ASSUME NEW x \in Inputs, Edit(x) PROVE GateRest'
  <2>1. \A p \in Projects : unseen'[p] = unseen[p] \cup ({x} \cap Reads(p))
    BY <1>1, ZenonT(60) DEF Edit
  <2>2. \A p \in Projects : missed'[p] \subseteq missed[p] \cup ({x} \cap Reads(p))
    BY <1>1, ZenonT(60) DEF Edit
  <2>3. UNCHANGED <<running, pending, main>>
    BY <1>1, ZenonT(60) DEF Edit, gate
  <2> QED
    BY <2>1, <2>2, <2>3, ZenonT(60) DEF GateRest
<1>2. ASSUME Trigger, UNCHANGED <<unseen, missed>> PROVE GateRest'
  BY <1>2, TriggerRest, ZenonT(60) DEF GateRest
<1>3. ASSUME NEW X, Lose(X), unseen' = unseen PROVE \A p \in Projects : missed'[p] \subseteq unseen'[p]
  BY <1>3, ZenonT(60) DEF Lose, GateRest
<1>4. ASSUME NEW p \in Projects, RootError(p) PROVE GateRest'
  <2>1. \A q \in Projects : missed'[q] \subseteq unseen'[q]
    BY <1>3, <1>4, ZenonT(60) DEF RootError
  <2> QED
    BY <1>4, <2>1, TriggerRest, ZenonT(60) DEF RootError, GateRest
<1>5. CASE (\E p \in Projects : RootCallback(p) \/ RootOverflow(p)) \/ RojoCallback \/ FirstTrigger
           \/ \E x \in ConfigFiles : ConfigTrigger(x)
  BY <1>2, <1>5, ZenonT(60) DEF RootCallback, RootOverflow, RojoCallback, FirstTrigger, ConfigTrigger
<1>6. ASSUME UNCHANGED <<running, pending>>, main' \in {main, "fill", "trigger"},
             \A p \in Projects : missed'[p] \subseteq unseen'[p]
      PROVE  GateRest'
  BY <1>6, ZenonT(60) DEF GateRest
<1>7. ASSUME UNCHANGED <<unseen, missed>> PROVE \A p \in Projects : missed'[p] \subseteq unseen'[p]
  BY <1>7, ZenonT(60) DEF GateRest
<1>8. CASE Take \/ Reload \/ Open \/ EndDrain \/ EndAssets \/ FirstRefresh \/ Fill
           \/ (\E x \in ConfigFiles : ConfigCallback(x)) \/ (\E p \in Projects : Block(p)) \/ UNCHANGED vars
  BY <1>6, <1>7, <1>8, ZenonT(60) DEF Take, Reload, Open, EndDrain, EndAssets, FirstRefresh, Fill, ConfigCallback, Block, vars, gate
<1>9. CASE ReloadFails
  <2>1. \A p \in Projects : missed'[p] \subseteq unseen'[p]
    BY <1>9, ZenonT(60) DEF ReloadFails, GateRest
  <2> QED
    BY <1>6, <1>9, <2>1, ZenonT(60) DEF ReloadFails, gate
<1>10. CASE Close
  <2>1. \A p \in Projects : missed'[p] \subseteq unseen'[p]
    BY <1>3, <1>10, ZenonT(60) DEF Close, CloseWatches
  <2> QED
    BY <1>6, <1>10, <2>1, ZenonT(60) DEF Close, gate
<1>11. CASE Invalidate
  <2>1. \A p \in Projects : missed'[p] \subseteq missed[p] \cup unseen[p]
    BY <1>11, ZenonT(60) DEF Invalidate
  <2>2. \A p \in Projects : missed'[p] \subseteq unseen'[p]
    BY <1>11, <2>1, ZenonT(60) DEF Invalidate, GateRest
  <2> QED
    BY <1>6, <1>11, <2>2, ZenonT(60) DEF Invalidate, gate
<1>12. ASSUME NEW p \in Projects, Build(p) PROVE GateRest'
  <2>1. PICK left : /\ unseen' = [unseen EXCEPT ![p] = left]
                    /\ missed' = [missed EXCEPT ![p] = {x \in left : \E q \in Upstream(p) : x \in missed[q]}]
    BY <1>12, ZenonT(60) DEF Build
  <2>2. \A q \in Projects : missed'[q] \subseteq unseen'[q]
    BY <1>0, <2>1, ZenonT(60) DEF GateRest
  <2> QED
    BY <1>6, <1>12, <2>2, ZenonT(60) DEF Build, gate
<1>13. ASSUME NEW p \in Projects, DrainAssets(p) PROVE GateRest'
  <2>1. \A q \in Projects : missed'[q] \subseteq unseen'[q]
    BY <1>0, <1>13, ZenonT(60) DEF DrainAssets, GateRest
  <2> QED
    BY <1>6, <1>13, <2>1, ZenonT(60) DEF DrainAssets, gate
<1>14. ASSUME NEW p \in Projects, DrainAssetsFails(p) PROVE GateRest'
  <2>1. \A q \in Projects : missed'[q] \subseteq unseen'[q]
    BY <1>3, <1>14, ZenonT(60) DEF DrainAssetsFails
  <2> QED
    BY <1>6, <1>14, <2>1, ZenonT(60) DEF DrainAssetsFails, gate
<1>15. CASE EndTurn
  <2>1. UNCHANGED <<unseen, missed>> /\ pending' = FALSE /\ (main' = "wait" => running')
    BY <1>15, ZenonT(60) DEF EndTurn, Leave
  <2> QED
    BY <1>7, <2>1, ZenonT(60) DEF GateRest
<1>16. CASE FillRaces
  <2>1. UNCHANGED <<running, pending, unseen>> /\ missed' \in {missed, unseen} /\ main' = "trigger"
    BY <1>16, ZenonT(60) DEF FillRaces, gate
  <2> QED
    BY <2>1, ZenonT(60) DEF GateRest
<1>17. CASE Drain
  <2>1. UNCHANGED <<running, pending, unseen, missed>> /\ (main' = "wait" => running)
    BY <1>17, ZenonT(60) DEF Drain, gate
  <2> QED
    BY <2>1, ZenonT(60) DEF GateRest
<1>18. ASSUME NEW p \in Projects, RojoOverflow(p) PROVE GateRest'
  <2>1. \A q \in Projects : missed'[q] \subseteq missed[q] \cup unseen[q] /\ unseen'[q] = unseen[q]
    BY <1>18, ZenonT(60) DEF RojoOverflow
  <2> QED
    BY <1>18, <2>1, TriggerRest, ZenonT(60) DEF RojoOverflow, GateRest
<1>19. CASE RojoError
  <2>1. \A q \in Projects : missed'[q] \subseteq unseen'[q]
    BY <1>3, <1>19, ZenonT(60) DEF RojoError
  <2> QED
    BY <1>19, <2>1, TriggerRest, ZenonT(60) DEF RojoError, GateRest
<1> QED
  BY <1>1, <1>4, <1>5, <1>8, <1>9, <1>10, <1>11, <1>12, <1>13, <1>14, <1>15, <1>16, <1>17, <1>18, <1>19, ZenonT(60)
     DEF Next, Callback, Cycle, Main

LEMMA GateRestAlways == Spec => []GateRest
<1>1. Init => GateRest
  BY ZenonT(60) DEF Init, GateRest
<1>2. Inv => TypeOK
  BY Zenon DEF Inv
<1> QED
  BY <1>1, <1>2, GateRestStep, Invariance, PTL DEF Spec

\* The main loop waits and nothing is under way: no cycle, no callback, nothing
\* that the watcher has still to report.
NothingUnderWay == main = "select" /\ ~running /\ calls = {} /\ queue = {}

RestMeansSeen == NothingUnderWay => AtRest

\* When nothing is under way, every project that is not blocked has seen every
\* change that was not missed: no change waits for an event that will not come.
\* It is what EditsReachBuilds has to say of the state the watch comes to.
THEOREM NothingLeftBehind == Spec => []RestMeansSeen
<1>1. Inv /\ GateRest => RestMeansSeen
  <2> SUFFICES ASSUME Inv, GateRest, NothingUnderWay, NEW p \in Projects \ blocked
               PROVE  unseen[p] = missed[p]
    BY ZenonT(60) DEF RestMeansSeen, AtRest, NothingUnderWay
  <2>1. pc = "none"
    BY ZenonT(60) DEF Inv, Gate, OneCycle, NothingUnderWay
  <2>2. s = NoEvents
    BY <2>1, ZenonT(60) DEF Inv, Gate, EventsHaveACycle, NothingUnderWay, GateRest
  <2>3. taken = NoEvents /\ todo = {}
    BY <2>1, ZenonT(60) DEF Inv, Shape
  <2>4. \A x : ~Announces(NoEvents, p, x)
    BY DEF Announces, NoEvents
  <2>5. unseen[p] \subseteq missed[p]
    BY <2>2, <2>3, <2>4, ZenonT(60) DEF Inv, NothingForgotten, NothingUnderWay
  <2> QED
    BY <2>5, ZenonT(60) DEF GateRest
<1> QED
  BY <1>1, Invariance, GateRestAlways, PTL

SomeoneWakesMain == main = "wait" => running

\* compileGate.Drain never waits for a channel that nobody closes: while it waits,
\* the goroutine that closes the channel runs.
THEOREM DrainIsWoken == Spec => []SomeoneWakesMain
<1>1. GateRest => SomeoneWakesMain
  BY Zenon DEF GateRest, SomeoneWakesMain
<1> QED
  BY <1>1, GateRestAlways, PTL

\* The points of a turn, in their order.
Turn(c) ==
    CASE c = "take" -> 1 [] c = "reload" -> 2 [] c = "close" -> 3 [] c = "open" -> 4 [] c = "invalidate" -> 5
      [] c = "drain" -> 6 [] c = "close again" -> 7 [] c = "open again" -> 8 [] c = "assets" -> 9
      [] OTHER -> 10

\* The turn of the gate has come nearer to its end: it is over, it has reached a
\* later point, or has a project less to build or to copy the assets of.
Nearer ==
    \/ pc = "leave" /\ pc' \in {"take", "none"}
    \/ Turn(pc') > Turn(pc)
    \/ pc' = pc /\ todo' \subseteq todo /\ todo' # todo
    \/ pc' = pc /\ todo' = todo /\ taken'.assets \subseteq taken.assets /\ taken'.assets # taken.assets

Stays == pc' = pc /\ todo' = todo /\ taken'.assets = taken.assets

\* Every step of a cycle brings its turn of compileGate nearer to the end, and no
\* edit, callback or start of the watch takes it back: a turn has finitely many
\* steps, however many events come in meanwhile.
THEOREM TurnsAdvance ==
    Spec => [][running => Nearer \/ (~Cycle /\ Stays)]_vars
<1>1. /\ Turn("reload") > Turn("take") /\ Turn("invalidate") > Turn("take")
      /\ Turn("close") > Turn("reload") /\ Turn("leave") > Turn("reload")
      /\ Turn("open") > Turn("close") /\ Turn("open again") > Turn("close again")
      /\ Turn("invalidate") > Turn("open") /\ Turn("assets") > Turn("open again")
      /\ Turn("drain") > Turn("invalidate") /\ Turn("assets") > Turn("invalidate")
      /\ Turn("close again") > Turn("drain") /\ Turn("leave") > Turn("assets")
  BY DEF Turn
<1>2. ASSUME TypeOK, Cycle PROVE Nearer
  <2>0. taken \in Events
    BY <1>2, Zenon DEF TypeOK
  <2>1. CASE Take \/ Reload \/ ReloadFails \/ Close \/ Open \/ EndDrain \/ EndAssets
    BY <1>1, <2>1, ZenonT(60) DEF Take, Reload, ReloadFails, Close, Open, EndDrain, EndAssets, Nearer
  <2>2. CASE Invalidate
    <3>1. pc = "invalidate" /\ pc' \in {"drain", "assets"}
      BY <2>2, ZenonT(60) DEF Invalidate
    <3> QED
      BY <1>1, <3>1, ZenonT(60) DEF Nearer
  <2>3. ASSUME NEW p \in Projects, Build(p) \/ Block(p) PROVE Nearer
    <3>1. pc' = pc /\ todo' = todo \ {p} /\ p \in todo
      BY <2>3, ZenonT(60) DEF Build, Block
    <3> QED
      BY <3>1, ZenonT(60) DEF Nearer
  <2>4. ASSUME NEW p \in Projects, DrainAssets(p) \/ DrainAssetsFails(p) PROVE Nearer
    <3>1. pc' = pc /\ todo' = todo /\ p \in taken.assets /\ taken' = [taken EXCEPT !.assets = @ \ {p}]
      BY <2>4, ZenonT(60) DEF DrainAssets, DrainAssetsFails
    <3>2. taken'.assets = taken.assets \ {p}
      BY <2>0, <3>1, ZenonT(60) DEF Events
    <3> QED
      BY <3>1, <3>2, ZenonT(60) DEF Nearer
  <2>5. CASE EndTurn
    BY <2>5, ZenonT(60) DEF EndTurn, Leave, Nearer
  <2> QED
    BY <1>2, <2>1, <2>2, <2>3, <2>4, <2>5, ZenonT(60) DEF Cycle
<1>3. ASSUME TypeOK, Next, ~Cycle, running PROVE Stays
  <2>1. Trigger => pc' = pc
    BY <1>3, ZenonT(60) DEF Trigger
  <2>2. CASE Callback \/ \E x \in ConfigFiles : ConfigTrigger(x)
    BY <2>1, <2>2, ZenonT(60) DEF Callback, RootCallback, RootOverflow, RootError, RojoCallback, RojoOverflow, RojoError, ConfigCallback,
                                  ConfigTrigger, Stays
  <2>3. CASE FillRaces
    <3>1. pc' = pc /\ todo' = todo /\ (taken' = taken \/ taken' = [taken EXCEPT !.projects = Projects])
      BY <2>3, ZenonT(60) DEF FillRaces
    <3>2. taken'.assets = taken.assets
      BY <1>3, <3>1, ZenonT(60) DEF TypeOK, Events
    <3> QED
      BY <3>1, <3>2, Zenon DEF Stays
  <2>4. CASE FirstRefresh \/ Fill \/ FirstTrigger \/ Drain \/ \E x \in Inputs : Edit(x)
    BY <2>1, <2>4, ZenonT(60) DEF FirstRefresh, Fill, FirstTrigger, Drain, Edit, Stays
  <2> QED
    BY <1>3, <2>2, <2>3, <2>4, ZenonT(60) DEF Next, Main
<1>4. Inv /\ [Next]_vars => [running => Nearer \/ (~Cycle /\ Stays)]_vars
  BY <1>2, <1>3, ZenonT(60) DEF Inv
<1> QED
  BY <1>4, Invariance, PTL DEF Spec
-------------------------------------------------------------------------------
(***************************************************************************)
(* The polling watch, for any files, stamps and bounds.  ReadInv says of   *)
(* the middle of a pass what PassedInv says of its end.                    *)
(***************************************************************************)
FileStamps == [Files -> Stamps]

\* PollTypeOK and the types it leaves open.
Types ==
    /\ PollTypeOK
    /\ mode \in Modes
    /\ pruned \in BOOLEAN
    /\ failed \in BOOLEAN
    /\ phase # "read" => unread = {}
    /\ phase # "settle" => rounds = 0
    /\ Config \notin unread

Passed == phase \in {"sleep", "settle"}

Detected(f) == text[f] # read[f] => baseline[f] # stamp[f]

\* What is read already is as it was read, or differs from the baseline.
ReadInv ==
    phase = "read" => \A f \in Concerned \ (unread \cup masked) :
        Building \/ f \in known => Detected(f)

PassedInv == Passed => \A f \in Concerned \ (masked \cup absorbed) : Detected(f)

\* A directory that is not walked has no stamps in the baseline.
PrunedInv ==
    /\ Building /\ ~pruned => ~mode.guessed
    /\ Building /\ Passed /\ ~failed => pruned
    /\ ~Building \/ pruned => \A f \in Outputs : baseline[f] = NoStamp

PollInv == Types /\ ReadInv /\ PassedInv /\ PrunedInv

USE ConfigAssumption, DisjointAssumption, TextAssumption, CopyAssumption
-------------------------------------------------------------------------------
LEMMA NewStampIsNew ==
    ASSUME Types, NEW f \in Files
    PROVE  /\ NewStamp(f) \in Stamps
           /\ NewStamp(f) \notin {NoStamp, stamp[f], baseline[f], current[f], copied[f]}
<1>1. stamp[f] \in Stamps /\ baseline[f] \in Stamps /\ current[f] \in Stamps /\ copied[f] \in Stamps
  BY DEF Types, PollTypeOK
<1>2. \E new \in Stamps : new \notin {NoStamp, stamp[f], baseline[f], current[f], copied[f]}
  BY <1>1, StampAssumption, Zenon
<1> QED
  BY <1>2, ZenonT(60) DEF NewStamp

LEMMA SnapshotTyped == ASSUME Types PROVE Snapshot \in FileStamps
  BY StampAssumption DEF Types, PollTypeOK, Snapshot, FileStamps

LEMMA SameSnapshot ==
    ASSUME Types, Differ(baseline, Snapshot) = {}
    PROVE  Snapshot = baseline
<1>1. Snapshot \in FileStamps /\ baseline \in FileStamps
  BY SnapshotTyped, ZenonT(60) DEF Types, PollTypeOK, FileStamps
<1>2. \A f \in Files : baseline[f] = Snapshot[f]
  BY ZenonT(60) DEF Differ
<1> QED
  BY <1>1, <1>2 DEF FileStamps

LEMMA SourceTextsTyped ==
    /\ \A t \in SourceTexts, f \in Sources : \A u \in Texts(f) \cup {Absent} :
          [t EXCEPT ![f] = u] \in SourceTexts
    /\ [f \in Sources |-> Absent] \in SourceTexts
    /\ \A t \in SourceTexts : [f \in Sources |-> IF f = Config THEN t[f] ELSE Absent] \in SourceTexts
<1> DEFINE T == {Absent} \cup UNION {Texts(f) : f \in Sources}
<1>1. Absent \in T
  OBVIOUS
<1>2. ASSUME NEW f \in Sources, NEW u \in Texts(f)
      PROVE  u \in T
  <2>1. \E S \in {Texts(g) : g \in Sources} : u \in S
    BY <1>2
  <2> QED
    BY <2>1
<1> HIDE DEF T
<1>3. SourceTexts = [Sources -> T]
  BY DEF SourceTexts, T
<1> QED
  BY <1>1, <1>2, <1>3

LEMMA NoStampsTyped == NoStamps \in FileStamps
  BY StampAssumption DEF NoStamps, FileStamps

LEMMA PollInitInv == ASSUME PollInit PROVE PollInv
<1> DEFINE first == CHOOSE new \in Stamps : new # NoStamp
<1>1. first \in Stamps
  <2>1. \E new \in Stamps : new # NoStamp
    BY ZenonT(60), StampAssumption
  <2> QED
    BY <2>1
<1>2. stamp \in FileStamps
  <2> HIDE DEF first
  <2>1. stamp = [f \in Files |-> IF f \in Plain \/ (f \in Sources /\ text[f] # Absent) THEN first ELSE NoStamp]
    BY ZenonT(60) DEF PollInit, first
  <2> QED
    BY <1>1, <2>1, StampAssumption, ZenonT(60) DEF FileStamps
<1>3. baseline \in FileStamps /\ current \in FileStamps /\ copied \in FileStamps
  BY NoStampsTyped, ZenonT(60) DEF PollInit
<1>4. pruned \in BOOLEAN
  BY ModeAssumption, ZenonT(60) DEF PollInit
<1>5. read \in SourceTexts /\ text \in SourceTexts
  BY SourceTextsTyped, ZenonT(60) DEF PollInit
<1>6. rounds \in 0 .. MaxRounds
  BY BoundAssumption DEF PollInit
<1>7. Types
  BY <1>2, <1>3, <1>4, <1>5, <1>6, Zenon DEF PollInit, Types, PollTypeOK, FileStamps
<1> QED
  BY <1>7 DEF PollInit, PollInv, ReadInv, PassedInv, PrunedInv, Passed, Files, NoStamps
-------------------------------------------------------------------------------
LEMMA SaveFileInv == ASSUME PollInv, NEW f \in Sources, SaveFile(f) PROVE PollInv'
<1> USE DEF PollInv
<1>0. PICK t \in Texts(f) \cup {Absent} : \E new \in SavedStamps(f, t) :
        /\ text' = [text EXCEPT ![f] = t]
        /\ stamp' = [stamp EXCEPT ![f] = new]
        /\ masked' = IF new = baseline[f] THEN masked \cup {f} ELSE masked \ {f}
  BY Zenon DEF SaveFile
<1>1. PICK new \in SavedStamps(f, t) :
        /\ text' = [text EXCEPT ![f] = t]
        /\ stamp' = [stamp EXCEPT ![f] = new]
        /\ masked' = IF new = baseline[f] THEN masked \cup {f} ELSE masked \ {f}
  BY <1>0, Zenon
<1>2. f \in Files /\ new \in Stamps
  <2>1. f \in Files
    BY ZenonT(60) DEF Files
  <2>2. NewStamp(f) \in Stamps
    BY ZenonT(60), <2>1, NewStampIsNew
  <2>3. stamp[f] \in Stamps
    BY <2>1, ZenonT(60) DEF Types, PollTypeOK
  <2> QED
    BY <2>1, <2>2, <2>3, StampAssumption, Zenon DEF SavedStamps
<1>3. UNCHANGED <<mode, phase, baseline, known, current, rounds, pruned, listed, read, unread, copied, failed, absorbed>>
  BY ZenonT(60) DEF SaveFile, snapshots, pass
<1>4. Types'
  <2>1. text' \in SourceTexts
    BY <1>1, SourceTextsTyped, ZenonT(60) DEF Types, PollTypeOK
  <2> QED
    BY <1>1, <1>2, <1>3, <2>1, ZenonT(60) DEF Types, PollTypeOK
<1>5. \A g \in Sources \ masked' : (g \in masked \/ Detected(g)) => Detected(g)'
  BY <1>1, <1>2, <1>3 DEF Detected, Types, PollTypeOK, SourceTexts
<1>6. Concerned' = Concerned /\ Concerned \subseteq Sources
  BY <1>3, ZenonT(60) DEF Concerned, Building, Types, PollTypeOK
<1>7. ReadInv'
  BY <1>3, <1>5, <1>6, ZenonT(60) DEF ReadInv, Building
<1>8. PassedInv'
  BY <1>3, <1>5, <1>6, ZenonT(60) DEF PassedInv, Passed
<1>9. PrunedInv'
  BY <1>3, ZenonT(60) DEF PrunedInv, Passed, Building
<1> QED
  BY <1>4, <1>7, <1>8, <1>9

\* No source is concerned.
LEMMA SavePlainInv == ASSUME PollInv, NEW f \in Plain, SavePlain(f) PROVE PollInv'
<1> USE DEF PollInv
<1>1. UNCHANGED <<mode, text, phase, baseline, known, current, rounds, pruned, listed, read, unread, copied, failed,
                  masked, absorbed>>
  BY ZenonT(60) DEF SavePlain, snapshots, pass
<1>2. PICK new \in {NewStamp(f), NoStamp} : stamp' = [stamp EXCEPT ![f] = new]
  BY Zenon DEF SavePlain
<1>3. f \in Files /\ f \notin Sources
  BY ZenonT(60) DEF Files
<1>4. new \in Stamps
  BY <1>2, <1>3, NewStampIsNew, StampAssumption, ZenonT(60)
<1>5. Types'
  BY <1>1, <1>2, <1>4, ZenonT(60) DEF Types, PollTypeOK
<1>6. \A g \in Sources : stamp'[g] = stamp[g]
  BY <1>2, <1>3, ZenonT(60) DEF Types, PollTypeOK, Files
<1>7. Concerned' = Concerned /\ Concerned \subseteq Sources
  BY <1>1, ZenonT(60) DEF Concerned, Building, Types, PollTypeOK
<1>8. ReadInv' /\ PassedInv' /\ PrunedInv'
  BY <1>1, <1>6, <1>7, ZenonT(60) DEF ReadInv, PassedInv, PrunedInv, Passed, Building, Detected
<1> QED
  BY <1>5, <1>8

LEMMA StartInv == ASSUME PollInv, Start PROVE PollInv'
<1> USE DEF PollInv
<1>1. UNCHANGED <<mode, text, stamp, known, current, rounds, pruned, listed, read, unread, copied, failed>>
  BY ZenonT(60) DEF Start, disk, pass
<1>2. Types'
  BY <1>1, SnapshotTyped, ZenonT(60) DEF Start, Types, PollTypeOK, FileStamps
<1>3. ReadInv' /\ PassedInv'
  BY ZenonT(60) DEF Start, ReadInv, PassedInv, Passed
<1>4. PrunedInv'
  BY <1>1 DEF Start, PrunedInv, Passed, Building, Snapshot, Walked, Files
<1> QED
  BY ZenonT(60), <1>2, <1>3, <1>4

LEMMA TickInv == ASSUME PollInv, Tick PROVE PollInv'
<1> USE DEF PollInv
<1>1. UNCHANGED <<mode, text, stamp, baseline, known, rounds, pruned, listed, read, unread, copied, failed, masked, absorbed>>
  BY DEF Tick, disk, pass
<1>2. Types'
  BY <1>1, SnapshotTyped, BoundAssumption DEF Tick, Types, PollTypeOK, FileStamps
<1>3. ReadInv' /\ PassedInv'
  BY <1>1, ZenonT(60) DEF Tick, ReadInv, PassedInv, Passed, Concerned, Building, Detected
<1>4. PrunedInv'
  <2>1. Passed /\ (Building' <=> Building)
    BY <1>1, Zenon DEF Tick, Passed, Building
  <2> QED
    BY <1>1, <2>1, Zenon DEF PrunedInv
<1> QED
  BY <1>2, <1>3, <1>4

\* A baseline that is replaced between two passes is the same.
LEMMA SettleInv == ASSUME PollInv, Settle PROVE PollInv'
<1> USE DEF PollInv
<1>1. UNCHANGED <<mode, text, stamp, known, pruned, listed, read, unread, copied, failed, masked, absorbed>>
  BY ZenonT(60) DEF Settle, disk, pass
<1>2. /\ rounds' \in 0 .. MaxRounds
      /\ phase' = "settle" => rounds' < MaxRounds
      /\ phase' # "settle" => rounds' = 0
  BY BoundAssumption DEF Settle, Capped, Types, PollTypeOK
<1>3. baseline' = baseline \/ baseline' = Snapshot
  BY ZenonT(60) DEF Settle
<1>4. phase' \in {"sleep", "settle"} => baseline' = baseline
  BY SameSnapshot, SMTT(60) DEF Settle
<1>5. Types'
  BY <1>1, <1>2, <1>3, SnapshotTyped, NoStampsTyped, ZenonT(60) DEF Settle, Types, PollTypeOK, FileStamps
<1>6. ReadInv' /\ PassedInv'
  BY <1>1, <1>4, ZenonT(60) DEF Settle, ReadInv, PassedInv, Passed, Concerned, Building, Detected
<1>7. PrunedInv'
  BY <1>1, <1>3 DEF Settle, PrunedInv, Passed, Building, Snapshot, Walked, Files, Types, PollTypeOK
<1> QED
  BY <1>5, <1>6, <1>7
-------------------------------------------------------------------------------
LEMMA BeginPassInv == ASSUME PollInv, BeginPass PROVE PollInv'
<1> USE DEF PollInv
<1>1. UNCHANGED <<mode, text, stamp, baseline, known, current, rounds, pruned, copied, failed>>
  BY ZenonT(60) DEF BeginPass, disk, snapshots
<1>2. Listing \subseteq Sources /\ Config \in Listing
  BY ZenonT(60) DEF Listing
<1>3. Types'
  <2>1. read' \in SourceTexts
    BY SourceTextsTyped, ZenonT(60) DEF BeginPass, Types, PollTypeOK
  <2> QED
    BY <1>1, <1>2, <2>1, ZenonT(60) DEF BeginPass, Types, PollTypeOK
<1>4. \A f \in (Concerned \ unread)' : text[f] = read'[f]
  BY <1>1, <1>2, ZenonT(60) DEF BeginPass, Concerned, Listing, Building, Types, PollTypeOK
<1>5. ReadInv' /\ PassedInv'
  BY <1>1, <1>4, ZenonT(60) DEF BeginPass, ReadInv, PassedInv, Passed, Detected
<1>6. PrunedInv'
  BY <1>1 DEF BeginPass, PrunedInv, Passed, Building
<1> QED
  BY <1>3, <1>5, <1>6

LEMMA ReadFileInv == ASSUME PollInv, NEW f \in Sources, Read(f) PROVE PollInv'
<1> USE DEF PollInv
<1>1. UNCHANGED <<mode, text, stamp, phase, baseline, known, current, rounds, pruned, listed, copied, failed, masked, absorbed>>
  BY ZenonT(60) DEF Read, disk, snapshots
<1>2. Types'
  BY <1>1, ZenonT(60) DEF Read, Types, PollTypeOK, SourceTexts
<1>3. read'[f] = text[f] /\ \A g \in Sources \ {f} : read'[g] = read[g]
  BY ZenonT(60) DEF Read, Types, PollTypeOK, SourceTexts
<1>4. Concerned' = Concerned /\ Concerned \subseteq Sources
  BY <1>1, <1>3, ZenonT(60) DEF Read, Concerned, Building, Types, PollTypeOK
<1>5. ReadInv'
  <2> SUFFICES ASSUME NEW g \in (Concerned \ (unread \cup masked))', (Building \/ g \in known)'
               PROVE  Detected(g)'
    BY ZenonT(60) DEF ReadInv
  <2>1. CASE g = f
    BY <1>1, <1>3, <2>1, ZenonT(60) DEF Detected
  <2>2. CASE g # f
    BY <1>1, <1>3, <1>4, <2>2, ZenonT(60) DEF Read, ReadInv, Detected, Building
  <2> QED
    BY ZenonT(60), <2>1, <2>2
<1>6. PassedInv' /\ PrunedInv'
  BY <1>1 DEF Read, PassedInv, PrunedInv, Passed, Building
<1> QED
  BY ZenonT(60), <1>2, <1>5, <1>6

\* What a build writes is no source, and the sources keep their stamps in the
\* baseline.
LEMMA EndBuildInv ==
    ASSUME PollInv, Building, ReadAll, NEW ok \in BOOLEAN, EndBuild(ok),
           NEW W \in SUBSET (Generated \cup Outputs), NEW R \in SUBSET Outputs, stamp' = Written(W, R),
           copied' \in {copied, CopyRecord}
    PROVE  PollInv'
<1> USE DEF PollInv
<1>1. UNCHANGED <<mode, text, known, current, rounds, listed, read, unread, masked, absorbed>>
  BY ZenonT(60) DEF EndBuild, pass
<1>2. mode.guessed \in BOOLEAN
  BY ModeAssumption, ZenonT(60) DEF Types
<1>3. pruned' = (ok \/ mode.guessed) /\ phase' = "sleep" /\ failed' = ~ok
  BY DEF EndBuild
<1>4. baseline' = [f \in Files |-> IF f \in Outputs /\ pruned' THEN NoStamp ELSE baseline[f]]
  BY <1>3, Zenon DEF EndBuild, Pruned
<1>5. baseline' \in FileStamps
  BY <1>4, StampAssumption, ZenonT(60) DEF Types, PollTypeOK, FileStamps
<1>6. stamp' \in FileStamps
  <2>1. \A f \in Files : NewStamp(f) \in Stamps /\ stamp[f] \in Stamps
    BY NewStampIsNew, ZenonT(60) DEF Types, PollTypeOK
  <2> HIDE DEF PollInv
  <2> QED
    BY <2>1, StampAssumption, ZenonT(60) DEF Written, FileStamps
<1>7. Types'
  <2>1. pruned' \in BOOLEAN /\ failed' \in BOOLEAN
    BY ZenonT(60), <1>2, <1>3
  <2>2. unread = {}
    BY ZenonT(60) DEF ReadAll
  <2>3. rounds' = 0
    BY <1>1, ZenonT(60) DEF ReadAll, Types
  <2>4. copied' \in FileStamps
    <3>1. CopyRecord \in FileStamps
      BY <1>6, StampAssumption, ZenonT(60) DEF CopyRecord, FileStamps
    <3> QED
      BY <3>1, ZenonT(60) DEF Types, PollTypeOK, FileStamps
  <2> QED
    BY <1>1, <1>3, <1>5, <1>6, <2>1, <2>2, <2>3, <2>4, ZenonT(60) DEF Types, PollTypeOK, FileStamps
<1>8. \A f \in Sources : baseline'[f] = baseline[f] /\ stamp'[f] = stamp[f]
  BY <1>4, ZenonT(60) DEF Written, Files
<1>9. Concerned' = Concerned /\ Concerned \subseteq Sources
  BY <1>1, ZenonT(60) DEF Concerned, Building, Types, PollTypeOK
<1>10. PassedInv'
  BY <1>1, <1>8, <1>9, ZenonT(60) DEF ReadAll, ReadInv, PassedInv, Detected
<1>11. ReadInv'
  BY <1>3 DEF ReadInv
<1>12. PrunedInv'
  BY <1>1, <1>2, <1>3, <1>4, Zenon DEF PrunedInv, Passed, Building, Files
<1> QED
  BY ZenonT(60), <1>7, <1>10, <1>11, <1>12

LEMMA CopiesAreOutputs == Copies \subseteq Outputs /\ Copied \subseteq Copies /\ Orphans \subseteq Outputs
  BY DEF Copies, Copied, Orphans

LEMMA BuildInv == ASSUME PollInv, BuildSucceeds \/ BuildRejects \/ BuildFails PROVE PollInv'
<1> USE CopiesAreOutputs
<1>0. Stale \subseteq Generated
  BY DEF Stale
<1>1. CASE BuildSucceeds
  <2>1. PICK W \in SUBSET (Outputs \ Copies) : \E R \in SUBSET Orphans : stamp' = Written(Copied \cup W \cup Stale, R)
    BY <1>1, Zenon DEF BuildSucceeds
  <2>2. PICK R \in SUBSET Orphans : stamp' = Written(Copied \cup W \cup Stale, R)
    BY <2>1, Zenon
  <2> DEFINE all == Copied \cup W \cup Stale
  <2>3. all \in SUBSET (Generated \cup Outputs) /\ R \in SUBSET Outputs
    BY <1>0
  <2>4. stamp' = Written(all, R)
    BY <2>2
  <2> HIDE DEF all
  <2> QED
    BY <1>1, <2>3, <2>4, EndBuildInv, Zenon DEF BuildSucceeds
<1>2. CASE BuildRejects
  <2>1. \E W \in SUBSET (Generated \cup Outputs), R \in SUBSET Outputs : stamp' = Written(W, R)
    <3>1. CASE read[Config] = Absent
      <4>1. stamp' = Written({}, {})
        BY <1>2, <3>1 DEF BuildRejects, Written, PollInv, Types, PollTypeOK
      <4> QED
        BY <4>1, Zenon
    <3>2. CASE read[Config] # Absent
      <4>1. PICK R \in SUBSET Orphans : stamp' = Written(Copied, R)
        BY <1>2, <3>2, Zenon DEF BuildRejects
      <4>2. Copied \in SUBSET (Generated \cup Outputs) /\ R \in SUBSET Outputs
        OBVIOUS
      <4> QED
        BY <4>1, <4>2, Zenon
    <3> QED
      BY <3>1, <3>2
  <2>2. PICK W \in SUBSET (Generated \cup Outputs) : \E R \in SUBSET Outputs : stamp' = Written(W, R)
    BY <2>1, Zenon
  <2>3. PICK R \in SUBSET Outputs : stamp' = Written(W, R)
    BY <2>2, Zenon
  <2> QED
    BY <1>2, <2>3, EndBuildInv, Zenon DEF BuildRejects
<1>3. CASE BuildFails
  <2>1. PICK W \in SUBSET ((Outputs \ Copies) \cup Copied \cup Stale) : \E R \in SUBSET Orphans : stamp' = Written(W, R)
    BY <1>3, ZenonT(60) DEF BuildFails
  <2>2. PICK R \in SUBSET Orphans : stamp' = Written(W, R)
    BY <2>1, Zenon
  <2>3. W \in SUBSET (Generated \cup Outputs) /\ R \in SUBSET Outputs
    BY <1>0
  <2> QED
    BY <1>3, <2>2, <2>3, EndBuildInv, Zenon DEF BuildFails
<1> QED
  BY <1>1, <1>2, <1>3

\* A file that has no stamp from before the check is absorbed or unchanged.
LEMMA CheckEndsInv == ASSUME PollInv, CheckEnds PROVE PollInv'
<1> USE DEF PollInv
<1>1. UNCHANGED <<mode, text, stamp, current, rounds, pruned, listed, read, unread, copied, failed, masked>>
  BY ZenonT(60) DEF CheckEnds, disk, pass
<1>2. baseline' = [f \in Files |-> IF f \in listed \cap known THEN baseline[f] ELSE Snapshot[f]]
  BY ZenonT(60) DEF CheckEnds, MergePreStamps
<1>3. baseline' \in FileStamps
  BY <1>2, SnapshotTyped, SMTT(60) DEF Types, PollTypeOK, FileStamps
<1>4. Types'
  BY <1>1, <1>3, ZenonT(60) DEF CheckEnds, ReadAll, Types, PollTypeOK, FileStamps
<1>5. PassedInv'
  <2> SUFFICES ASSUME NEW f \in (Concerned \ (masked \cup absorbed))', text'[f] # read'[f]
               PROVE  baseline'[f] # stamp'[f]
    BY SMTT(60) DEF PassedInv, Detected
  <2>1. f \in listed /\ f \in Concerned /\ f \in Files
    BY <1>1, ZenonT(60) DEF CheckEnds, Concerned, Building, Types, PollTypeOK, Files
  <2>2. f \in known
    BY <1>1, <2>1, ZenonT(60) DEF CheckEnds
  <2> QED
    BY <1>1, <1>2, <2>1, <2>2, ZenonT(60) DEF CheckEnds, ReadAll, ReadInv, Detected
<1>6. ReadInv'
  BY ZenonT(60) DEF CheckEnds, ReadInv
<1>7. PrunedInv'
  BY <1>1, <1>2, ZenonT(60) DEF CheckEnds, PrunedInv, Building, Snapshot, Walked, Files, Types, PollTypeOK
<1> QED
  BY ZenonT(60), <1>4, <1>5, <1>6, <1>7

LEMMA NextInv == ASSUME PollInv, [PollNext]_pollVars PROVE PollInv'
<1>1. CASE UNCHANGED pollVars
  BY <1>1, ZenonT(60) DEF pollVars, disk, snapshots, pass, PollInv, Types, PollTypeOK, ReadInv, PassedInv, PrunedInv,
              Passed, Concerned, Building, Detected
<1>2. CASE PollNext
  BY <1>2, SaveFileInv, SavePlainInv, StartInv, TickInv, SettleInv, BeginPassInv, ReadFileInv, BuildInv,
     CheckEndsInv DEF PollNext, Watch
<1> QED
  BY <1>1, <1>2, ZenonT(60)
-------------------------------------------------------------------------------
LEMMA PollInvariance == PollSpec => []PollInv
<1>1. PollInit => PollInv
  BY PollInitInv
<1>2. PollInv /\ [PollNext]_pollVars => PollInv'
  BY NextInv
<1> QED
  BY <1>1, <1>2, PTL DEF PollSpec

\* The stamps are of their types, and settleChanges is bounded by its cap.
THEOREM PollTypesCorrect == PollSpec => []PollTypeOK
<1>1. PollInv => PollTypeOK
  BY ZenonT(60) DEF PollInv, Types
<1> QED
  BY <1>1, PollInvariance, PTL

\* No save is lost, whenever runBuildWatch or runWatch meets it, unless it gave
\* the file the stamp of the baseline or a check had no stamp from before.
THEOREM NoSaveLost == PollSpec => []EditsDetected
<1>1. PollInv => EditsDetected
  BY ZenonT(60) DEF PollInv, PassedInv, Passed, Detected, EditsDetected
<1> QED
  BY <1>1, PollInvariance, PTL

\* The outputs of a build wake runBuildWatch only after a failure, and then only
\* if guessedOutputDir guesses wrongly.
THEOREM OwnOutputsIgnored == PollSpec => []OutputsIgnored
<1>1. PollInv => OutputsIgnored
  <2> SUFFICES ASSUME PollInv, phase = "sleep", Differ(baseline, Snapshot) \cap Outputs # {}
               PROVE  failed /\ ~mode.guessed
    BY ZenonT(60) DEF OutputsIgnored
  <2>1. PICK f \in Outputs : baseline[f] # Snapshot[f]
    BY DEF Differ
  <2>2. Building /\ ~pruned
    BY <2>1, Zenon DEF PollInv, PrunedInv, Snapshot, Walked, Files, Types, PollTypeOK
  <2> QED
    BY <2>2, ZenonT(60) DEF PollInv, PrunedInv, Passed, Types
<1> QED
  BY <1>1, PollInvariance, PTL

AtSleepAllRead ==
    phase = "sleep" /\ Differ(baseline, Snapshot) = {} =>
        \A f \in Concerned \ (masked \cup absorbed) : text[f] = read[f]

\* While the loop sleeps over an unchanged snapshot, the last pass has read what is
\* there: the snapshot covers every file that a save may have changed.  It is what
\* ComesToRest has to say of the state the watch comes to.
THEOREM SleepMeansRead == PollSpec => []AtSleepAllRead
<1>1. PollInv => AtSleepAllRead
  <2> SUFFICES ASSUME PollInv, phase = "sleep", Differ(baseline, Snapshot) = {},
                      NEW f \in Concerned \ (masked \cup absorbed)
               PROVE  text[f] = read[f]
    BY ZenonT(60) DEF AtSleepAllRead
  <2>1. f \in Sources /\ f \in Files
    BY ZenonT(60) DEF PollInv, Types, PollTypeOK, Concerned, Files
  <2>2. f \notin Outputs
    BY <2>1, ZenonT(60)
  <2>3. Walked(f)
    BY <2>2, ZenonT(60) DEF Walked, Concerned
  <2>4. Snapshot[f] = stamp[f]
    BY <2>1, <2>3, ZenonT(60) DEF Snapshot
  <2>5. baseline[f] = stamp[f]
    BY <2>1, <2>4, ZenonT(60) DEF Differ
  <2> QED
    BY <2>5, ZenonT(60) DEF PollInv, PassedInv, Passed, Detected
<1> QED
  BY <1>1, PollInvariance, PTL

Repeats == (BuildSucceeds /\ saved = read) \/ (BuildRejects /\ mode.guessed)

\* A build of what the generated files were made from already wakes the loop by
\* nothing it writes: what differs afterwards had differed before.  The first
\* build after a save may be followed by a second one, which is the last unless a
\* file is saved meanwhile.  A rejected build is quiet too, copies and orphans
\* included, if its directory is the one that guessedOutputDir guesses.
THEOREM RepeatedBuildIsQuiet ==
    PollSpec => [][Repeats => Differ(baseline, Snapshot)' = Differ(baseline, Snapshot) \ Outputs]_pollVars
<1>1. ASSUME PollInv, Repeats
      PROVE  Differ(baseline, Snapshot)' = Differ(baseline, Snapshot) \ Outputs
  <2>1. Building /\ Building' /\ pruned' = TRUE
    BY <1>1, ZenonT(60) DEF Repeats, BuildSucceeds, BuildRejects, EndBuild, Building
  <2>2. baseline' = [f \in Files |-> IF f \in Outputs THEN NoStamp ELSE baseline[f]]
    BY <1>1, ZenonT(60) DEF Repeats, BuildSucceeds, BuildRejects, EndBuild, Pruned
  <2>3. \A f \in Files \ Outputs : stamp'[f] = stamp[f]
    <3>1. CASE BuildSucceeds /\ saved = read
      <4>1. Stale = {}
        BY <3>1, Zenon DEF Stale
      <4> QED
        BY <3>1, <4>1, CopiesAreOutputs, ZenonT(60) DEF BuildSucceeds, Written
    <3>2. CASE BuildRejects
      BY <3>2, CopiesAreOutputs, ZenonT(60) DEF BuildRejects, Written
    <3> QED
      BY <1>1, <3>1, <3>2 DEF Repeats
  <2>4. \A f \in Files : Snapshot'[f] = IF f \in Outputs THEN NoStamp ELSE stamp[f]
    BY <2>1, <2>3, ZenonT(60) DEF Snapshot, Walked
  <2>5. \A f \in Files \ Outputs : Snapshot[f] = stamp[f]
    BY <2>1, ZenonT(60) DEF Snapshot, Walked
  <2>6. \A f \in Files : baseline'[f] # Snapshot'[f] <=> f \notin Outputs /\ baseline[f] # Snapshot[f]
    BY <2>2, <2>4, <2>5, ZenonT(60)
  <2> QED
    BY <2>6, ZenonT(60) DEF Differ
<1>2. PollInv /\ [PollNext]_pollVars =>
          [Repeats => Differ(baseline, Snapshot)' = Differ(baseline, Snapshot) \ Outputs]_pollVars
  BY <1>1, Zenon
<1> QED
  BY <1>2, PollInvariance, PTL DEF PollSpec
===============================================================================
