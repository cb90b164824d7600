------------------------ MODULE MCSolutionCoordinator ------------------------
(* A library, an application, and a tool that may reference the application. *)
(* Without the tool, the application may do without the library.             *)
EXTENDS SolutionCoordinator, TLC

CONSTANT LibTexts   \* texts of the library without errors

MCPosition == [p \in Projects |-> CASE p = "lib" -> 1 [] p = "app" -> 2 [] p = "tool" -> 3]

\* The application and the tool write to the same directory.
MCOverlapping == {<<"app", "tool">>, <<"tool", "app">>} \cap (Projects \X Projects)

MCRefSets(p) ==
    CASE p = "lib"  -> {{}}
      [] p = "app"  -> {{"lib"}} \cup (IF "tool" \in Projects THEN {} ELSE {{}})
      [] p = "tool" -> {{}, {"app"}}

\* Text 0 has errors.
MCTexts(p) == CASE p = "lib" -> {0} \cup LibTexts [] p = "app" -> {1} [] p = "tool" -> {0, 1}

PairTexts(p) == IF p = "lib" THEN LibTexts ELSE {0, 1}

TextSymmetry == Permutations(LibTexts)

MCRejects(p, i) == i.own = 0

\* The output tells everything that was read.
MCEmit(p, i) == i

\* Single builds, a watch and a watch whose builds fail.
BuildModes ==
    {[watch |-> FALSE, events |-> {"crash", "persist"}],
     [watch |-> TRUE, events |-> {}],
     [watch |-> TRUE, events |-> {"error"}]}

\* A watch while references change, one whose references cannot be loaded, and
\* one that is restarted and has failing builds and persists.
ReloadModes ==
    {[watch |-> TRUE, events |-> e] : e \in {{"relink"}, {"config"}, {"crash", "error", "persist"}}}
===============================================================================
