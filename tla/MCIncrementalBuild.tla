-------------------------- MODULE MCIncrementalBuild --------------------------
(* A project of two files for TLC.  main imports util and augments the       *)
(* global scope; with text 2, util declares an ambient module.               *)
EXTENDS IncrementalBuild, Integers, TLC

MCFiles == {"main", "util"}

MCTexts(f) == IF f = "main" THEN {1, Absent} ELSE {1, 2, Absent}

OptionSymmetry == Permutations(Options)

MCImports(f, t) == IF f = "main" THEN {"util"} ELSE {}

MCAmbient(f, t) == f = "util" /\ t = 2

MCGlobal(f, t) == f = "main"

\* The emitted code of main depends on all the texts that the compiler reads,
\* that of util on the options, on its own text and on the globals.
MCEmit(f, i) ==
    IF f = "main" THEN i.texts ELSE <<i.options, i.texts[f], "main" \in DOMAIN i.texts>>

\* An import of a path with no file is an error, and the globals of main clash
\* with text 1 of util.
MCRejects(f, i) ==
    \/ \E g \in DOMAIN i.texts : i.texts[g] = Absent
    \/ f = "util" /\ i.texts[f] = 1 /\ "main" \in DOMAIN i.texts
===============================================================================
