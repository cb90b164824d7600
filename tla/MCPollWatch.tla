----------------------------- MODULE MCPollWatch -----------------------------
(* A tsconfig, a source, a file that is copied, the outputs and a lockfile.  *)
EXTENDS PollWatch

MCStamps == 0 .. 5

MCTexts(f) == IF f = "main.ts" THEN {1, 2} ELSE {1}

MCCopyOf == [f \in {"data.json"} |-> "out/data.json"]

\* The source has errors with text 2.
MCRejects(t) == t["main.ts"] = 2

WatchModes ==
    {[command |-> "build", guessed |-> TRUE],
     [command |-> "build", guessed |-> FALSE],
     [command |-> "check", guessed |-> TRUE]}
===============================================================================
