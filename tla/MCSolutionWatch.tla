--------------------------- MODULE MCSolutionWatch ---------------------------
EXTENDS SolutionWatch, TLC

CONSTANTS app, lib

\* app references lib.
MCDownstream == (app :> {app}) @@ (lib :> {app, lib})

Set(edited, faults) == [edited |-> edited, faults |-> faults]

\* Pairs of inputs that meet in a cycle, and each fault with the inputs it
\* concerns.
MCSetups == {
    Set({In("source", lib), Rojo}, {}),
    Set({In("config", lib), In("source", app)}, {}),
    Set({In("config", lib)}, {"reload"}),
    Set({In("source", app)}, {"watcher"}),
    Set({Rojo}, {"rojo watcher"}),
    Set({In("asset", app)}, {"watcher", "copy", "race"}) }
===============================================================================
