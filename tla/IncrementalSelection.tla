------------------------- MODULE IncrementalSelection -------------------------
(***************************************************************************)
(* selectIncrementalSourceFiles (internal/compile/incremental_manifest.go) *)
(* once something has changed: the search from the changed paths through   *)
(* the importers that the current and the previous manifest know.  A       *)
(* changed path that was removed is searched from, but is no file to       *)
(* compile; an importer of the previous manifest may have been removed     *)
(* too.                                                                    *)
(***************************************************************************)
CONSTANT Paths

VARIABLES
    changed,        \* the paths whose hash differs between the manifests
    present,        \* the paths of the current manifest
    reverse,        \* reverse[f]: the importers of f in either manifest
    queue,          \* the paths to search from
    found           \* the paths selected so far

searchVars == <<changed, present, reverse, queue, found>>

input == <<changed, present, reverse>>

SearchInit ==
    /\ changed \in SUBSET Paths
    /\ present \in SUBSET Paths
    /\ reverse \in [Paths -> SUBSET Paths]
    /\ queue = changed
    /\ found = changed \cap present
-------------------------------------------------------------------------------
\* Plausible mistakes in the code below; none of them is part of the model.

\* Only the importers of the changed paths are taken.
SearchOneLevel(path) ==
    /\ path \in queue
    /\ found' = found \cup reverse[path]
    /\ queue' = queue \ {path}
    /\ UNCHANGED input

\* An importer is queued although it has been selected before.
SearchAgain(path) ==
    /\ path \in queue
    /\ found' = found \cup reverse[path]
    /\ queue' = (queue \ {path}) \cup reverse[path]
    /\ UNCHANGED input
-------------------------------------------------------------------------------
\* One turn of the loop.  The changed paths come from a map in any order, so
\* the next path is any one of the queue.
Search(path) ==
    /\ path \in queue
    /\ LET new == reverse[path] \ found IN
        /\ found' = found \cup new
        /\ queue' = (queue \ {path}) \cup new
    /\ UNCHANGED input

\* The result: the selected ones among the source files.
Result == found \cap present

Done == queue = {} /\ UNCHANGED searchVars

SearchNext == Done \/ \E path \in Paths : Search(path)

SearchSafeSpec == SearchInit /\ [][SearchNext]_searchVars

SearchSpec == SearchSafeSpec /\ WF_searchVars(SearchNext)
-------------------------------------------------------------------------------
SearchTypeOK ==
    /\ changed \subseteq Paths
    /\ present \subseteq Paths
    /\ reverse \in [Paths -> SUBSET Paths]
    /\ queue \subseteq Paths
    /\ found \subseteq Paths

\* The least set that holds the changed paths and every importer of a member.
AffectedPaths ==
    {f \in Paths : \A S \in SUBSET Paths :
        changed \subseteq S /\ (\A g \in S : reverse[g] \subseteq S) => f \in S}

\* The search ends with the source files that are affected by a change: it
\* misses no importer, through however many removed files the way leads, and
\* it selects nothing else.
SelectsAffected == queue = {} => Result = AffectedPaths \cap present

\* The search ends, also when files import each other in a circle and when a
\* removed path is queued a second time.
Terminates == <>(queue = {})
===============================================================================
