---------------------------- MODULE MCBuildCaches ----------------------------
EXTENDS BuildCaches

\* The Rojo project changes; or the files and their copies do.
MCSetups == {
    {"rojo", "upgrade"}, {"rojo", "upgrade", "deferred"},
    {"files", "dest"} }
===============================================================================
