------------------------------- MODULE MCAssets -------------------------------
EXTENDS Assets

\* Syncs alone; syncs beside a build, with edits; and with faults of each kind.
MCSetups == {
    [edited |-> {1, 2}, may |-> {"lost", "refuse", "save", "crash"}, faults |-> 2],
    [edited |-> {1}, may |-> {"build", "break"}, faults |-> 1],
    [edited |-> {}, may |-> {"build", "lost", "refuse", "save", "crash", "break"}, faults |-> 2] }
===============================================================================
