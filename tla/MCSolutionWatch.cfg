SPECIFICATION FairSpec
CONSTANTS
    app = app
    lib = lib
    Projects = {app, lib}
    Downstream <- MCDownstream
    Setups <- MCSetups
INVARIANTS
    OneCycle
    EventsHaveACycle
    NothingForgotten
    BlockedByFailure
PROPERTY
    EditsReachBuilds
