\* Every kind of resource, alone or with one that can fail beside it: four
\* edits, two faults, nine remote objects.
CONSTANTS
    Resources = {"asset", "badge", "file", "link", "pass", "product", "settings", "thumbnails"}
    Kind <- MCKind
    Rank <- MCRank
    Versions <- MCVersions
    Icon <- MCIcon
    Count <- MCCount
    Absent = Absent
    NoEntry = NoEntry
    NoStep = NoStep
    Scopes = {{"asset", "badge"}, {"link", "pass"}, {"thumbnails"}, {"file", "product"}, {"settings"}}
    MaxEdits = 4
    MaxFaults = 2
    MaxId = 9
SPECIFICATION FairSpec
INVARIANTS Truthful DependenciesReady AppliedInFull OrphansBounded DependentsPickUp
PROPERTY EventuallyDeployed
CHECK_DEADLOCK FALSE
