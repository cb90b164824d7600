\* Three projects, built singly or by a watch, with errors in sources and builds.
CONSTANTS
    LibTexts = {t1, t2}
    Projects = {"lib", "app", "tool"}
    Position <- MCPosition
    Overlapping <- MCOverlapping
    RefSets <- MCRefSets
    Texts <- MCTexts
    Emit <- MCEmit
    Rejects <- MCRejects
    NoOutput = NoOutput
    NoManifest = NoManifest
    Broken = Broken
    Modes <- BuildModes
    MaxPersists = 2
SPECIFICATION FairSpec
INVARIANTS StableInputs ExclusiveWriters UpToDateClosed FreshUnlessExposed HeldUpByErrors
PROPERTY EventuallySettled
CHECK_DEADLOCK FALSE
