\* A watch with references that change or cannot be loaded, crashes and failing persists.
CONSTANTS
    LibTexts = {t1, t2}
    Projects = {"lib", "app"}
    Position <- MCPosition
    Overlapping <- MCOverlapping
    RefSets <- MCRefSets
    Texts <- PairTexts
    Emit <- MCEmit
    Rejects <- MCRejects
    NoOutput = NoOutput
    NoManifest = NoManifest
    Broken = Broken
    Modes <- ReloadModes
    MaxPersists = 2
SPECIFICATION Spec
INVARIANT FreshUnlessExposed
SYMMETRY TextSymmetry
CHECK_DEADLOCK FALSE
