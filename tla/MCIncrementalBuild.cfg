\* Sources edited and outputs removed while a build runs; a build may stop
\* anywhere.  Two options, two files, each of which may be removed.
CONSTANTS
    Files <- MCFiles
    Unhashed = {}
    Texts <- MCTexts
    Absent = Absent
    Options = {o1, o2}
    Imports <- MCImports
    Ambient <- MCAmbient
    Global <- MCGlobal
    Emit <- MCEmit
    Rejects <- MCRejects
    NoOutput = NoOutput
    Partial = Partial
    NoManifest = NoManifest
    Incremental = TRUE
SPECIFICATION Spec
INVARIANTS NoErrorHidden FreshUnlessExcepted
SYMMETRY OptionSymmetry
