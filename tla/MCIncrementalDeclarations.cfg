\* util is a declaration file.
CONSTANTS
    Files <- MCFiles
    Unhashed = {"util"}
    Texts <- MCTexts
    Absent = Absent
    Options = {o1}
    Imports <- MCImports
    Ambient <- MCAmbient
    Global <- MCGlobal
    Emit <- MCEmit
    Rejects <- MCRejects
    NoOutput = NoOutput
    Partial = Partial
    NoManifest = NoManifest
    Incremental = TRUE
SPECIFICATION Spec
INVARIANT EmitReadsFreshState
