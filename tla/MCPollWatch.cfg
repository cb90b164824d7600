\* Both commands, an output directory that is guessed or not, three saves
\* or failing builds.
CONSTANTS
    Sources = {"tsconfig.json", "main.ts"}
    Config = "tsconfig.json"
    Plain = {"data.json"}
    Generated = {"rotor-lock.json"}
    Outputs = {"out/main.luau", "out/data.json"}
    CopyOf <- MCCopyOf
    Texts <- MCTexts
    Absent = Absent
    Rejects <- MCRejects
    Stamps <- MCStamps
    NoStamp = 0
    Modes <- WatchModes
    MaxRounds = 2
    MaxEvents = 3
SPECIFICATION PollFairSpec
INVARIANTS EditsDetected OutputsIgnored
PROPERTY ComesToRest
CHECK_DEADLOCK FALSE
