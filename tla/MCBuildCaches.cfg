SPECIFICATION Spec
CONSTANTS
    Dirs = {d, e}
    d = d
    e = e
    Files = {f}
    f = f
    Sources = {s}
    s = s
    Setups <- MCSetups
    MaxEdits = 4
    MaxTime = 3
PROPERTIES
    ResolverCurrent
    BuildFresh
