\* All graphs on three paths, with all sets of changed and of present ones.
CONSTANT Paths = {a, b, c}
SPECIFICATION SearchSpec
INVARIANT SelectsAffected
PROPERTY Terminates
