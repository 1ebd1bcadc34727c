SPECIFICATION Spec
CONSTANTS
    Atoms = {1, 2, 3}
    Theories <- SomeTheories
    Options <- Minimizing
INVARIANT ConflictIsTrue
