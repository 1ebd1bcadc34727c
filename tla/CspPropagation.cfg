SPECIFICATION Spec
CONSTANTS
    Atoms = {1, 2, 3}
    Theories <- SomeTheories
    Options <- SomeOptions
INVARIANTS Aligned SpacesExact ConflictHolds ReasonsHold AnswersRight
