SPECIFICATION ClingoSpec
CONSTANTS
    Terms = {t1}
    NoTerm = NoTerm
    IntMax = 3
    MaxSteps = 3
    Capacity = 2
    Messages <- LoopMessages
    MaxMessages = 2
    Fragments = TRUE
    Externals = {e1}
    MaxRules = 12
    ProgramWindows = {1}
INVARIANTS RulesAsWritten InputStopsSolver RulesHoldAsWritten
PROPERTIES BoundObeyed
