SPECIFICATION Spec
CONSTANTS
    Terms = {t1, t2}
    NoTerm = NoTerm
    Externals = {e1}
    MaxStep = 2
    MaxWindow = 2
    MaxRules = 3
INVARIANTS VolatileExact ExternalsExact LiveRulesEndable
PROPERTIES FactsOnlyOnOpenAtoms ImplementsLifetime
CHECK_DEADLOCK FALSE
