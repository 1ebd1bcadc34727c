SPECIFICATION FairSpec
CONSTANTS
    Length = 4
    x = x
    y = y
    z = z
    Theories <- SomeTheories
    Variables <- SharedVariables
    Methods <- AllMethods
INVARIANTS ResultFails Irreducible
PROPERTIES ReductionEnds
