SPECIFICATION FairSpec
CONSTANTS
    Programs <- AllPrograms
    Consts = {1, 2, 3}
    MaxStep = 2
    NoAtom = NoAtom
INVARIANTS NothingMissed NothingTwice SameModels
PROPERTIES GroundingEnds
