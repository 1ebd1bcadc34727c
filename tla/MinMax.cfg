SPECIFICATION Spec
CONSTANTS
    Aggregates <- TheAggregates
    Elements <- TheElements
    Allowed <- TheAllowed
INVARIANT MinMaxAsWritten
CHECK_DEADLOCK FALSE
