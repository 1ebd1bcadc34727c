SPECIFICATION Spec
CONSTANTS
    Aggregates <- TheAggregates
    Elements <- TheElements
    Allowed <- TheAllowed
INVARIANTS DecisionsSound RulesRight
CHECK_DEADLOCK FALSE
