SPECIFICATION Spec
CONSTANT Statements <- SmallStatements
INVARIANTS CountsExact SafetyExact JoinIsSafe JoinIsComplete
