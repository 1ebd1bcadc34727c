SPECIFICATION Spec
CONSTANTS
    Problems <- AllProblems
    x = x
    y = y
    Variables <- Both
    Low <- IntMin
    High = 5
    Domain <- TheDomain
INVARIANTS GuessKeepsSolutions AnswerExactIfUndecided
