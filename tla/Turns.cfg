SPECIFICATION SystemSpec
CONSTANTS
    Terms = {t1}
    NoTerm = NoTerm
    IntMax = 3
    MaxSteps = 0
    Capacity = 3
    Messages <- AllMessages
    MaxMessages = 3
    Fragments = FALSE
    Waits = {TRUE, FALSE}
INVARIANTS MessagesKept AnswersFresh
PROPERTIES UnsatMeansUnsat MessageParsed TurnsComeBack StepReached StopObeyed
