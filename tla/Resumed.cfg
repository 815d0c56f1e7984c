CONSTANTS
    MaxTurns = 2
    MaxSentences = 1
    PriorTurns = 1
    Timed = FALSE
    Recorded = {}
    Failures <- Nothing
SPECIFICATION Spec
INVARIANT NoResend
