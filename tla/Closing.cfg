CONSTANTS
    MaxTurns = 2
    MaxSentences = 2
    PriorTurns = 0
    Timed = FALSE
    Recorded = {1, 2}
    Failures <- Nothing
SPECIFICATION FairSpec
INVARIANT CloseReachesEnd
PROPERTY CloseDelivers
