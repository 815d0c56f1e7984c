CONSTANTS
    MaxTurns = 2
    MaxSentences = 1
    PriorTurns = 0
    Timed = FALSE
    Recorded = {1, 2}
    Failures <- S3Only
SPECIFICATION FairSpec
PROPERTY CloseDelivers
