CONSTANTS
    MaxTurns = 2
    MaxSentences = 1
    PriorTurns = 0
    Timed = TRUE
    Recorded = {}
    Failures <- TtsOnly
SPECIFICATION FairSpec
PROPERTY ExpiryHangsUp
