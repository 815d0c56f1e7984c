CONSTANTS
    MaxTurns = 2
    MaxSentences = 1
    PriorTurns = 0
    Timed = FALSE
    Recorded = {}
    Failures <- TtsOnly
SPECIFICATION FairSpec
PROPERTY FinalReachesLlm
