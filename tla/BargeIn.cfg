CONSTANTS
    MaxTurns = 3
    MaxSentences = 1
    PriorTurns = 0
    Timed = FALSE
    Recorded = {}
    Failures <- LlmOnly
SPECIFICATION FairSpec
INVARIANTS
    TypeOK OneSpeaker NoStaleAnswer BufferIsolation NoResend FinalIsPending
PROPERTIES TranscriptSpec FinalReachesLlm
