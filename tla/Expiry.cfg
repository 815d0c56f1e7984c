CONSTANTS
    MaxTurns = 2
    MaxSentences = 1
    PriorTurns = 0
    Timed = TRUE
    Recorded = {}
    Failures <- LlmSttAndBackend
SPECIFICATION FairSpec
INVARIANTS NoticeIsLast NothingRunsOn LockMovesOn NoticeHangsUp
PROPERTY ExpiryHangsUp
