CONSTANTS
    MaxTurns = 2
    MaxSentences = 2
    PriorTurns = 0
    Timed = FALSE
    Recorded = {1}
    Failures <- CallerTtsS3AndStore
SPECIFICATION Spec
INVARIANTS
    IInv OneSpeaker NoStaleAnswer NothingRunsOn SpeakersMoveOn
    CloseAwaitsEnding
PROPERTY TranscriptSpec
