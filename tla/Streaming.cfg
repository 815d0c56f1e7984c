CONSTANTS
    HeaderBytes = 44
    SourceRate = 24000
    TargetRate = 8000
    FrameBytes = 3
    MaxBytes = 76
SPECIFICATION Spec
INVARIANTS TypeOK SamplesIntact DriftBounded FramesCarryAll
CHECK_DEADLOCK FALSE
