CONSTANTS
    MaxRequestSize = 2
    MaxSize = 4
    BufferSize = 2
SPECIFICATION FairSpec
INVARIANTS TypeOK BodyIsBounded NoHalfRequestRuns NoAnswerIsLost OnlyShortBodiesHang
PROPERTIES EveryStepCounts ServerLetsGo
CHECK_DEADLOCK FALSE
