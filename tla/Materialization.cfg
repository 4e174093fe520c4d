SPECIFICATION MSpec
CHECK_DEADLOCK FALSE
CONSTANTS
    MaterializeRequests <- SomeRequests
    NanosPerSecond = 4
    NanosPerMilli = 2
    SecondsPerDay = 3
    MaxUInt32 = 5
    FloatOne = 4
    UUIDs = {11, 21}
    LowerCase <- Lower
INVARIANTS
    AnswerReplayable
