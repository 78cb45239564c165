CONSTANTS
    NameLen = 240
    Devices = {d1, d2}
    Alone <- Requests
    Together = {{"SetMoveSpeedTime"}, {"GetDeviceSN", "GetMoveSpeed"}}
    Tuned = {"GetMoveSpeed"}
    MaxRequests = 2
    PacketNum = 2
    RepeatNum = 1
    TimeOut = 1
    NewRepeatNum = 2
    NewTimeOut = 0
    ClockMod = 3
    TicksPerExec = 1

SPECIFICATION Spec
INVARIANTS PayloadWhole AnswersHonest AnswerFits
PROPERTY EventuallyAnswered
CHECK_DEADLOCK FALSE
