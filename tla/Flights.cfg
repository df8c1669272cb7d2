CONSTANTS
    Callers = {c1, c2, c3}
    Keys = {k1, k2}
    Answers = {a1}
    Abandoned = Abandoned
    NoAnswer = NoAnswer
    RevalidateFlightRetention = 2
    RevalidateSharedTimeout = 2
    MaxTime = 4
SPECIFICATION FairSpec
INVARIANTS TypeOK AskedOnce AnswerShared
PROPERTIES EveryoneReturns DoIsMemo
CHECK_DEADLOCK FALSE
