\* Calls of two processes, with failures, crashes and expiries.
SPECIFICATION FairSpec
CONSTANTS
    Processes = {p1, p2}
    Calls = {c1, c2, c3}
    Keys = {k1, k2}
    NoCall = NoCall
    MaxLosses = 2
INVARIANTS OneInFlight AnswersAreReal RepeatNotExecuted
CHECK_DEADLOCK FALSE
PROPERTIES EveryCallReturns SharedWhileRunning
