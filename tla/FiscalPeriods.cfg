\* Two administrators at once.
SPECIFICATION PeriodSpec
CONSTANTS
    Days = {1, 2, 3, 4}
    PeriodIds = {p1, p2, p3}
    Admins = {a1, a2}
INVARIANTS OneGovernor
PROPERTIES SequentialNoOverlap SequentialClosingShuts
CHECK_DEADLOCK FALSE
