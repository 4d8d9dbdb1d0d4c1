\* A day of the watch loop over two windows, with clear-errors in between.
SPECIFICATION FairSpec
CONSTANTS
    s1 = s1
    s2 = s2
    p1 = p1
    p2 = p2
    NoStudent = NoStudent
    Student = {s1}
    Proc = {p1, p2}
    Rounds = 2
    Limit = 1
    Wait = 2
    DaySlots = 14
    Windows <- WideWindows
    MaxClock = 13
    MaxTerm = 0
    Commands = {"watch", "clear"}
    Exclusive = {"watch"}
    Faults = {"refused"}
    MaxActive = 1
    MaxCommands = 2
INVARIANTS
    RoundsInTime
PROPERTIES
    DueIsHandled
CHECK_DEADLOCK FALSE
