\* One command at a time, none killed: ticks, runs and clear-errors in any order.
SPECIFICATION Spec
CONSTANTS
    s1 = s1
    s2 = s2
    p1 = p1
    p2 = p2
    NoStudent = NoStudent
    Student = {s1}
    Proc = {p1, p2}
    Rounds = 1
    Limit = 2
    Wait = 1
    DaySlots = 3
    Windows <- OneWindow
    MaxClock = 4
    MaxTerm = 2
    Commands = {"watch", "run", "clear"}
    Exclusive = {"watch"}
    Faults = {"lost", "refused", "photo", "log"}
    MaxActive = 1
    MaxCommands = 4
SYMMETRY ProcSymmetry
INVARIANTS
    RoundsPaired
    NoCheckAfterLimit
PROPERTIES
    ErrorHeld
CHECK_DEADLOCK FALSE
