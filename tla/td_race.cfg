\* Ticks side by side, or one beside another command; killed anywhere, answers lost.
SPECIFICATION Spec
CONSTANTS
    s1 = s1
    s2 = s2
    p1 = p1
    p2 = p2
    NoStudent = NoStudent
    Student = {s1}
    Proc = {p1, p2}
    Rounds = 1
    Limit = 1
    Wait = 1
    DaySlots = 3
    Windows <- OneWindow
    MaxClock = 3
    MaxTerm = 1
    Commands = {"once", "run", "refresh", "clear", "edit"}
    Exclusive = {"run", "refresh", "clear"}
    Faults = {"lost", "crash"}
    MaxActive = 2
    MaxCommands = 3
SYMMETRY ProcSymmetry
INVARIANTS
    NothingInvented
PROPERTIES
    DamageStands
CHECK_DEADLOCK FALSE
