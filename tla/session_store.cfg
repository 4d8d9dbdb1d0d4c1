\* A desktop program and CLI runs on one session file.
SPECIFICATION Spec
CONSTANTS
    d = d
    r = r
    a = a
    b = b
    none = none
    Context = {d, r}
    Desktop = {d}
    User = {a, b}
    None = none
    Store = {"encrypted", "dpapi"}
    MaxCommands = 6
SYMMETRY Symmetry
INVARIANTS
    LoggedOutStaysOut
    LoginIsKept
    OneAccount
CHECK_DEADLOCK FALSE
