\* Other clients change the drive in every way, and answers are lost.
SPECIFICATION Spec
CONSTANTS
    root = root
    d1 = d1
    d2 = d2
    f1 = f1
    f2 = f2
    a = a
    b = b
    Doc = {root, d1, d2, f1, f2}
    Root = root
    Dirs = {root, d1, d2}
    Name = {a, b}
    MaxChanges = 3
SYMMETRY NameSymmetry
INVARIANTS
    IndexSound
    OwnChangesShown
CHECK_DEADLOCK FALSE
