\* Tasks and a write handle, while other clients create, delete and rename,
\* answers are lost, and tasks are retried, cancelled and cleaned up.
SPECIFICATION Spec
CONSTANTS
    a = a
    b = b
    x = x
    none = none
    Name = {a, b}
    Content = {none, x}
    Empty = none
    MaxTasks = 1
    MaxHandles = 1
    MaxDocs = 3
    MaxAttempts = 2
SYMMETRY Symmetry
INVARIANTS
    BufferIsQueued
    ReplacedOnce
PROPERTIES
    PromiseKept
