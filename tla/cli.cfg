\* Every command.
SPECIFICATION Spec
CONSTANTS
    r1 = r1
    r2 = r2
    Nobody = Nobody
    Resource <- MCResource
SYMMETRY Recordings
INVARIANTS
    TypeOK
    StatusIsTrue
    HelpSuffices
    NoFalseExpiry
    ModesKept
PROPERTY KeptUnlessAsked
