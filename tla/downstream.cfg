\* Every service, any number of commands one after the other.
SPECIFICATION ChangeSpec
CONSTANT Service = {"libbook", "cgyy", "bykc", "spoc", "srs", "cloud", "ygdk", "signin", "evaluation"}
INVARIANTS
    ChangeTypeOK
    ReportedTruly
    DoneOnce
    SurvivesOneExpiry
PROPERTY CommandEnds
