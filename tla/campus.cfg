\* All the query commands; a loop (pages, courses, questionnaires) is taken once.
SPECIFICATION Spec
CONSTANTS
    Asked <- Commands
    MaxRounds = 1
INVARIANTS
    TypeOK
    NothingMissing
    SurvivesOneEnd
    FiledUnderTheirCourse
PROPERTY CommandEnds
