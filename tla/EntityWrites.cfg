CONSTANTS
    N = 2
    History = 2
    Shapes <- MCShapes
    Configs <- MCConfigs
SPECIFICATION Spec
CHECK_DEADLOCK FALSE
INVARIANTS
    AnswerMatchesEffect
    EtagIsOwn
PROPERTIES
    NoLostUpdate
    DeletesWhatItShows
    EventuallyAnswered
