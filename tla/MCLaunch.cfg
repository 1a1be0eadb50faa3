CONSTANTS
    g1 = g1
    g2 = g2
    None = None
    NoOptions = NoOptions
    Stager <- MCStager
    Source <- MCSource
    Nested <- MCNested
    SaveName <- MCSaveName
    MaxLaunch = 2
    MaxConsole = 1
SPECIFICATION FairSpec
INVARIANTS
    TypeOK
    TargetWhole
    NeverRefused
    RemoteMemoryLives
PROPERTIES
    LastGoodSurvives
    GoodProfileSurvives
    DisconnectHonoured
CHECK_DEADLOCK FALSE
