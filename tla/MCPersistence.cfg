CONSTANTS
    p1 = p1
    p2 = p2
    Players <- TwoPlayers
    MaxVersion = 4
    QueueCapacity = 2
    MaxFailures = 1
SPECIFICATION MCSpec
INVARIANTS TypeOK OneSavePerPlayer FinalAnsweredOnce OrderlyStopSavesAll
PROPERTIES BackgroundSavesInOrder FinalSaveAnswered ShutdownEnds
