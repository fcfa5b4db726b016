SPECIFICATION Spec
CONSTANTS
    w1 = w1
    w2 = w2
    a1 = a1
    a2 = a2
    Workers <- TwoWorkers
    Actors <- TwoActors
    WorkerOf <- WorkerEach
    Capacity = 2
    MaxInFlight = 1
    TurnBudget = 1
    IngressBatch = 1
    ContinuationBatch = 1
    MaxPosts = 2
    MaxOps = 1
    MaxTimers = 0
INVARIANTS
    OneCompletionNotice
    DrainLosesNothing
