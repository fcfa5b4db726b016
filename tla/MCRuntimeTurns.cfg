SPECIFICATION MCSpec
CONSTANTS
    w1 = w1
    w2 = w2
    a1 = a1
    a2 = a2
    Workers <- OneWorker
    Actors <- TwoActors
    WorkerOf <- SameWorker
    Capacity = 2
    MaxInFlight = 2
    TurnBudget = 2
    IngressBatch = 2
    ContinuationBatch = 1
    MaxPosts = 3
    MaxOps = 2
    MaxTimers = 1
SYMMETRY ActorSymmetry
INVARIANTS
    TypeOK
    ReadyQueueInvariant
    CommandNotOvertaken
    PostsInOrder
    OutstandingExact
    TimersBelongToLiveActors
    SlotForEveryCompletion
    ContinuationsMatch
