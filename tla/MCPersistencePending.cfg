CONSTANTS
    p1 = p1
    p2 = p2
    Players <- OnePlayer
    MaxVersion = 3
    QueueCapacity = 2
    MaxFailures = 1
SPECIFICATION Spec
INVARIANT PendingIsNewest
