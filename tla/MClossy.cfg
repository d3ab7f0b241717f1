\* A user reads two authors over one hop and two, with a loss and a gossip round, or with a second reader that leaves.
CONSTANTS
    u1 = u1
    u2 = u2
    u3 = u3
    s1 = s1
    s2 = s2
    s3 = s3
    m = m
    Users = {u1, u2, u3}
    Switches = {s1, s2, s3}
    ManagerId = m
    None = None
    Links <- Line3
    LossyLinks <- Line3Lossy
    QueueSize = 8
    Subscriptions <- ThreeReads
    Cancellations <- SecondReader
    Pushes <- OnePush3
    EarlyPush = FALSE
    EarlyGossip = FALSE
    MaxGossips = 1
    MaxLosses = 1
SPECIFICATION Spec
INVARIANTS LogIntegrity  InterestsAreNeighbours InterestsFollowRequests SubscribersServed
PROPERTIES ImplementsReplicatedLogs LostRequestsStayLost
ACTION_CONSTRAINTS MissedFirst JoinedInOrder SecondReaderUndisturbed
\* The schedule ends: Simulator::Stop.
CHECK_DEADLOCK FALSE
