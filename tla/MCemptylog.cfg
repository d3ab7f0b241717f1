\* A second subscription reaches a replica whose first entry was lost.
CONSTANTS
    u1 = u1
    u2 = u2
    u3 = u3
    s1 = s1
    s2 = s2
    s3 = s3
    m = m
    Users = {u1, u2, u3}
    Switches = {s1, s2, s3}
    ManagerId = m
    None = None
    Links <- Line3
    LossyLinks <- Line3Lossy
    QueueSize = 8
    Subscriptions <- TwoReaders
    Cancellations <- NoCalls
    Pushes <- TwoPushes3
    EarlyPush = FALSE
    EarlyGossip = FALSE
    MaxGossips = 0
    MaxLosses = 1
SPECIFICATION Spec
INVARIANTS EmptyLogsAreHandled
ACTION_CONSTRAINTS MissedFirst JoinedInOrder
\* The schedule ends: Simulator::Stop.
CHECK_DEADLOCK FALSE
