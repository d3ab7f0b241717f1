\* A user unsubscribes after content has reached its switch.
CONSTANTS
    u1 = u1
    u2 = u2
    u3 = u3
    s1 = s1
    s2 = s2
    s3 = s3
    m = m
    Users = {u1, u2}
    Switches = {s1, s2}
    ManagerId = m
    None = None
    Links <- Line2
    LossyLinks <- NoLinks
    QueueSize = 8
    Subscriptions <- OneReader
    Cancellations <- OneReader
    Pushes <- OnePush2
    EarlyPush = FALSE
    EarlyGossip = FALSE
    MaxGossips = 0
    MaxLosses = 0
SPECIFICATION Spec
INVARIANTS UnsubscribedIsForgotten
ACTION_CONSTRAINTS MissedFirst JoinedInOrder
\* The schedule ends: Simulator::Stop.
CHECK_DEADLOCK FALSE
