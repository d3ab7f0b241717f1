\* Gossip about the manager's log while switches are still being registered.
CONSTANTS
    u1 = u1
    u2 = u2
    u3 = u3
    s1 = s1
    s2 = s2
    s3 = s3
    m = m
    Users = {u1, u2}
    Switches = {s1, s2}
    ManagerId = m
    None = None
    Links <- Line2
    LossyLinks <- NoLinks
    QueueSize = 4
    Subscriptions <- NoCalls
    Cancellations <- NoCalls
    Pushes <- NoPush
    EarlyPush = FALSE
    EarlyGossip = TRUE
    MaxGossips = 1
    MaxLosses = 0
SPECIFICATION ArrivingSpec
PROPERTIES TrafficEnds
ACTION_CONSTRAINTS MissedFirst
\* The schedule ends: Simulator::Stop.
CHECK_DEADLOCK FALSE
