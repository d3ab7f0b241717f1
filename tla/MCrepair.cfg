\* Gossip repairs what was lost between switches, or published before the user was confirmed.
CONSTANTS
    u1 = u1
    u2 = u2
    u3 = u3
    s1 = s1
    s2 = s2
    s3 = s3
    m = m
    Users = {u1, u2}
    Switches = {s1, s2}
    ManagerId = m
    None = None
    Links <- Line2
    LossyLinks <- Line2Lossy
    QueueSize = 8
    Subscriptions <- OneReader
    Cancellations <- NoCalls
    Pushes <- TwoPushes2
    EarlyPush = TRUE
    EarlyGossip = FALSE
    MaxGossips = 0
    MaxLosses = 2
SPECIFICATION FairSpec
PROPERTIES EventuallyJoined GossipRepairs
ACTION_CONSTRAINTS MissedFirst JoinedInOrder
\* The schedule ends: Simulator::Stop.
CHECK_DEADLOCK FALSE
