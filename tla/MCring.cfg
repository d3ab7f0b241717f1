\* Registration in every order in a ring of switches; two users subscribe to each other, one publishes, a third looks on.
CONSTANTS
    u1 = u1
    u2 = u2
    u3 = u3
    s1 = s1
    s2 = s2
    s3 = s3
    m = m
    Users = {u1, u2, u3}
    Switches = {s1, s2, s3}
    ManagerId = m
    None = None
    Links <- Ring3Users
    LossyLinks <- NoLinks
    QueueSize = 8
    Subscriptions <- EachOther
    Cancellations <- NoCalls
    Pushes <- OnePush2
    EarlyPush = FALSE
    EarlyGossip = FALSE
    MaxGossips = 0
    MaxLosses = 0
SPECIFICATION Spec
INVARIANTS NeighbourNaming GossipHasALog MembersFollowLog MembershipComplete ReplicaIsPrefix SubscribersServed RequestsEnd OnlySubscribersHold
ACTION_CONSTRAINTS MissedFirst
\* The schedule ends: Simulator::Stop.
CHECK_DEADLOCK FALSE
