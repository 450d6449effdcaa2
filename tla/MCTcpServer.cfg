CONSTANTS
    c1 = c1
    c2 = c2
    c3 = c3
    Conn = {c1, c2, c3}
    Length <- LengthOfThree
    BeforeNul <- NulInOne
    Size = 2
    FdLimit = 2
SPECIFICATION FairSpec
INVARIANTS TypeOK OkMeansQueuedOnce TextIsDelivered
PROPERTIES ListenerLostOnlyToUnfinished AcceptedAreServed Served
