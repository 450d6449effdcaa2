CONSTANTS
    c1 = c1
    c2 = c2
    None = None
    Conn = {c1, c2}
    Length <- LengthOfTwo
    BeforeNul <- LengthOfTwo
    Size = 2
    FdLimit = 1
    Parsable <- Messages
    List <- Lists
    Thread = {1, 2}
    MaxPoll = 2
    MaxStops = 1
SPECIFICATION FairSpec
INVARIANTS TypeOK GuaranteesCompose CompositionNeverBlocks
PROPERTIES ImplementsComponents ImplementsLogDelivery EveryMessageSettles
