CONSTANTS
    r1 = r1
    scalar = scalar
    Record = {r1, scalar}
    List = {r1}
    MaxPoll = 2
    MaxStops = 1
SPECIFICATION FairSpec
PROPERTY ListIsTriedAmongOthers
