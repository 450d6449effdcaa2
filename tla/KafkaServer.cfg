CONSTANTS
    r1 = r1
    r2 = r2
    scalar = scalar
    Record = {r1, r2, scalar}
    List = {r1, r2}
    MaxPoll = 2
    MaxStops = 2
SPECIFICATION FairSpec
INVARIANTS TypeOK CommittedWereTried CopiesNeedReassignment
PROPERTIES CommitsOnlyGrow CommittedIsFinal EveryListIsTried
