CONSTANTS
    d1 = d1
    d2 = d2
    d3 = d3
    v = v
    w = w
    Log = {d1, d2, d3}
    Value = {v, w}
    Found <- FoundInThree
    TimeOf <- TimeOfThree
    Form <- Forms
    Account <- Accounts
    Configured <- Right
    Empty = Empty
    PageSize = 2
    MaxSearch = 2
SPECIFICATION FairSpec
INVARIANTS TypeOK ShownAnswersLastSearch CompletePage
PROPERTY LoadingEnds
