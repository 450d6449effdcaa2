CONSTANTS
    m1 = m1
    m2 = m2
    m3 = m3
    Msg = {m1, m2, m3}
    Length <- LengthOfThree
    Size = 2
    Zero = Zero
    Thread = {1, 2}
    MaxReceive = 4
SPECIFICATION Spec
INVARIANTS TypeOK PayloadsAreReceipts
PROPERTY ImplementsLogQueue
