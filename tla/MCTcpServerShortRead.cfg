CONSTANTS
    c1 = c1
    c2 = c2
    c3 = c3
    Conn = {c1, c2}
    Length <- LengthOfTwo
    BeforeNul <- LengthOfTwo
    Size = 2
    FdLimit = 2
SPECIFICATION Spec
INVARIANT OkMeansWhole
