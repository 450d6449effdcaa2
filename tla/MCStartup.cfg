CONSTANTS
    r1 = r1
    r2 = r2
    d1 = d1
    d2 = d2
    Port <- AnyPort
    SizeOf <- DefaultSizes
    Request = {r1, r2}
    Datagram = {d1, d2}
    Hoisting = TRUE
SPECIFICATION FairSpec
INVARIANTS TypeOK OkMeansQueued LateRequestsAreSafe SpinCanEnd
PROPERTIES LateDatagramsAreSafe ListenersComeUp
CHECK_DEADLOCK FALSE
