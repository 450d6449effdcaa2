CONSTANTS
    r1 = r1
    r2 = r2
    d1 = d1
    d2 = d2
    Port = {8998}
    SizeOf <- DefaultSizes
    Request = {r1, r2}
    Datagram = {d1, d2}
    Hoisting = TRUE
SPECIFICATION Spec
INVARIANT UdpKeepsListening
CHECK_DEADLOCK FALSE
