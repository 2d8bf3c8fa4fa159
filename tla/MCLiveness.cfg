SPECIFICATION FairSpec
CONSTANTS
    Subjects = {"registry", "requested", "animated", "uploaded"}
    NoConn = NoConn
    StreamAddr = StreamAddr
    c1 = c1
    c2 = c2
    addr1 = addr1
    worker = worker
    r1 = r1
    r2 = r2
    e1 = e1
    e2 = e2
    a1 = a1
    a2 = a2
    p1 = p1
    u1 = u1
    u2 = u2
PROPERTIES
    CleanedUp
    RequestsEnd
    AnimationsEnd
CHECK_DEADLOCK FALSE
