SPECIFICATION Spec
CONSTANTS
    Subjects = {"callbacks", "chained", "joined", "counted", "answered",
                "raced", "replied", "thrown", "queued", "ticked", "promised", "nested"}
    l1 = l1
    f1 = f1
    f2 = f2
    d1 = d1
    d2 = d2
    c1 = c1
    r1 = r1
    r2 = r2
    r3 = r3
    u1 = u1
    u2 = u2
    e1 = e1
    a1 = a1
    a2 = a2
    a3 = a3
    p1 = p1
INVARIANTS
    RequestsAnswered
    QueuesRun
PROPERTIES
    UploadsAnswered
    ListsCallAll
    EveryoneHears
    KeepsPromise
CHECK_DEADLOCK FALSE
