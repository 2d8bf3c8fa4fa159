SPECIFICATION Spec
CONSTANTS
    Subjects = {"bubbling", "binding", "focused",
                "chains", "mixed", "placed", "owned", "kept", "scripted",
                "listed", "clicked", "paired"}
    h1 = h1
    h2 = h2
    h3 = h3
    t1 = t1
    t2 = t2
    w1 = w1
    w2 = w2
    w3 = w3
INVARIANTS
    HandlersCalled
    SelectorsRight
    ElementsKeepTheirs
PROPERTIES
    KeepsPromise
    TablesSorted
CHECK_DEADLOCK FALSE
