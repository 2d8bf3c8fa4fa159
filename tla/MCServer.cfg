SPECIFICATION ServerSpec
CONSTANTS
    Subjects = {"accounts", "pushed", "oneStream", "overlapping", "unrecorded",
                "framed", "refused", "compared", "sessions", "users", "overtaken", "pages", "links"}
    NoStream = NoStream
    c1 = c1
    c2 = c2
    c3 = c3
    a1 = a1
    a2 = a2
    push = push
    r1 = r1
    r2 = r2
    r3 = r3
    r4 = r4
    Requests = {r1, r2, r3, r4}
    Kinds <- RequestKinds
    Names = {bob, eve}
    NoOne = NoOne
INVARIANTS
    AccountsStand
    LatestKept
    DevicesReached
    OnlineTimeRight
    StanzasWhole
    DistanceRight
    TablesAgree
CHECK_DEADLOCK FALSE
