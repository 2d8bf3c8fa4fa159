\* The shutdown of the server while clients connect, log in and leave.
SPECIFICATION Spec
CONSTANTS
  NoConn = NoConn
  StreamAddr = StreamAddr
  c1 = c1
  c2 = c2
  c3 = c3
  a1 = a1
  a2 = a2
  a3 = a3
  Conns = {c1, c2}
  Addrs = {a1, a2}
  Workers = {w1}
  Hooks = {h1}
  Claims <- ClaimsAny
  MaxLogins = 1
  WriteMayFail = TRUE
  SaveMayFail = TRUE
SYMMETRY Symmetry
VIEW ControlView
INVARIANTS
  PendingFindable
  PreAuthDrains
  NoneOutlivesSocket
CHECK_DEADLOCK FALSE
