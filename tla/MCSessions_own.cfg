\* Devices with an address of their own that log in once per stream.
SPECIFICATION Spec
CONSTANTS
  NoConn = NoConn
  StreamAddr = StreamAddr
  c1 = c1
  c2 = c2
  c3 = c3
  a1 = a1
  a2 = a2
  a3 = a3
  Conns = {c1, c2, c3}
  Addrs = {a1, a2, a3}
  Workers = {w1}
  Hooks = {}
  Claims <- ClaimsOwn
  MaxLogins = 1
  WriteMayFail = TRUE
  SaveMayFail = FALSE
INVARIANTS
  AllAuthenticatedListed
  CounterExact
CHECK_DEADLOCK FALSE
