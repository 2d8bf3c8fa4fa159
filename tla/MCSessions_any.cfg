\* Any client: repeated logins under any address, and records that fail.
SPECIFICATION Spec
CONSTANTS
  NoConn = NoConn
  StreamAddr = StreamAddr
  c1 = c1
  c2 = c2
  c3 = c3
  a1 = a1
  a2 = a2
  a3 = a3
  Conns = {c1, c2}
  Addrs = {a1, a2}
  Workers = {w1}
  Hooks = {}
  Claims <- ClaimsAny
  MaxLogins = 2
  WriteMayFail = TRUE
  SaveMayFail = TRUE
SYMMETRY Symmetry
VIEW ControlView
INVARIANTS
  TypeOK
  OneRegistry
  RegisteredLoggedIn
CHECK_DEADLOCK FALSE
