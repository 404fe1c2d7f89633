CONSTANTS
  Clients = {k1, k2, k3}
  Conns = {c1, c2, c3}
  m_maxAliveTime = 1
  m_maxRequest = 2
  Now = 5
  NoConn = NoConn
SPECIFICATION Spec
INVARIANTS OneOwner NoStrayAnswer
SYMMETRY Perms
