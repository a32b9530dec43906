CONSTANTS
  Clients = {c1, c2}
  Workers = {w1, w2}
  None = None
SPECIFICATION Spec
INVARIANTS TypeOK MapSound NoLeak
PROPERTIES SocketLife IdleReclaimed
