CONSTANTS
  Tasks = {t1, t2, t3, t4}
  Conns = {c1, c2, c3, c4}
  Sizes = {0, 1, 2}
  NoConn = NoConn
SPECIFICATION Spec
SYMMETRY Symmetry
INVARIANTS
  TypeOK
  CountExact
  NoLostWakeup
  SessionsBounded
  NoSharing
  NoLeak
  IdleReusable
CHECK_DEADLOCK FALSE
