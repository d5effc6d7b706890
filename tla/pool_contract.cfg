CONSTANTS
  Tasks = {t1, t2, t3}
  Conns = {c1, c2, c3}
  Sizes = {0, 2}
  NoConn = NoConn
SPECIFICATION FairSpec
PROPERTIES
  ImplementsContract
  DeadPoolUntouched
  CancelledStopsWaiting
  EveryWaiterServed
CHECK_DEADLOCK FALSE
