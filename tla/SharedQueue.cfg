SPECIFICATION Spec
CONSTANTS
  Element = {e1, e2, e3}
  Nil = Nil
  Locked = FALSE
CHECK_DEADLOCK FALSE
INVARIANT TypeOK
INVARIANT TakenOnce
INVARIANT OrderKept
INVARIANT SequentialCallsKeepAll
