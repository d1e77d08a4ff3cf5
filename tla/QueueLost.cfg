SPECIFICATION Spec
CONSTANTS
  Element = {e1, e2}
  Nil = Nil
  Locked = TRUE
CHECK_DEADLOCK FALSE
INVARIANT AcceptedKept
