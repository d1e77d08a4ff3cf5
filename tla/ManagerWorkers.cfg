SPECIFICATION MCSpec
CONSTANTS
  Task = {t1}
  Worker = {w1, w2}
  EventId = {e1}
  NoWorker = NoWorker
  NoEvent = NoEvent
  Free = Free
  StoreFaults = TRUE
  MaxPending = 2
  MaxSubmits = 3
  MaxDrift = 2
SYMMETRY Symmetry
INVARIANT TypeOK
INVARIANT SentIsAssigned
INVARIANT NeverAhead
PROPERTY UsesStorageProperly
