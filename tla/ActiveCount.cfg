SPECIFICATION MCSpec
CONSTANTS
  Task = {t1, t2}
  Worker = {w1, w2}
  EventId = {e1}
  NoWorker = NoWorker
  Free = Free
  StoreFaults = FALSE
  MaxDrift = 3
SYMMETRY Symmetry
INVARIANT ActiveCountExact
