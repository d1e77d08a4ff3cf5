SPECIFICATION MCSpec
CONSTANTS
  Task = {t1, t2}
  Worker = {w1, w2}
  EventId = {e1}
  NoWorker = NoWorker
  Free = Free
  StoreFaults = TRUE
  MaxDrift = 3
SYMMETRY Symmetry
INVARIANT TypeOK
INVARIANT RestartSucceeds
INVARIANT DerivedMatchesStores
INVARIANT CountExactUntilDrift
PROPERTY AssignmentSticks
