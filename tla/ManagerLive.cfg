SPECIFICATION FairSpec
CONSTANTS
  Task = {t1}
  Worker = {w1, w2}
  EventId = {e1}
  NoWorker = NoWorker
  NoEvent = NoEvent
  Free = Free
  StoreFaults = FALSE
  MaxPending = 2
  MaxSubmits = 2
  MaxDrift = 9
PROPERTY SyncConverges
PROPERTY QueueDrains
PROPERTY OnlyRestartStrands
