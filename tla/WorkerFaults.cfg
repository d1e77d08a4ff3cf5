SPECIFICATION Spec
CONSTANTS
  Task = {t1, t2}
  NoTask = NoTask
  MaxQueue = 1
  MaxStops = 1
  DockerFaults = {t1}
  StoreFaults = {t2}
  Named = {t2}
  Crashes = TRUE
INVARIANT TypeOK
INVARIANT StartedOnce
INVARIANT ContainersKnown
INVARIANT CompletedRemoved
PROPERTY KeepsContract
