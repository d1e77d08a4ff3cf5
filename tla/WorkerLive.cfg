SPECIFICATION FairSpec
CONSTANTS
  Task = {t1}
  NoTask = NoTask
  MaxQueue = 2
  MaxStops = 1
  DockerFaults = {t1}
  StoreFaults = {}
  Named = {t1}
  Crashes = TRUE
PROPERTY StartsTake
PROPERTY StopsTake
PROPERTY LostContainerNoticed
