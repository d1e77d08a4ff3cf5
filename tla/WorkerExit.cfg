SPECIFICATION FairSpec
CONSTANTS
  Task = {t1}
  NoTask = NoTask
  MaxQueue = 2
  MaxStops = 1
  DockerFaults = {}
  StoreFaults = {}
  Named = {t1}
  Crashes = FALSE
PROPERTY ExitNoticed
