SPECIFICATION FairSpec
CONSTANTS
  Host = {h1, h2}
  Identity = {i1, i2}
  Uuid = {u1, u2}
  None = None
  Torn = Torn
  Dead = Dead
CHECK_DEADLOCK FALSE
INVARIANT TypeOK
INVARIANT OneIdentity
INVARIANT OneUuid
INVARIANT ClientIsWorker
PROPERTY WorkersJoin
