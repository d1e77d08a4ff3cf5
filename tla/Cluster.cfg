SPECIFICATION FairSpec
CONSTANTS
  Worker = {w1, w2}
  NoWorker = NoWorker
  Request = {r1}
  Send = Send
  Join = Join
  Flaky = {w2}
  MaxScore = 1
INVARIANT TypeOK
INVARIANT PicksConnected
PROPERTY RoundRobinMovesOn
PROPERTY StaysListed
PROPERTY JoinStays
PROPERTY SelectionEnds
