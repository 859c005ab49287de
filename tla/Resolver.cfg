SPECIFICATION Spec
CONSTANTS
  Packages = {p}
  RepoProcs = {q1, q2}
  BuildProcs = {b1}
  Nevras = {1, 2}
  Installs <- EachItsOwn
  MaxRepos = 2
  MaxBuilds = 2
  MaxFaults = 1
  QueueSize = 1
  ChunkSize = 0
  CacheSize = 2
INVARIANT NoStaleChanges
 
PROPERTY LatestMonotone
PROPERTY HistoryChanges
PROPERTY KeysMoveForward
CHECK_DEADLOCK FALSE
SYMMETRY Symmetry
