SPECIFICATION Spec
CONSTANTS
  Packages = {p}
  RepoProcs = {q1}
  BuildProcs = {b1}
  Nevras = {1, 2}
  Installs <- Anything
  MaxRepos = 1
  MaxBuilds = 2
  MaxFaults = 0
  QueueSize = 1
  ChunkSize = 0
  CacheSize = 2
INVARIANT LastBuildComparable
CHECK_DEADLOCK FALSE
