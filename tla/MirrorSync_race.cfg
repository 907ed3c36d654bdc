SPECIFICATION MirrorSpec
CONSTANTS
  Pushers = {p1}
  Repos = {g1}
  NoRepo = none
  EnvMirror = TRUE
  MaxMirrorCommits = 2
  MaxMirrorFaults = 0
INVARIANT UpdatedHasFetched
CHECK_DEADLOCK FALSE
