SPECIFICATION Spec
CONSTANTS
  Handles = {h1, h2, h3, h4}
  Reserved = {h4}
  Sites = {x1, x2}
  RegistryRequests = {r1, r2}
  MaxInitFailures = 1
  People = {u1}
  Calls = {c1}
  Tokens = {t1}
  TokenScopes = {{"read"}, {"write", "publish"}}
  Members = {m1, m2}
  Edits = {e1, e2}
  MaxStoreFaults = 1
  Readers = {w1}
  ServiceCap = 3
  RestDefault = 2
  RestCap = 3
  McpCap = 2
  AskedLimits = {0, 1, 3, 4}
  MaxCommits = 5
  MaxSideCommits = 1
  DiffBudget = 3
  MaxDiffFiles = 3
  PatchSizes = {2, 4}
  Pushers = {p1, p2}
  Repos = {g1}
  NoRepo = none
  EnvMirror = TRUE
  MaxMirrorCommits = 3
  MaxMirrorFaults = 1
INVARIANTS FormerHandlesLead ActsWithinRights OwnerlessOnlyByRace ReadsAreComplete
PROPERTIES NothingUnseenLost
CHECK_DEADLOCK FALSE
