SPECIFICATION Spec
CONSTANTS
  Clients = {k1, k2}
  Cookies = {ck}
  Named = {k2}
  MaxKeys = 2
  Hits = {r1, r2}
  ToolCalls = {c1, c2}
  Period = 2
  Burst = 1
  ToolBurst = 1
  BucketTTL = 3
  MaxStall = 1
  MaxHops = 2
  MaxRateTime = 5
  MaxDebt = 2
  TagVisitors = {v1}
  DateVisitors = {v2}
  CommitSeconds = {1, 2}
  PageSizes = {1, 2}
  MaxPublishes = 2
  MaxPurges = 1
  MaxLabel = 5
  MaxNameLen = 5
  ControlLabel <- MCControl
  Viewers = {u1}
  PreviewSites = {s1, s2}
  PreviewBranches = {b1, b2}
  GrantTTL = 1
  CookieTTL = 2
  MaxGrantTime = 3
  Handshakes = {y1, y2}
  TlsHandles = {h1}
  PosTTL = 3
  NegTTL = 2
  MaxTlsTime = 6
  Uploads = {z1}
  Folder = d
  InFolder = dx
  OtherPaths = {o1}
  BadName = bn
  MaxEntries = 2
  MaxEntryBytes = 1
  MaxTotalBytes = 1
  MaxRatio = 0
  Quota = 3
  MaxSaves = 3
INVARIANTS AdmissionsBounded RevalidationSound NamesAgree PreviewsStayPrivate
  DecisionFollowsSites ImportWithinLimits
PROPERTIES ImportedExactly
CHECK_DEADLOCK FALSE
