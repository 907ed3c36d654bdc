SPECIFICATION Spec
CONSTANTS
  Attempts = {q1, q2}
  Sources = {k1}
  Threshold = 2
  Base = 1
  MaxDelay = 3
  IdleTTL = 4
  MaxTime = 7
  MaxFailures = 4
  Callbacks = {q1, q2}
  States = {t1, t2}
  StateTTL = 2
  TicksPerSecond = 2
  MaxEntries = 1
  SweepInterval = 2
  MaxTicks = 5
  MaxRestarts = 1
  Setups = {s1, s2}
  Logins = {l1}
  Patches = {q1, q2}
  AdminUser = adm
  OtherUsers = {u1}
  AllowedEmails = {adm}
  AllowedDomains = {"company"}
  AdminEmails = {adm}
  DomainOf <- MCDomainOf
  MaxSessions = 1
  MaxDbFaults = 1
  MaxStops = 1
  Saves = {q1, q2}
  Uses = {x1}
  Issuers = {i1, i2}
  DefaultIssuer = i1
  MaxSaves = 2
  MaxSettingsFaults = 1
SYMMETRY RequestSymmetry
INVARIANTS OverrunBounded SingleUseHolds CredentialHasAccount AuthorityIsGranted
  SettingsInForce 
PROPERTIES LockoutStands
CHECK_DEADLOCK FALSE
