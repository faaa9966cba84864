SPECIFICATION ApiSpec
CONSTANTS
  Absent = Absent
  u1 = u1  u2 = u2
  Users = {u1, u2}
  Requests = {g1, g2}
  Tokens = {t1, t2}
  RoleIds = {1, 2}
  AdminRole = 1
  InitialUsers <- MCInitialUsers
  GivenRoles <- MCGivenRoles
  GivenPermissions <- MCGivenPermissions
  MaxEdits = 1  MaxFaults = 1
  c1 = c1  s1 = s1
  Strategies = {s1}
  Manual = Manual
  Configs = {c1}
  InitialConfigs <- MCInitialConfigs
  Workers = {g1, g2}
  MaxIds = 3
  Quantity = 2
  Venues <- MCVenues
  Forms <- MCForms
  SignalSides <- MCSignalSides
  OrderConfigs <- MCOrderConfigs
  Bodies <- MCBodies
  Keep = Keep
  NoRow = NoRow
  MaxUpdates = 3
  MaxDelays = 1
SYMMETRY Sym
CHECK_DEADLOCK FALSE
INVARIANTS ApiTypeOK AuthorityWasReal OneSessionPerLogin SetupOnce ClosedIsFlat DisableCloses
PROPERTIES RevokedStaysOut OnlyAskedChanges
