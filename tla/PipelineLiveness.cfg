CONSTANTS
  a1 = a1
  c1 = c1
  c2 = c2
  c3 = c3
  c4 = c4
  r1 = r1
  r2 = r2
  alice = alice
  bob = bob
  x = x
  y = y
  Admins = {a1}
  Patches <- FreezePatches
  InitialSettings <- LaunchedOrFrozen
  PauseLogCap = 2
  MaxTime = 1
  MaxWrites = 1
  Comments = {c1}
  ByBot = {c1}
  RepoOf <- OneRepo
  AuthorOf <- OneAuthor
  Challenges = {x}
  Bodies <- ScoreOnly
  TargetLists <- OnlyR1
  SeenCap = 2
  PageSize = 2
  MaxFutureSkew = 0
  GitHubSkew = 0
  UpdatedAtUnit = 1
  MaxEdits = 2
  MaxFaults = 1
  MaxCrashes = 1
SPECIFICATION FairSpec
PROPERTIES EveryScoreLands
CHECK_DEADLOCK FALSE
