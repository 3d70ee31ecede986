CONSTANTS
  a1 = a1
  c1 = c1
  c2 = c2
  c3 = c3
  c4 = c4
  r1 = r1
  r2 = r2
  alice = alice
  bob = bob
  x = x
  y = y
  Admins = {a1}
  Patches <- FreezeAndLaunch
  InitialSettings <- LaunchedOnly
  PauseLogCap = 2
  MaxTime = 3
  MaxWrites = 3
  Comments = {c1}
  ByBot = {c1}
  RepoOf <- OneRepo
  AuthorOf <- OneAuthor
  Challenges = {x}
  Bodies <- ScoreOnly
  TargetLists <- OnlyR1
  SeenCap = 2
  PageSize = 2
  MaxFutureSkew = 0
  GitHubSkew = 0
  UpdatedAtUnit = 2
  MaxEdits = 1
  MaxFaults = 1
  MaxCrashes = 0
SPECIFICATION Spec
INVARIANTS NoSolveFromAFreeze NoOpenScoreRefused
CHECK_DEADLOCK FALSE
