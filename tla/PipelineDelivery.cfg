CONSTANTS
  a1 = a1
  c1 = c1
  c2 = c2
  c3 = c3
  c4 = c4
  r1 = r1
  r2 = r2
  alice = alice
  bob = bob
  x = x
  y = y
  Admins = {}
  Patches <- NoPatches
  InitialSettings <- LaunchedOnly
  PauseLogCap = 2
  MaxTime = 2
  MaxWrites = 0
  Comments = {c1, c2, c3, c4}
  ByBot = {c1, c2, c4}
  RepoOf <- TwoRepos
  AuthorOf <- TwoAuthors
  Challenges = {x, y}
  Bodies <- EveryBody
  TargetLists <- AnyList
  SeenCap = 1
  PageSize = 2
  MaxFutureSkew = 0
  GitHubSkew = 1
  UpdatedAtUnit = 1
  MaxEdits = 3
  MaxFaults = 1
  MaxCrashes = 1
SPECIFICATION Spec
CONSTRAINT WithinEither
INVARIANTS PipelineInv NoScoreLost CrashLosesNoScore
PROPERTIES FirstWriteWins
CHECK_DEADLOCK FALSE
