CONSTANTS
  ann = ann
  bob = bob
  bobSd = bobSd
  cid = cid
  x = x
  y = y
  z = z
  reds = reds
  blues = blues
  s1 = s1
  s2 = s2
  t1 = t1
  t2 = t2
  Logins = {ann, bob, bobSd, cid}
  Lower <- MCLower
  Items = {x, y, z}
  Slots = {s1, s2}
  Tasks = {t1, t2}
  Worlds <- ReportWorlds
  NoRow = NoRow
  NoTeam = NoTeam
  Failed = Failed
  NoBoard = NoBoard
  Ttl = 1
  TopN = 2
  Never = 1000
  MaxTime = 3
SPECIFICATION ReportsSpec
INVARIANTS BoardInv LoweredScoresGone AuditorAgrees ComparesWhatItRead MetricsInv
SYMMETRY MCSymmetry
CHECK_DEADLOCK FALSE
CONSTANTS
  FoldTtl = 2
  SdWait = 5
  Settle = 3
  Attempts = 2
  MaxNow = 20
  AuditAllowances <- MCAllowances
  eve = eve
  Eve = Eve
  kim = kim
  question = question
  flag = flag
  flaw = flaw
  Names = {eve, Eve, kim}
  Player <- MCPlayer
  PlayerOrder <- MCPlayerOrder
  Goals = {question, flag, flaw}
  ModuleOf <- MCModuleOf
  Boxes <- ReportBoxes
  MaxContestants = 2
  MaxBuckets = 2
  BucketWidths <- MCBucketWidths
  DayWidth = 3
  Unread = Unread
  NoTime = NoTime
  NoMetrics = NoMetrics
  LastTick = 5
