CONSTANTS
  alice = alice
  bob = bob
  x = x
  y = y
  right = right
  wrong = wrong
  reds = reds
  blues = blues
  Logins = {alice, bob}
  Items = {x, y}
  Forms = {right, wrong}
  Key = right
  Modules = {"classic", "quiz", "ai"}
  Records <- MCRecords
  Catalogues <- MCCatalogues
  Chain <- MCChain
  s1 = s1
  s2 = s2
  Slots = {s1, s2}
  Rosters <- MCRosters
  NoRecord = NoRecord
  NoAnswer = NoAnswer
  NoRow = NoRow
  NoTeam = NoTeam
  Teams = {reds, NoTeam}
  Launch <- MCLaunch
  Settings <- MCSettings
  BakedSettings <- MCBaked
  Allowances <- EitherAllowance
  MaxTime = 1
  quest1 = quest1
  target1 = target1
  gold = gold
  silver = silver
  mark = mark
  l1 = l1
  l2 = l2
  bad = bad
  fA = fA
  fa = fa
  Absent = Absent
  Desks = {1, 2}
  Questions = {quest1}
  Posts <- SomePosts
  Sheets <- SomeSheets
  Targets = {target1}
  Drafts <- SomeDrafts
  Labels = {web, Web, pwn}
  Lower <- SpelledIgnoringCase
  Lists <- SomeLists
  ListCap = 2
  MaxKeys = 3
  Sponsors = {gold, silver}
  SponsorNames = {l1}
  ImageSlots = {mark}
  Images = {l1, l2}
  BadImages = {bad}
  Orders <- BothOrders
  BadPolicies = {bad}
  Archives <- SomeArchives
  Scenes <- EitherScene
  web = web
  Web = Web
  pwn = pwn
SPECIFICATION BoxSpec
INVARIANTS GraderInv BoxInv
PROPERTIES AttemptsMetered StoryInOrder ImplementsTally
CHECK_DEADLOCK FALSE
SYMMETRY MCSymmetry
