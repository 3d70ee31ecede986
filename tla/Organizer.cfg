CONSTANTS
  s1 = s1
  s2 = s2
  n1 = n1
  n2 = n2
  k0 = k0
  k1 = k1
  k2 = k2
  Slots = {s1, s2}
  Launchers = {n1, n2}
  TokenKey = k0
  Candidates = {k1, k2}
  NoKey = NoKey
  Stamps = {2, 3}
  Skew = 2
  TokenExpiry = 6
  Stall = 0
  Life = 1
  Allowances <- AllAllowances
  MaxTime = 5
  t1 = t1
  t2 = t2
  Terminals = {t1, t2}
  Targets <- BothTargets
  Vulnerable = "vulnerableapp"
  FreePlan = TRUE
  Checkouts = {1, 2}
  Sessions <- AllSessions
  d1 = d1
  d2 = d2
  neo = neo
  trin = trin
  ann = ann
  bob = bob
  chalA = chalA
  chalB = chalB
  own = own
  Demo = {neo, trin}
  Players = {ann, bob}
  FixtureItems = {chalA, chalB}
  OwnItems = {own}
  DemoSolves <- MCDemoSolves
  Fixture = "AI"
  FoldOf <- MCFoldOf
  Names = {"Ai", "web", "misc"}
  CategoriesMax = 2
  DemoTeam = DemoTeam
  OtherTeam = OtherTeam
  NoTeam = NoTeam
  NoRecord = NoRecord
  Desks = {d1, d2}
  Days <- AllDays
  Careless = {}
  IdOrder <- MCIds
  FreshIds <- MCFresh
  Texts = {"old", "new"}
  Visits <- AllVisits
SPECIFICATION OrganizerSpec
SYMMETRY OrganizerSymmetry
INVARIANTS AiInv ProvInv DemoInv PanelInv
PROPERTIES NothingUndone DraftKept
CHECK_DEADLOCK FALSE
