CONSTANTS
  i1 = i1
  i2 = i2
  web = web
  Web = Web
  pwn = pwn
  rev = rev
  t1 = t1
  t2 = t2
  s1 = s1
  s2 = s2
  d1 = d1
  d2 = d2
  None = None
  Link = Link
  Items = {i1, i2}
  Names = {web, Web, pwn, rev}
  Fold <- SameLetters
  Texts = {t1, t2}
  StoryIds = {s1, s2}
  Digests = {d1, d2}
  Size <- TwoChunks
  ItemMax = 2
  EventMax = 3
  ListMax = 3
  Tasks = {1, 2}
  Boards <- EitherBoard
  Tellings <- SomeTellings
  Bundles <- SomeBundles
  Allowances <- SomeAllowances
SPECIFICATION Spec
INVARIANTS ContentInv ExportRestores
CHECK_DEADLOCK FALSE
