CONSTANTS
  Players = {p1, p2, p3}
  Slugs = {s1, s2}
  Codes = {c1, c2, c3}
  Slots = {k1, k2}
  Caps = {1, 2}
  DefaultCap = 2
  Nobody = Nobody
  NoSlug = NoSlug
  NoCode = NoCode
SPECIFICATION TeamSpec
SYMMETRY MCSymmetry
INVARIANTS TeamTypeOK RosterAgrees CaptainOnRoster CodesAgree CapHolds
PROPERTIES ImplementsMembership
