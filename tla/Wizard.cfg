CONSTANTS
  t1 = t1
  t2 = t2
  Terminals = {t1}
  Targets <- OneTarget
  Vulnerable = "vulnerableapp"
  FreePlan = TRUE
  Checkouts = {1, 2}
  Sessions <- WizardSessions
SPECIFICATION ProvSpec
INVARIANT WizardStops
CHECK_DEADLOCK FALSE
