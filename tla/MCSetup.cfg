CONSTANTS
  Admins = {a1, a2}
  Patches <- MCPatches
  InitialSettings <- MCInitialSettings
  PauseLogCap = 2
  MaxTime = 4
  MaxWrites = 4
  w1 = w1
  w2 = w2
  Shells = {w1, w2}
  Values = {"v3"}
  Https = {"https://fly", "https://box"}
  FlyUrl = "https://fly"
  Regions = {"gru", "iad"}
  DefaultRegion = "iad"
  PresetCpus <- MCPresetCpus
  MegaBytes <- MCMegaBytes
  Broken = {1}
  Scenes <- AllScenes
SPECIFICATION SetupSpec
SYMMETRY SetupSymmetry
INVARIANTS AdminTypeOK WindowCanOpen FreezeIsRemembered OpenIsRemembered FlyInv
PROPERTIES OwnKept
CHECK_DEADLOCK FALSE
