SPECIFICATION Spec
CONSTANTS
  t1 = t1
  t2 = t2
  gateway = gateway
  dagster = dagster
  Threads <- MCThreads
  Procs <- MCProcs
  Objects = {"a", "temp"}
  Blacklisted = {}
  SeedBlacklisted = {"temp"}
  SeedMatches = {"a"}
  StoreTTL = 2
  SettingsTTL = 2
  TablesTTL = 2
  MaxTime = 3
  MaxVersions = 2
SYMMETRY Symmetry
INVARIANT ConfigInv
INVARIANT ConnectionsFresh
INVARIANT SettingsFresh
INVARIANT DefaultsAreBrief
INVARIANT SelectionHonoured
PROPERTY NeverGoesBack
