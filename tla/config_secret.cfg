SPECIFICATION Spec
CONSTANTS
  t1 = t1
  t2 = t2
  gateway = gateway
  dagster = dagster
  Threads <- MCThreads
  Procs <- MCProcs
  Objects = {"a"}
  Blacklisted = {}
  SeedBlacklisted = {}
  SeedMatches = {"a"}
  StoreTTL = 1
  SettingsTTL = 1
  TablesTTL = 1
  MaxTime = 1
  MaxVersions = 3
PROPERTY KeptSecretIsCurrent
