CONSTANTS
  fa = fa
  fb = fb
  fc = fc
  Files <- MCFiles
  Ids <- MCIds
  Commands <- MCCommands
  IdOf <- MCIdOf
  ListOf <- MCListOf
  Watchers <- MCWatchers
  Configs <- MCConfigs
  MaxLoads = 3
  MayFail = TRUE
  ByThread = TRUE
SPECIFICATION Spec
INVARIANTS TypeOK UniqueIds CodeMapped CommandTable MonitorTable
PROPERTIES SafelyDestroyed
CHECK_DEADLOCK FALSE
