CONSTANTS
  Channels = {c1, c2, c3}
  MaxSends = 2
  WithClear = TRUE
SPECIFICATION FairSpec
INVARIANTS TypeOK FrontDefined KeyIndex
PROPERTIES AbstractSpec RoundRobin EveryReplySent StopEnds
CHECK_DEADLOCK FALSE
