CONSTANTS
  NickCount = 3
  Retries = 2
  MaxDrops = 2
  Silent = TRUE
  Prompt = TRUE
SPECIFICATION FairSpec
INVARIANTS RegisteredHere NickAgrees
PROPERTIES NoQuitOverNick WaitEnds StopsWhenAsked LoginEnds
CHECK_DEADLOCK FALSE
