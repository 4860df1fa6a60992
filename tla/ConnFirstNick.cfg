CONSTANTS
  NickCount = 2
  Retries = 2
  MaxDrops = 1
  Silent = FALSE
  Prompt = TRUE
SPECIFICATION Spec
PROPERTIES LoginWithFirstNick
CHECK_DEADLOCK FALSE
