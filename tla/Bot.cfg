CONSTANTS
  Files <- MCFiles
  Environment <- MCEnvironment
  Users = {"ann", "eve"}
  Channels = {"#a", "#b"}
  Passwords = {"pw", "pw2"}
  MainFiles <- MCMainFiles
  PluginOf <- MCPluginOf
  Settings <- MCSettings
  MaxNicks = 2
  Events = {e1, e2, e3}
  Timeout = 1
  MaxTime = 4
  Nicks = {n1, n2}
  Quiz <- MCQuiz
  Guesses = {1, 2}
  MaxAsked = 3
  Said <- MCSaid
  Nicknames = {"ann", "skivvy"}
  HashChannels = {"#a"}
  OtherChannels = {"&b"}
  Chans = {c1, c2, c3}
  NoChan = NoChan
SPECIFICATION Spec
INVARIANTS LeavesAll HeardOnce MessageParsed
PROPERTIES AliasedOnly FairPlay
CHECK_DEADLOCK FALSE
