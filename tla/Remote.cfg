CONSTANTS
  Senders = {s1, s2, s3}
  Pieces = 2
  MaxLinks = 3
  MaxLines = 4
  Conns = {c1, c2, c3, c4}
  Numbers <- MCNumbers
  NoConn = NoConn
  Letters = {"x", "y"}
  RemoteCommands <- MCTyped
  BufferSize = 2
  Room = 4
  Octets <- MCOctets
  SetCookies <- MCSetCookies
  Responses <- MCResponses
  Languages = {"en", "de"}
  MaxOptions = 2
  MaxFetches = 2
  Tables <- MCTables
  Dates <- MCDates
  Today <- MCToday
  FilterFrom = 2012
  MinOpponents = 2
  Division = 2
  Divisions = 3
  MaxResults = 2
  MaxMatches = 3
  Lookups <- MCLookups
  PageNumbers = {0, 1, 2, 3}
  SizeT = 32
  Sort <- MCSort
  ServedChannels = {"#a"}
  MaxTables = 2
  RangeLists <- MCRangeLists
  Days <- MCDays
  BeforeDMap <- MCBeforeDMap
  Palette <- MCPalette
  Pages <- MCPages
  Documents <- MCDocuments
  Texts <- MCTexts
  Asks <- MCAsks
  LoadedPlugins <- MCPlugins
  TriggerWords <- MCTriggerWords
  Callers = {w1, w2}
  WhoisNicks = {"ann", "bob"}
  MaxWhois = 2
  MaxUnasked = 1
SPECIFICATION Spec
INVARIANTS LinesWhole NothingLeft AnswersWhole PagesWhole OaRanked WhoisWhole HelpersAgree
CHECK_DEADLOCK FALSE
