CONSTANTS
  StoreKeys <- MCStoreKeys
  Values = {x, b}
  Blank = b
  Partial = cut
  MaxValues = 2
  Users = {u1, u2}
  DbKeys <- MCDbKeys
  Items = {i1}
  NoItem = empty
  CutItem = piece
  MaxItems = 2
  MaxRuns = 2
  Holders = {h1, h2, h3}
  Names = {n1, n2}
  Texts = {t1, t2}
  ListTexts <- MCListTexts
  MapTexts <- MCMapTexts
  MaxListed = 2
  MaxSize = 2
SPECIFICATION Spec
INVARIANTS CommittedInFiles NothingLost
PROPERTIES StoreRefines ItemsSurvive
