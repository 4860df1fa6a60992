CONSTANTS
  Users = {u1, u2}
  DbKeys = {1, 2}
  Items = {i1}
  NoItem = empty
  CutItem = piece
  MaxItems = 2
  MaxRuns = 2
SPECIFICATION DbSpec
PROPERTIES CommittedIsRead
