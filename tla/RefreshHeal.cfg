CONSTANTS
  Proc = {p1}
  Note = {n1}
  DbFile = {}
  Content = {c1, c2}
  None = None
  Unread = Unread
  MaxTime = 4
SPECIFICATION FairSpec
PROPERTY Heals
