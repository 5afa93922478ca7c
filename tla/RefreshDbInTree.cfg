CONSTANTS
  Proc = {p1}
  Note = {n1}
  DbFile = {d1}
  Content = {c1, c2}
  None = None
  Unread = Unread
  MaxTime = 3
SPECIFICATION Spec
INVARIANT NoNeedlessRebuild
