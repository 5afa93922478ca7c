CONSTANTS
  Proc = {p1, p2}
  Note = {n1}
  DbFile = {}
  Content = {c1, c2}
  None = None
  Unread = Unread
  MaxTime = 2
SPECIFICATION Spec
SYMMETRY Symmetric
INVARIANTS
  QuietRunFresh
  RowsVouch
  DbCoherent
