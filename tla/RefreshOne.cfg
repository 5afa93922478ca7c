CONSTANTS
  Proc = {p1}
  Note = {n1, n2}
  DbFile = {}
  Content = {c1, c2}
  None = None
  Unread = Unread
  MaxTime = 3
SPECIFICATION Spec
SYMMETRY Symmetric
INVARIANTS
  TypeOK
  QuietRunFresh
  RowsVouch
  DbCoherent
  NoNeedlessRebuild
  IInv
PROPERTY NeverDropsCurrent
