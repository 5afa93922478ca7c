CONSTANTS
  a = a
  b = b
  fresh = fresh
  t1 = t1
  onlyB = onlyB
  s1 = s1
  Node <- MCNode
  Known <- MCKnown
  Term = {t1}
  NoTerm = NoTerm
  Chip <- MCChip
  AllChips = AllChips
  Scope = {s1}
  NoScope = NoScope
  Hits <- MCHits
  Anchors <- MCAnchors
  TypeOf <- MCTypeOf
  Adjacent <- MCAdjacent
  None = None
  HalfPage = 2
  MaxCount = 1
  MaxGen = 2
  MaxFetch = 2
  MaxDepth = 2
SPECIFICATION FairSpec
CHECK_DEADLOCK FALSE
INVARIANTS
  TypeOK
  ListIsCurrent
  AnchorsFollowFilters
  OneLiveQuery
  CursorOnGroups
  PreviewSettles
  HistoryIsWalk
  BInv
PROPERTY Settles
