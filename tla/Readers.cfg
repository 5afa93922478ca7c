CONSTANTS
  Nodes <- MCNodes
  Links <- MCLinks
  Texts <- MCTexts
  Builds <- MCBuilds
  About <- MCAbout
  Asked <- MCAsked
  Calls <- MCCalls
  None = None
  MaxRow = 3
  MaxCommits = 1
SPECIFICATION ReadersSpec
INVARIANTS
  SearchExact
  MirrorAccounted
  RelatedRanked
  NeighbourhoodExact
