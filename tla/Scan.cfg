SPECIFICATION Spec
CONSTANTS
  NameOf <- MCNameOf
  Hidden <- MCHidden
  PhaseName <- MCPhaseName
  Campaign <- MCCampaign
  Order <- MCOrder
  Tokens <- MCTokens
  MaxMembers = 4
  MaxPairs = 17
INVARIANTS
  TypeOK
  EndsExist
  ContainersNest
  Contained
  OneIdentity
  LinksOrderFree
  WholeFestivals
  InferenceSound
  InferenceComplete
CHECK_DEADLOCK FALSE
