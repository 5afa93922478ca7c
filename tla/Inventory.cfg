CONSTANTS
  NameOf <- MCNameOf
  Hidden <- MCHidden
  Order <- MCOrder
  Worlds <- MCWorlds
  MaxEdits = 2
SPECIFICATION Spec
CHECK_DEADLOCK FALSE
INVARIANTS
  OneOwner
  IgnoredLeftOut
  NothingLost
