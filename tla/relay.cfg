\* One request that sends twice and is answered once.
SPECIFICATION Spec
CONSTANTS
  MaxUp = 2
  MaxDown = 1
INVARIANT UpIntact
PROPERTY NothingIsLeft
CHECK_DEADLOCK FALSE
