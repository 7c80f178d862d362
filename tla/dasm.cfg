SPECIFICATION Spec
CONSTANTS
  Size = 8
  Codes <- MCCodes
INVARIANTS ListingKeepsStep
CHECK_DEADLOCK FALSE
