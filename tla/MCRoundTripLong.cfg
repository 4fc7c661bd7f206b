SPECIFICATION FairTwoWaySpec
CONSTANTS
  Label <- MCLabel
  AttrName <- MCAttrName
  IdAttr = "type"
  Value <- MCValue
  None = None
  TextWeight <- MCTextWeight
  Inputs <- MCFewInputs
  LcssLimit = 1
  Headers <- MCHeaders
INVARIANTS
  ForthRebuildsSecond
  ForthKeepsXids
  ReverseRebuildsFirst
  WayBackIsSafe
PROPERTIES
  Termination
  WayBackEnds
CHECK_DEADLOCK FALSE
