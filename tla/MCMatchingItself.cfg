SPECIFICATION Spec
CONSTANTS
  Label <- MCLabel
  AttrName <- MCAttrName
  IdAttr = "type"
  Value <- MCValue
  None = None
  TextWeight <- MCTextWeight
  Inputs <- MCInputs
  LongBytes = 4
  Log1000 <- MCLog1000
INVARIANTS
  DocumentMatchesItself
CHECK_DEADLOCK FALSE
