SPECIFICATION Spec
CONSTANTS
  Label <- MCLabel
  AttrName <- MCAttrName
  IdAttr = "type"
  Value <- MCValue
  None = None
  TextWeight <- MCTextWeight
  Inputs <- MCInputs
  LcssLimit = 99
INVARIANTS
  SavedMapDescribesResult
CHECK_DEADLOCK FALSE
