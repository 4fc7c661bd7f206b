SPECIFICATION FairSpec
CONSTANTS
  Label <- MCLabel
  AttrName <- MCAttrName
  IdAttr = "type"
  Value <- MCValue
  None = None
  TextWeight <- MCTextWeight
  Inputs <- MCInputs
  LongBytes = 8
  Log1000 <- MCLog1000
PROPERTIES
  CandidateUnderMatchedAncestor
CHECK_DEADLOCK FALSE
