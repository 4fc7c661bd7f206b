SPECIFICATION FairSpec
CONSTANTS
  Label <- MCLabel
  AttrName <- MCAttrName
  IdAttr = "type"
  Value <- MCValue
  None = None
  TextWeight <- MCTextWeight
  Inputs <- MCInputs
  LongBytes = 4
  Log1000 <- MCLog1000
INVARIANTS
  TypeOK
  MatchIsMutual
  MatchKeepsOwnHash
  MatchedLeavesAgree
  IdentifierDecides
  IdenticalDocumentsMatchIdentically
  NoObviousPairLeft
PROPERTIES
  MatchIsFinal
  CandidateUnderMatchedAncestor
  ImplementsCorrespondence
  Termination
CHECK_DEADLOCK FALSE
