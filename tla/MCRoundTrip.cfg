SPECIFICATION Spec
CONSTANTS
  Label <- MCLabel
  AttrName <- MCAttrName
  IdAttr = "type"
  Value <- MCValue
  None = None
  TextWeight <- MCTextWeight
  Inputs <- MCInputs
  LcssLimit = 99
INVARIANTS
  TypeOK
  ReconstructsSecond
  XidsFollowNodes
  NoException
  WrongRootsAreNoticed
  ParentsComeFirst
  MatchedNodeNeverLost
  HeaviestStay
  MapIsTheDocument
  InsertedXidsAreNew
CHECK_DEADLOCK FALSE
