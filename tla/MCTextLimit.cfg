SPECIFICATION FairSpec
CONSTANTS
  A = a
  B = b
  C = c
  Tab = Tab
  Newline = Newline
  ShortMax = 6
  Texts <- MCTextsAtLimit
PROPERTIES
  Termination
CHECK_DEADLOCK FALSE
