SPECIFICATION Spec
CONSTANTS
  A = a
  B = b
  C = c
  Tab = Tab
  Newline = Newline
  ShortMax = 6
  Texts <- MCTexts
INVARIANTS
  AnnotatedReadsAsNew
CHECK_DEADLOCK FALSE
