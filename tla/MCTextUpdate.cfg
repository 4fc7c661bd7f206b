SPECIFICATION FairSpec
CONSTANTS
  A = a
  B = b
  C = c
  Tab = Tab
  Newline = Newline
  ShortMax = 6
  Texts <- MCTexts
INVARIANTS
  TypeOK
  RebuildsNew
  OperationsApart
  FewestChanges
  AnnotatedReadsBack
PROPERTIES
  Termination
CHECK_DEADLOCK FALSE
