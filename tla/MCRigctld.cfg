CONSTANTS
  Clients = {c1, c2}
  Lines <- MCLines
  LineEnds <- CrLf
  Words <- MCWords
  Numbers <- MCNumbers
  NewRig <- MCNewRig
  MaxLines = 2
  None = None
SPECIFICATION FairSpec
INVARIANTS
  TypeOK
PROPERTIES
  ImplementsRigService
  RigChangesAsAsked
  LinesAreAnswered
CHECK_DEADLOCK FALSE
