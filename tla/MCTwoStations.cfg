CONSTANTS
  FULL_PATIENCE = 3
  Lids = FALSE
  NoRepeats = FALSE
  Calls <- TwoCalls
  SendDelays <- Soon
  ReplyTimeouts <- OneBuffer
  TxLens <- OneBuffer
  Texts <- TwoTexts
  MeLens <- OneOrTwo
  MaxLeft = 2
  MaxWords = 6
  Ids = {d1, d2}
  Single = FALSE
  Qsy = TRUE
  MaxNew = 2
  Match <- MCMatch
  Letters <- MCLetters
  Characters <- MCCharacters
  Spelling <- MCSpelling
SPECIFICATION Spec
INVARIANTS
  PresentStationsStayQuiet
PROPERTIES
  ImplementsQsoLog
  CallingAnotherBreaksOff
SYMMETRY AnyId
