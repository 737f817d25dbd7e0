CONSTANTS
  FULL_PATIENCE = 8
  Lids = TRUE
  NoRepeats = FALSE
  Calls <- OneCall
  SendDelays <- Soon
  ReplyTimeouts <- OneBuffer
  TxLens <- OneBuffer
  Texts <- OneTexts
  MeLens <- OneBuffer
  MaxLeft = 2
  MaxWords = 6
  Ids = {d1}
  Single = FALSE
  Qsy = TRUE
  MaxNew = 1
  Match <- MCMatch
  Letters <- MCLetters
  Characters <- MCCharacters
  Spelling <- MCSpelling
SPECIFICATION Spec
INVARIANTS
  TypeOK
  QsoNeedsCallAndNumber
  ReportOnlyAfterNumber
  CallsAreTakenAsMeant
  PatienceAndStateAgree
  WorkedIsMarked
PROPERTIES
  FailedGivesUp
