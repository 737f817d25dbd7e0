CONSTANTS
  FULL_PATIENCE = 2
  Lids = FALSE
  NoRepeats = FALSE
  Calls <- OneCall
  SendDelays <- Soon
  ReplyTimeouts <- OneBuffer
  TxLens <- OneBuffer
  Texts <- Contact
  MeLens <- OneBuffer
  MaxLeft = 1
  MaxWords = 5
  Ids = {d1, d2}
  Single = TRUE
  Qsy = FALSE
  MaxNew = 0
  Match <- MCMatch
  Letters <- MCLetters
  Characters <- MCCharacters
  Spelling <- MCSpelling
SPECIFICATION Spec
INVARIANTS
  AtMostOneInSingleMode
