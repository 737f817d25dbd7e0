CONSTANTS
  Messages <- MCMessages
  MaxIn = 2
SPECIFICATION FairSpec
INVARIANTS
  TypeOK
  BytesAreUnderstood
  LoggerKnows
  BusyOnlyWhileSending
PROPERTIES
  LoggerHearsTheEnd
