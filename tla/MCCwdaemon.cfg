CONSTANTS
  Datagrams <- MCDatagrams
  MIN_WPM = 21
  MAX_WPM = 31
  StartWpm = 25
  MaxPieces = 5
SPECIFICATION FairSpec
INVARIANTS
  TypeOK
  SendingHasPieces
  StationFollows
  KeyedAsSentUnlessChanged
PROPERTIES
  FallsSilent
