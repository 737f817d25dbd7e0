CONSTANTS
  Datagrams <- MCDatagrams
  MIN_WPM = 21
  MAX_WPM = 31
  StartWpm = 25
  MaxPieces = 5
SPECIFICATION Spec
INVARIANTS
  KeyedAsSent
