CONSTANTS
  Signals <- OneSignal
  Ids = {d1}
CHECK_DEADLOCK FALSE
SPECIFICATION FairSpec
PROPERTIES
  StopsOnSignal
