CONSTANTS
  Signals <- BothSignals
  Ids = {d1, d2}
CHECK_DEADLOCK FALSE
SPECIFICATION FairSpec
INVARIANTS
  TypeOK
  AudioSeesLiveStations
  MainSeesLiveStations
  LogKeepsUp
  StatisticsAddUp
  CleanEnd
PROPERTIES
  EndsOrIsStuck
