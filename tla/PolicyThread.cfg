SPECIFICATION Spec
CONSTANTS
  HistoryLen = 2
  MaxEpisode = 3
INVARIANTS
  TypeOK
  CleanEpisode
  AtMostOneLateAction
  NeverInfersFromNothing
PROPERTIES
  DrivesByFreshActions
