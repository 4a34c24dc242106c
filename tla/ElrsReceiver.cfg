SPECIFICATION Spec
CONSTANTS
  Frames <- MCFrames
  Crc <- MCCrc
  MaxRead = 60
  MaxSlips = 1
  Statuses = {0, 1}
INVARIANTS
  TypeOK
  ChannelsAsSent
PROPERTIES
  ReadsConverge
  FramesKeepComing
  StatusShown
