SPECIFICATION Spec
CONSTANTS
  Half = 2
  Fold = 0
  NumJoints = 8
  Joints = {0, 1}
  Payload <- MCPayload
  Sockets <- MCSockets
  Timed = TRUE
  Commands <- MCCommands
  QueueLen = 1
INVARIANTS
  TypeOK
  AtMostOneLateCall
PROPERTIES
  SameAngleSent
  StopEnds
  CommandsGetThrough
  ReceiverKeepsUp
