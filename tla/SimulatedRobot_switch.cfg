SPECIFICATION Spec
CONSTANTS
  JointNames <- MCJointNames
  Joint <- MCJoint
  Simulated <- MCSimulated
  Mimics <- MCMimics
  Other = {"poser", "turner"}
  Names <- MCNames
  TypeChoices <- MCTypeChoices
  MaxLoans = 2
  MaxCopies = 2
PROPERTY
  StopClearsItsBits
CHECK_DEADLOCK FALSE
