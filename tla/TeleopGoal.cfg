SPECIFICATION Spec
CONSTANTS
  Positions <- AllPositions
  Depth = 2
  MaxJoins = 1
INVARIANTS
  TypeOK
  NewestGoalKept
PROPERTIES
  LeversObeyed
