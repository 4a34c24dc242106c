SPECIFICATION SwitchSpec
CONSTANTS
  Policy <- MCPolicy
  PolicyNamed <- MCPolicyNamed
  RlGoal = {"rl_0", "rl_1", "rl_9"}
  OtherGoal = {}
  FoldRamps = {0, 1, 3}
  StandRamps = {2}
  SettleIter = 3
  MaxIter = 10
INVARIANTS
  TypeOK
  HandoverStood
  LiesDownFolded
PROPERTIES
  SetpointContinuous
  StartsFromMeasured
  OnlyCurrentBegins
  LeftPoliciesRest
