SPECIFICATION Spec
CONSTANTS
  Policy <- MCPolicy
  PolicyNamed <- MCPolicyNamed
  RlGoal = {"rl_0", "rl_1", "rl_99999999999"}
  OtherGoal = {"jump"}
  FoldRamps = {0, 1}
  StandRamps = {1}
  SettleIter = 3
  MaxIter = 7
INVARIANT TorqueLimited
