SPECIFICATION Spec
CONSTANTS
  Goal = {"idle", "rl_0"}
  KeyAxis = {"velocity"}
  ArrowAxis = {"velocity"}
  Limit = 1
  Torn = Torn
  Garbage <- MCGarbage
INVARIANTS
  TypeOK
  LimitsReceived
PROPERTIES
  KeysObeyed
