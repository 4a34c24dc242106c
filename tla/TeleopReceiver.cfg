SPECIFICATION Spec
CONSTANTS
  Gaits <- TwoGaits
  Sticks = {0, 1}
  Keys = {0, 8}
INVARIANTS
  TypeOK
PROPERTIES
  SticksObeyed
  SdkUndisturbed
  OnePressOneToggle
