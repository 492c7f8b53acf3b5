SPECIFICATION ScalingSpec
CONSTANTS
  MaxReplicas = 4
  Default = 2
  NoOverride = NoOverride
  MaxTroubles = 3
INVARIANTS ScalingTypeOK ExactWhenSmooth
PROPERTY RecordFollowsReplicas
