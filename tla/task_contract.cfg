SPECIFICATION Spec
CONSTANTS
  Checks = {c1, c2, c3}
  Contracts <- MCContracts
  Configs <- MCConfigs
  CacheTtl = 1
  MaxNow = 3
  MaxChanges = 1
SYMMETRY CheckSymmetry
INVARIANTS
  TypeOK
  DecisionIsFresh
  ChangesTakeEffect
  EnforcedGateHolds
CHECK_DEADLOCK FALSE
