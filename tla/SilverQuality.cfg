CONSTANTS
  Null = Null
  Bad = Bad
  Idle = Idle
  Groups <- MCGroups
  Batch <- MCBatch
  TierShare <- MCTierShare
  EmailShare <- MCEmailShare
  MaxRows = 2
  MaxLands = 2
  MaxWrites = 2
SPECIFICATION Spec
CHECK_DEADLOCK FALSE
INVARIANTS
  TypeOK
  OneRowPerKey
  GuaranteedExpectationsHold
  OrphanAlarmIsStale
PROPERTIES
  RerunIsStable
