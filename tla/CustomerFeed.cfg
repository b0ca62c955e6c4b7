CONSTANTS
  r1 = r1
  r2 = r2
  r3 = r3
  r4 = r4
  ann = ann
  bob = bob
  NoKey = NoKey
  Absent = Absent
  Record <- MCRecord
  Key <- MCKey
  KeyOf <- MCKeyOf
  PageSize = 2
  FetchAttempts = 2
  TaskAttempts = 2
  MaxReruns = 1
SPECIFICATION Spec
CHECK_DEADLOCK FALSE
INVARIANTS
  LandingIsWhole
  SilverIsOfThisBatch
