CONSTANTS
  Call = {c1, c2}
  Kind = {"track_run", "gold"}
  Columns = {k1, k2}
  Date = {d1, d2}
  HasEngine = TRUE
  MaxStaleness = 2
  Lookback = 1
  MaxActive = 2
  MaxNow = 3
  Null = Null
SYMMETRY AllSymmetry
SPECIFICATION Spec
CHECK_DEADLOCK FALSE
INVARIANTS
  TypeOK
  FreshnessEarned
  SuccessIsTracked
  NoRepeatedVersion
  FailuresAreReported
  VerdictsHold
