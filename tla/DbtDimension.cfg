CONSTANTS
  alice = alice
  bob = bob
  gold = gold
  basic = basic
  Null = Null
  Customer <- MCCustomer
  Attr <- MCAttr
  Date <- MCDate
  MaxBuilds = 4
  LastDay = 4
SYMMETRY MCSymmetry
SPECIFICATION DbtSpec
INVARIANTS
  TypeOK
  SurrogateKeyUnique
  OneVersionAtATime
  NoGaps
  OneCurrentVersion
  RebuildIsNoOp
  NoLookAhead
  GoldsAgree
PROPERTIES
  HistoryKept
  ImplementsHistory
  SnapshotImplementsHistory
CHECK_DEADLOCK FALSE
