CONSTANTS
  alice = alice
  bob = bob
  gold1 = gold1
  basic = basic
  widget = widget
  shop = shop
  o1 = o1
  o2 = o2
  o3 = o3
  l1 = l1
  l2 = l2
  l3 = l3
  Null = Null
  Customer <- MCCustomer
  Attr <- MCAttr
  Date <- MCDate
  Calendar <- MCCalendar
  Product = {widget}
  Store = {shop}
  Order <- MCOrder
  Line <- MCLine
  OrderCustomer <- MCOrderCustomer
  OrderStore <- MCOrderStore
  OrderDate <- MCOrderDate
  LineOrder <- MCLineOrder
  LineProduct <- MCLineProduct
  SilverContent <- MCSilver
  MaxTries = 2
  MaxStarts = 3
  MaxActiveRuns = 1
  Backfill = FALSE
  SilverRerun = FALSE
SPECIFICATION Spec
CHECK_DEADLOCK FALSE
INVARIANTS
  TypeOK
  FactGrain
  FactAgreesWithDimension
  SuccessIsConsistent
  EachLineSummedOnce
PROPERTIES
  PastFactsStable
  ImplementsDimension
