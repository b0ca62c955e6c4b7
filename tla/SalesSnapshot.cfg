CONSTANTS
  o1 = o1
  o2 = o2
  l1 = l1
  l2 = l2
  l3 = l3
  none = none
  NoOrder = none
  Order <- MCOrder
  Line <- MCLine
  OrderOf <- MCOrderOf
  MaxClears = 2
SPECIFICATION Spec
CHECK_DEADLOCK FALSE
INVARIANTS
  TypeOK
  LinesHaveOrders
  SettledLinesArrive
