CONSTANTS
  l1 = l1
  l2 = l2
  l3 = l3
  l4 = l4
  pen = pen
  lamp = lamp
  NoKey = NoKey
  Absent = Absent
  Record <- MCRecord
  Key <- MCKey
  KeyOf <- MCKeyOf
  MaxWeeks = 3
  MaxLines = 2
SPECIFICATION Spec
CHECK_DEADLOCK FALSE
INVARIANTS
  CatalogIsWhole
