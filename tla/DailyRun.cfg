CONSTANTS
  sales = sales
  sales_order_lines = sales_order_lines
  suppliers = suppliers
  Source <- MCSource
  Weekly <- MCWeekly
  Job <- MCSource
  JobSource <- MCJobSource
  OrdersJob = sales
  LinesJob = sales_order_lines
  MaxTries = 2
  MaxFaults = 1
  MaxClears = 1
  MaxTimeOuts = 1
  MaxExpiries = 1
  MaxBlanks = 1
SPECIFICATION FairSpec
CHECK_DEADLOCK FALSE
INVARIANTS
  TypeOK
  LayersInOrder
  FailuresAreExplained
PROPERTIES
  DayEnds
  RetriesAbsorbFaults
