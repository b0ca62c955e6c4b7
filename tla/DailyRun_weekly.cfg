CONSTANTS
  sales = sales
  sales_order_lines = sales_order_lines
  suppliers = suppliers
  Source <- MCSource
  Weekly <- MCWeekly
  Job <- MCSource
  JobSource <- MCJobSource
  OrdersJob = sales
  LinesJob = sales_order_lines
  MaxTries = 2
  MaxFaults = 0
  MaxClears = 0
  MaxTimeOuts = 0
  MaxExpiries = 0
  MaxBlanks = 0
SPECIFICATION Spec
CHECK_DEADLOCK FALSE
INVARIANT FailuresNeedFaults
