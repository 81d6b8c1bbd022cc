SPECIFICATION Spec
CONSTANTS
  Deliveries = {"d1", "d2"}
  Sales = {"t1", "t2"}
  Units = {"u1", "u2"}
  UnitsOf <- MCUnitsOf
  QtyOf <- MCQtyOf
  Stock = 3
  Overlap = FALSE
  MaxCrashes = 2
  NoOrder = "none"
INVARIANTS
  TypeOK
  StockAccounted
  RetryTakesNoDevice
  DoneIsSold
CHECK_DEADLOCK FALSE
