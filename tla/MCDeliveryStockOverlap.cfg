SPECIFICATION Spec
CONSTANTS
  Deliveries = {"d1", "d2"}
  Sales = {"t1", "t2"}
  Units = {"u1", "u2"}
  UnitsOf <- MCUnitsOf
  QtyOf <- MCQtyOf
  Stock = 3
  Overlap = TRUE
  MaxCrashes = 0
  NoOrder = "none"
INVARIANTS
  ConsumedOnce
CHECK_DEADLOCK FALSE
