SPECIFICATION Spec
CONSTANTS
  Tabs = {t1, t2}
  Rows = {r1, r2}
  None = None
  Whole = Whole
  BulkMax = 1
  MaxEdits = 2
  MaxFaults = 0
  MaxGets = 2
PROPERTIES
  StaleTabHarmless
CHECK_DEADLOCK FALSE
