SPECIFICATION Spec
CONSTANTS
  Tabs = {t1, t2}
  Rows = {r1, r2}
  None = None
  Whole = Whole
  BulkMax = 1
  MaxEdits = 2
  MaxFaults = 1
  MaxGets = 1
INVARIANTS
  QueueArmed
  EditsSurvive
  BaselineWasStored
  NothingUnsent
PROPERTIES
  OthersWorkKept
SYMMETRY Interchangeable
CHECK_DEADLOCK FALSE
