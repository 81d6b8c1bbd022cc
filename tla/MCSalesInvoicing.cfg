SPECIFICATION FairSpec
CONSTANTS
  Lines = {l1}
  ByDelivery = {l1}
  Repairs = {TRUE, FALSE}
  Handlers = {h1, h2}
  Ordered = 2
  Quoted = 1
  MaxInvoices = 2
  MaxTrouble = 1
INVARIANTS
  SalesTypeOK
  BilledOnce
  RepairBilledOnce
PROPERTIES
  EventuallyBilled
CHECK_DEADLOCK FALSE
