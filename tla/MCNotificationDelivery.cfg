SPECIFICATION Spec
CONSTANTS
  Deliveries = {d1, d2}
  Confirmed = {d1}
  WithFallback = {d1}
  Workers = {w1, w2}
  Hooks = {h1}
  MaxAttempts = 2
  MaxQuiet = 1
  MaxReports = 2
  MaxRetries = 2
  MaxCrashes = 1
  NoDelivery = NoDelivery
INVARIANTS
  TypeOK
  AttemptsComplete
  DeadLettersListed
PROPERTIES
  SentOnce
  ConfirmedStays
SYMMETRY Interchangeable
