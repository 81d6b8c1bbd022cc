SPECIFICATION FairSpec
CONSTANTS
  Deliveries = {d1}
  Confirmed = {d1}
  WithFallback = {d1}
  Workers = {w1, w2}
  Hooks = {h1}
  MaxAttempts = 2
  MaxQuiet = 1
  MaxReports = 2
  MaxRetries = 0
  MaxCrashes = 0
  NoDelivery = NoDelivery
PROPERTIES
  EventuallySettled
  FallbackFollows
