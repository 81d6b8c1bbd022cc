SPECIFICATION FairSpec
CONSTANTS
  Events = {e1}
  AckEvents = {e1}
  Escalatable = {e1}
  Targets = {t1, t2}
  Workers = {w1, w2}
  MaxAttempts = 2
  MaxFaults = 2
  MaxCrashes = 1
  NoKey = NoKey
INVARIANTS
  RoutedExactlyOnce
  AttemptLimit
  EscalationJustified
PROPERTIES
  RoutedUnlessKilled
  EventuallyEscalated
