SPECIFICATION Spec
CONSTANTS
  Handlers = {h1, h2}
  Faults = TRUE
  MaxVersion = 4
  MaxEntries = 3
INVARIANTS
  FirstEntryStandsAlone
  BooksFollow
  PaymentKept
PROPERTIES
  EntriesOnlyAge
SYMMETRY Interchangeable
CHECK_DEADLOCK FALSE
