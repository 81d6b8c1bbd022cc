SPECIFICATION Spec
CONSTANTS
  i1 = i1
  i2 = i2
  s1 = s1
  o1 = o1
  Invoices <- TwoInvoices
  Total <- Totals
  Submissions <- AllSubmissions
  InvoiceOf <- Invoice
  AmountOf <- Amount
  Outstanding = {o1}
  Handlers = {h1, h2}
  Repeats = FALSE
  MaxPayments = 3
  MaxEntries = 2
  NoKey = NoKey
INVARIANTS
  NeverOverpaid
  PaidMatchesAllocations
  OncePerKey
  WithinAmount
  EntriesFollow
PROPERTIES
  KeepsAccount
SYMMETRY Interchangeable
CHECK_DEADLOCK FALSE
