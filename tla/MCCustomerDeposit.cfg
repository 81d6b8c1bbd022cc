SPECIFICATION DepositSpec
CONSTANTS
  i1 = i1
  i2 = i2
  s1 = s1
  o1 = o1
  d1 = d1
  r1 = r1
  r2 = r2
  Invoices <- TwoInvoices
  Total <- Totals
  Submissions <- AllSubmissions
  InvoiceOf <- Invoice
  AmountOf <- Amount
  Outstanding = {o1}
  Handlers = {h1}
  Repeats = FALSE
  MaxPayments = 3
  MaxEntries = 2
  NoKey = NoKey
  Deposits = {d1}
  Value <- OrderValue
  Receipts <- TwoReceipts
  ReceiptFor <- Depositor
  ReceiptAmount <- PaidIn
  NoDeposit = NoDeposit
INVARIANTS
  DepositTypeOK
  SpentOnce
  LiabilityAgrees
  CompletedIsSettled
PROPERTIES
  KeepsAccount
CHECK_DEADLOCK FALSE
