\* The date of a payment.
SPECIFICATION Spec
CONSTANTS
  Amounts <- MCAmounts
  Receipts <- MCReceipts
  Phones <- MCPhones
  Dates <- MCDates
INVARIANTS
  TransTimeIsMpesas
CHECK_DEADLOCK FALSE
