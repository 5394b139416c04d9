\* Every layout and every width of number.
SPECIFICATION Spec
CONSTANTS
  Amounts <- MCAmounts
  Receipts <- MCReceipts
  Phones <- MCPhones
  Dates <- MCDates
INVARIANTS
  GettersFindTheirItems
CHECK_DEADLOCK FALSE
