SPECIFICATION MfsSpec
CONSTANTS
  MAX_RECORDS = 2
  small = small
  large = large
  Values = {small, large}
  NoVal = NoVal
  NoCall = NoCall
  SizeOf <- TwoSizes
  ALIGNMENT = 1
  BankSize = 8
  SectorSize = 4
  TRANSACTION_MAX = 0
  TransactionSizes = {}
  MAX_REPAIR_ATTEMPTS = 1
  MaxCounter = 3
  EraseLast = TRUE
  EraseTwice = FALSE
INVARIANT ReadsCommitted
