SPECIFICATION MfsSpec
CONSTANTS
  MAX_RECORDS = 2
  small = small
  large = large
  Values = {small, large}
  NoVal = NoVal
  NoCall = NoCall
  SizeOf <- TwoSizes
  ALIGNMENT = 1
  BankSize = 9
  SectorSize = 3
  TRANSACTION_MAX = 2
  TransactionSizes = {4}
  MAX_REPAIR_ATTEMPTS = 2
  MaxCounter = 3
  EraseLast = FALSE
  EraseTwice = FALSE
 
INVARIANT ReadsCommitted
 
INVARIANT EraseAlwaysFits
PROPERTY StoreIsAtomic
