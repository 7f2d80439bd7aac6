SPECIFICATION NilHalSpec
CONSTANTS
  NT = 2
  W = 4
  Deltas = {0, 2}
  MaxSleep = 2
  MaxCnt = 1
  OverLasttime = FALSE
  NoByte = NoByte
  Size = 2
  MaxBytes = 2
  Writers = {1, 2}
  Readers = {3, 4}
  OutBytes = {0, 1}
  InBytes = {0, 1}
INVARIANTS
  NilConsistent
  
  SerialStream
  SerialNeverStuck
