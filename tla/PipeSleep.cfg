SPECIFICATION PipeSpec
CONSTANTS
  Writers = {a, b}
  Readers = {c}
  Size = 2
  MaxBytes = 2
  None = None
INVARIANT SidesNeverBothSleep
