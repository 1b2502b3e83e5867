CONSTANTS
  Sizes = {1, 2}
  BlockSize = 3
  SendBuffer = 2
  MaxSent = 3
  MaxErrors = 1
  ReadBlock = 2
  HeaderSize = 2
  Width = 3
  MaxBytes = 9
SPECIFICATION Spec
INVARIANTS OneWait BufferFirst NoByteLost
PROPERTIES KeepsStream Drains
