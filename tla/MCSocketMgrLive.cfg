CONSTANTS
  Connections = {c1, c2}
  ThreadCount = 3
  NoSocket = NoSocket
SPECIFICATION FairSpec
CHECK_DEADLOCK FALSE
PROPERTIES HangUpIsNoticed StopReturns ConnectsUnlessHeld
