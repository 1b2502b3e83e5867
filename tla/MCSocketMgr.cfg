CONSTANTS
  Connections = {c1, c2, c3, c4}
  ThreadCount = 2
  NoSocket = NoSocket
SPECIFICATION Spec
SYMMETRY Interchangeable
CHECK_DEADLOCK FALSE
INVARIANTS CountsSessions OneThreadEach ReadsInSession
