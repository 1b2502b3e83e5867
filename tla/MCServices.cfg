CONSTANTS
  Types <- ElementTypes
  TextSize = 2
  FixedSize = 1
  Lengths = {0, 1, 2, 3}
  MaxRows = 2
  Null = Null
  Names = {"a", "b"}
  Characters <- ValueCharacters
  MaxLines = 4
  MaxLength = 4
  MaxZones = 4
  Ports = 16
  Integers32 = 256
  SizeLimit = 16
  MaxStorage = 6
  AssertedSize = 5
  MaxWritten = 5
  Threads = {t1, t2}
  Keys = {1, 2}
  Entries = {e1, e2}
  NoEntry = NoEntry
  MaxElements = 2
  Half = 6
  Times = {0, 2, 3, 7}
  Diffs = {0, 1, 2, 4, 7}
  MaxTime = 12
  Calendar <- TheCalendar
  Workers = {w1, w2}
  MaxFrames = 3
SPECIFICATION Spec
INVARIANTS RowsWhole WritesInBuffers OwnsFirst FileSurvives StartedWhole FailsClean ReadsWhatWasWritten KeepsWhatWasAdded TimersOnTime FiestaDates CrashReported
PROPERTIES  CrashEnds
\* A call returns, a file ends, a server has started and a process has crashed.
CHECK_DEADLOCK FALSE
