\* A boot buffer and a queue of two lines, two files kept of five days.
SPECIFICATION LogSafety
CONSTANTS
  PreinitMax = 2
  QueueSize = 2
  MaxLines = 3
  MaxFiles = 2
  MaxFileLines = 2
  MaxDay = 5
INVARIANTS
  LogInv
  FilesBounded
  CallbackKeepsOrder
  LinesAreKeptOnce
