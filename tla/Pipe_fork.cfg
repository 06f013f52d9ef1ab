\* A fork wakes sleepers without the mutex.
SPECIFICATION FairSpec
CONSTANTS
  Tasks = {r, w, c}
  Reader = r
  Writer = w
  Copiers = {w}
  Signalled = {}
  Killed = {}
  Size = 2
  Page = 1
  MaxPut = 1
  MaxLen = 1
  MaxFd = 1
  MaxEnds = 3
  Byte = {"c", "n"}
  NoTask = NoTask
PROPERTY ReaderWakes
\* The tasks may have closed every descriptor, or exited.
CHECK_DEADLOCK FALSE
