\* No forks: sleeping and waking.
SPECIFICATION FairSpec
CONSTANTS
  Tasks = {r, w}
  Reader = r
  Writer = w
  Copiers = {}
  Signalled = {r}
  Killed = {}
  Size = 3
  Page = 2
  MaxPut = 4
  MaxLen = 3
  MaxFd = 1
  MaxEnds = 2
  Byte = {"c", "n"}
  NoTask = NoTask
INVARIANTS InOrder Queued NoLostWakeup
PROPERTIES ReaderWakes ReaderSeesEnd
\* The tasks may have closed every descriptor, or exited.
CHECK_DEADLOCK FALSE
