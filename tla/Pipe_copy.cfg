\* Forks, dups and kills: a third task shares the pipe, and the one that forks is killed.
SPECIFICATION Spec
CONSTANTS
  Tasks = {r, w, c}
  Reader = r
  Writer = w
  Copiers = {w}
  Signalled = {}
  Killed = {w}
  Size = 2
  Page = 1
  MaxPut = 2
  MaxLen = 1
  MaxFd = 2
  MaxEnds = 4
  Byte = {"c"}
  NoTask = NoTask
INVARIANTS TypeOK Counts FreedUnused
\* The tasks may have closed every descriptor, or exited.
CHECK_DEADLOCK FALSE
