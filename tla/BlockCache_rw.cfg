\* Two tasks and two blocks: one whose users keep apart, one that is used freely,
\* written back by force_sync, and whose device may fail.
SPECIFICATION Spec
CONSTANTS
  Tasks = {t1, t2}
  Blocks = {b1, b2}
  Serial = {b1}
  Forced = {b2}
  Failing = {b2}
  ReadCache = TRUE
  MaxVer = 2
INVARIANTS TypeOK DirtyList NothingLost CleanIsOnDisk ReadsLatest Synced
\* A panic stops the kernel.
CHECK_DEADLOCK FALSE
