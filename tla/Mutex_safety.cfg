\* Three tasks: one in a system call that acquires twice, one interrupted by a
\* handler, one plain.
SPECIFICATION Spec
CONSTANTS
  Tasks = {t1, t2, t3}
  Syscalls = {t1}
  Interrupted = {t1, t2}
  Relockers = {t1, t3}
  NoTask = NoTask
INVARIANTS TypeOK OneOwner InnerLock NoSelfWait ReleasesAreOwners
\* A panic stops the kernel.
CHECK_DEADLOCK FALSE
