\* Liveness: the tasks wait for their children only; the idle task releases what it
\* finds.
SPECIFICATION FairSpec
CONSTANTS
  MaxPid = 3
  KTasks = {0}
  Callers = {}
  Killable = {3}
  MaxNodes = 1
  Reaping = TRUE
PROPERTY Released
\* The pids run out, and a NULL dereference stops the kernel.
CHECK_DEADLOCK FALSE
