\* Safety: kernel_task, its child 1, and two more tasks that any of them may fork; the
\* idle task releases what it finds.
SPECIFICATION Spec
CONSTANTS
  MaxPid = 3
  KTasks = {0}
  Callers = {3}
  Killable = {3}
  MaxNodes = 2
  Reaping = TRUE
INVARIANTS TypeOK InItsQueues ParentLives WaiterHoldsChild  ZombieKept
\* The pids run out, and a NULL dereference stops the kernel.
CHECK_DEADLOCK FALSE
