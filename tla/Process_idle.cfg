\* Two tasks, and the idle task as it is: it never gets past idle.c:61.
SPECIFICATION FairSpec
CONSTANTS
  MaxPid = 2
  KTasks = {0}
  Callers = {}
  Killable = {}
  MaxNodes = 1
  Reaping = FALSE
PROPERTY Released
\* The pids run out.
CHECK_DEADLOCK FALSE
