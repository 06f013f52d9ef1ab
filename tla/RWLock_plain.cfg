\* Nobody escalates to writer: full exclusion, no failed assert, progress.
SPECIFICATION FairSpec
CONSTANTS
  Tasks = {t1, t2, t3}
  Escalators = {}
INVARIANTS MutualExclusion NoFailedAssert
PROPERTY SomebodyGetsIn
\* A call on a destroyed lock stops the kernel.
CHECK_DEADLOCK FALSE
