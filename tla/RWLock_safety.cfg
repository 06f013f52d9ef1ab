\* Every operation, one task that escalates among three.
SPECIFICATION Spec
CONSTANTS
  Tasks = {t1, t2, t3}
  Escalators = {t1}
INVARIANTS TypeOK LockWord WriterExcludes
PROPERTY ImplementsRWLockSpec
\* A failed assert and a destroyed lock stop the tasks.
CHECK_DEADLOCK FALSE
