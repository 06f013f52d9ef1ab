\* Two processors, two device interrupts, one of which may also be raised as an
\* exception, and the timer; up to two interrupts of a number are pending.
SPECIFICATION FairSpec
CONSTANTS
  Cpus = {c1, c2}
  N = 2
  MaxCount = 2
  Faulty = {1}
INVARIANTS TypeOK OneDrain NotForgotten
PROPERTY Handled
