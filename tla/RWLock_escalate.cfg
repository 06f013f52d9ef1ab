\* One task escalates while another acquires.
SPECIFICATION Spec
CONSTANTS
  Tasks = {t1, t2}
  Escalators = {t1}
INVARIANT MutualExclusion
CHECK_DEADLOCK FALSE
