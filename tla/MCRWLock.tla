------------------------------ MODULE MCRWLock ------------------------------
(***************************************************************************)
(* Instances of RWLock for TLC, and the refinement mapping to RWLockSpec:  *)
(* a reader has the lock from the moment the word counts it, a writer from *)
(* the test that finds nobody else, and a task whose escalation did        *)
(* nothing still has its reader lock.                                      *)
(***************************************************************************)
EXTENDS RWLock

Mode(t) ==
  CASE t \in Counted -> "reader"
    [] pc[t] \in {"writing", "down"} -> "writer"
    [] OTHER -> "none"

Abstract == INSTANCE RWLockSpec WITH mode <- [t \in Tasks |-> Mode(t)]

\* Every behaviour of the lock, shutdown and destruction included, is one of the
\* abstract reader/writer lock.
ImplementsRWLockSpec == Abstract!Spec
=============================================================================
