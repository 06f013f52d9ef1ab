----------------------------- MODULE RWLockSpec -----------------------------
(***************************************************************************)
(* What kernel/rwlock.c promises in its header comment: any number of      *)
(* readers, or one writer and no reader.  mode[t] is the lock task t has.  *)
(***************************************************************************)
CONSTANT Tasks
VARIABLE mode

Init == mode = [t \in Tasks |-> "none"]

Set(t, m) == mode' = [mode EXCEPT ![t] = m]
Others(t, m) == \A u \in Tasks \ {t} : mode[u] = m

Read(t) == mode[t] = "none" /\ (\A u \in Tasks : mode[u] # "writer") /\ Set(t, "reader")
Write(t) == mode[t] = "none" /\ Others(t, "none") /\ Set(t, "writer")
Escalate(t) == mode[t] = "reader" /\ Others(t, "none") /\ Set(t, "writer")
Lower(t) == mode[t] = "writer" /\ Set(t, "reader")
Release(t) == mode[t] # "none" /\ Set(t, "none")

Next == \E t \in Tasks : Read(t) \/ Write(t) \/ Escalate(t) \/ Lower(t) \/ Release(t)

Spec == Init /\ [][Next]_mode
=============================================================================
