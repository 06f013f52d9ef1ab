-------------------------------- MODULE Mutex --------------------------------
(***************************************************************************)
(* The mutex of kernel/mutex.c.  A task runs its own code (context "base") *)
(* and, while an interrupt is being handled on top of it, the handler's    *)
(* (context "hnd"); its own code stands still until the handler returns.   *)
(* Both may use the mutex.  The build is the SMP one, whose tasks all have *)
(* a current_task, so the single-processor deadlock test is compiled in    *)
(* but never true.                                                         *)
(***************************************************************************)
EXTENDS Integers, FiniteSets

CONSTANTS Tasks,
          Syscalls,     \* tasks whose base code runs in a system call: TF_IN_INT is set
          Interrupted,  \* tasks on top of which a handler that uses the mutex may run
          Relockers,    \* tasks whose base code acquires the mutex twice
          NoTask        \* mutex_t.pid == -1

ASSUME MutexAssumption ==
  /\ NoTask \notin Tasks
  /\ Syscalls \subseteq Tasks /\ Interrupted \subseteq Tasks /\ Relockers \subseteq Tasks

VARIABLES lock,   \* mutex_t.lock: a set of the bits "held" (bit 0) and "int" (MT_LCK_INT)
          pid,    \* mutex_t.pid
          pc,     \* [Tasks -> [Ctx -> Label]]
          sys     \* "up", "shutdown", "destroyed", or the reason of a panic

vars == <<lock, pid, pc, sys>>

Ctx == {"base", "hnd"}
Label == {"none", "idle", "nolock", "spin", "won", "held", "inner", "relocked", "rel"}
Panics == {"relock", "lost", "notowner", "timeout", "badmagic", "assert"}

\* The context that runs, and TF_IN_INT: syscall_entry and irq_entry raise it.
Active(t) == IF pc[t]["hnd"] = "none" THEN "base" ELSE "hnd"
InInt(t) == t \in Syscalls \/ pc[t]["hnd"] # "none"
At(t, l) == sys \notin Panics /\ pc[t][Active(t)] = l
Goto(t, l) == pc' = [pc EXCEPT ![t][Active(t)] = l]
Stop(why) == sys' = why /\ UNCHANGED <<lock, pid, pc>>

Init ==
  /\ lock = {}
  /\ pid = NoTask
  /\ pc = [t \in Tasks |-> [c \in Ctx |-> IF c = "base" THEN "idle" ELSE "none"]]
  /\ sys = "up"

\* The checks every operation begins with.
Skip(t, l) ==
  \/ sys = "shutdown" /\ Goto(t, l) /\ UNCHANGED <<lock, pid, sys>>
  \/ sys = "destroyed" /\ Stop("badmagic")

(***************************************************************************)
(* mutex_acquire: the test for a second acquire by the owner, the acquire  *)
(* inside an interrupt, or the spin.  Only the owner writes its own pid,   *)
(* so the test of pid is one step.  MT_LCK_INT is set and cleared with a   *)
(* plain read and write, which are one step too: bit 0 is set meanwhile,   *)
(* so that a bts_atomic of another task does not change the word, and a    *)
(* handler in between has given up what it took when it returns.           *)
(***************************************************************************)
Relocks(t) == lock # {} /\ pid = t /\ ("int" \in lock \/ ~InInt(t))
\* Mutant: the owner is not recognised inside an interrupt.
AcquireTests_NoInner(t, inner) ==
  IF Relocks(t) THEN Stop("relock")
  ELSE Goto(t, "spin") /\ UNCHANGED <<lock, pid, sys>>
\* Mutant: the second acquire of an owner is not told apart.
AcquireTests_NoPanic(t, inner) ==
  IF pid = t
  THEN lock' = lock \cup {"int"} /\ Goto(t, inner) /\ UNCHANGED <<pid, sys>>
  ELSE Goto(t, "spin") /\ UNCHANGED <<lock, pid, sys>>
AcquireTests(t, inner) ==
  IF Relocks(t) THEN Stop("relock")
  ELSE IF pid = t /\ InInt(t)
       THEN lock' = lock \cup {"int"} /\ Goto(t, inner) /\ UNCHANGED <<pid, sys>>
       ELSE Goto(t, "spin") /\ UNCHANGED <<lock, pid, sys>>

Acquire(t) == At(t, "idle") /\ (Skip(t, "nolock") \/ (sys = "up" /\ AcquireTests(t, "inner")))

\* The base code acquires what it already holds.
AcquireAgain(t) ==
  /\ t \in Relockers /\ Active(t) = "base"
  /\ At(t, "held") /\ sys = "up" /\ AcquireTests(t, "relocked")

\* while(bts_atomic(&m->lock, 0)): spin, and give up after a hundred million rounds.
Bts(t) ==
  /\ At(t, "spin") /\ "held" \notin lock
  /\ lock' = lock \cup {"held"} /\ Goto(t, "won") /\ UNCHANGED <<pid, sys>>
TimeOut(t) == At(t, "spin") /\ "held" \in lock /\ Stop("timeout")
\* Mutant: the owner is not recorded.
SetOwner_Not(t) == At(t, "won") /\ Goto(t, "held") /\ UNCHANGED <<lock, pid, sys>>
SetOwner(t) ==
  /\ At(t, "won")
  /\ IF lock = {} THEN Stop("lost")
     ELSE pid' = t /\ Goto(t, "held") /\ UNCHANGED <<lock, sys>>

(***************************************************************************)
(* mutex_release: MT_LCK_INT goes first, else the owner and then bit 0.    *)
(***************************************************************************)
\* Mutant: a release inside an interrupt gives up the whole mutex.
ReleaseTests_Whole(t, back) ==
  IF lock = {} THEN Stop("assert")
  ELSE IF pid # t THEN Stop("notowner")
  ELSE /\ lock' = lock \ {"int"} /\ pid' = NoTask
       /\ Goto(t, IF pc[t][Active(t)] = "held" THEN "rel" ELSE back) /\ UNCHANGED sys
ReleaseTests(t, back) ==
  IF lock = {} THEN Stop("assert")
  ELSE IF pid # t THEN Stop("notowner")
  ELSE IF "int" \in lock
  THEN IF InInt(t)
       THEN lock' = lock \ {"int"} /\ Goto(t, back) /\ UNCHANGED <<pid, sys>>
       ELSE Stop("assert")
  ELSE pid' = NoTask /\ Goto(t, "rel") /\ UNCHANGED <<lock, sys>>

Release(t) == At(t, "held") /\ (Skip(t, "idle") \/ (sys = "up" /\ ReleaseTests(t, "idle")))
ReleaseInner(t) == At(t, "inner") /\ (Skip(t, "idle") \/ (sys = "up" /\ ReleaseTests(t, "idle")))
ReleaseAgain(t) ==
  At(t, "relocked") /\ (Skip(t, "held") \/ (sys = "up" /\ ReleaseTests(t, "held")))
ReleaseNothing(t) == At(t, "nolock") /\ Skip(t, "idle")
\* Mutant: bit 0 is never cleared.
Btr_Not(t) == At(t, "rel") /\ Goto(t, "idle") /\ UNCHANGED <<lock, pid, sys>>
Btr(t) == At(t, "rel") /\ lock' = lock \ {"held"} /\ Goto(t, "idle") /\ UNCHANGED <<pid, sys>>

\* An interrupt arrives on top of whatever the base code is doing, and its
\* handler returns once it holds nothing.
Interrupt(t) ==
  /\ sys \notin Panics /\ t \in Interrupted /\ pc[t]["hnd"] = "none"
  /\ pc' = [pc EXCEPT ![t]["hnd"] = "idle"]
  /\ UNCHANGED <<lock, pid, sys>>
HandlerReturns(t) ==
  /\ sys \notin Panics /\ pc[t]["hnd"] = "idle"
  /\ pc' = [pc EXCEPT ![t]["hnd"] = "none"]
  /\ UNCHANGED <<lock, pid, sys>>

\* mutex_destroy by a task that does not hold it, and mutex_create of a mutex
\* that nobody uses any more.
AllIdle == \A t \in Tasks : pc[t] = [c \in Ctx |-> IF c = "base" THEN "idle" ELSE "none"]
Destroy(t) ==
  At(t, "idle") /\ sys = "up" /\ sys' = "destroyed" /\ lock' = {} /\ UNCHANGED <<pid, pc>>
\* Mutant: the owner of a new mutex is task 0.
Create_NoPid == sys = "destroyed" /\ AllIdle /\ lock' = {} /\ pid' = 0 /\ sys' = "up" /\ UNCHANGED pc
Create == sys = "destroyed" /\ AllIdle /\ lock' = {} /\ pid' = NoTask /\ sys' = "up" /\ UNCHANGED pc

Shutdown == sys = "up" /\ sys' = "shutdown" /\ UNCHANGED <<lock, pid, pc>>

Progress(t) ==
  \/ Bts(t) \/ SetOwner(t) \/ Release(t) \/ ReleaseInner(t) \/ ReleaseAgain(t)
  \/ ReleaseNothing(t) \/ Btr(t) \/ HandlerReturns(t)

TaskStep(t) ==
  \/ Acquire(t) \/ AcquireAgain(t) \/ Progress(t) \/ TimeOut(t)
  \/ Interrupt(t) \/ Destroy(t)

Next == (\E t \in Tasks : TaskStep(t)) \/ Create \/ Shutdown

Spec == Init /\ [][Next]_vars

-----------------------------------------------------------------------------
TypeOK ==
  /\ lock \subseteq {"held", "int"}
  /\ pid \in Tasks \cup {NoTask}
  /\ pc \in [Tasks -> [Ctx -> Label]]
  /\ sys \in {"up", "shutdown", "destroyed"} \cup Panics

\* The contexts between a successful bts and the btr.
Owns(t, c) == pc[t][c] \in {"won", "held", "relocked", "rel"}

\* Bit 0 is set exactly while one context owns the mutex, and pid names its task
\* exactly between the recording of the owner and its clearing.
OneOwner ==
  sys = "up" =>
    /\ \A t, u \in Tasks : \A c, d \in Ctx : Owns(t, c) /\ Owns(u, d) => t = u /\ c = d
    /\ ("held" \in lock) <=> (\E t \in Tasks, c \in Ctx : Owns(t, c))
    /\ \A t \in Tasks : (pid = t) <=> (\E c \in Ctx : pc[t][c] \in {"held", "relocked"})

\* MT_LCK_INT is set exactly while the owner is inside a second acquire, and a
\* handler's second acquire is on top of base code that holds the mutex.
InnerLock ==
  sys = "up" =>
    /\ ("int" \in lock) <=> (\E t \in Tasks, c \in Ctx : pc[t][c] \in {"inner", "relocked"})
    /\ \A t \in Tasks : /\ pc[t]["hnd"] = "inner" => pc[t]["base"] = "held"
                        /\ pc[t]["base"] = "relocked" => t \in Syscalls
                        /\ pc[t]["base"] # "inner" /\ pc[t]["hnd"] # "relocked"

\* A handler never waits for a mutex whose recorded owner is the task beneath it. (In
\* the windows between the bit and the owner, labels won and rel, it does.)
NoSelfWait ==
  sys = "up" =>
    \A t \in Tasks : pc[t]["hnd"] \in {"spin", "won", "held"} => pc[t]["base"] \notin {"held", "relocked"}

\* No assert and no owner check of mutex_release fails.
ReleasesAreOwners == sys \notin {"notowner", "assert"}
=============================================================================
