------------------------------- MODULE Process -------------------------------
(***************************************************************************)
(* The life of a task: fork, exit, wait and release (kernel/tm/fork.c,     *)
(* exit.c, wait.c, tsearch.c, the last steps of schedule.c and the idle    *)
(* task of kernel/init/idle.c).  A task is its pid; pids are given in the  *)
(* order of creation and both queues insert at the head, so that "first in *)
(* the primary queue" is the largest pid, and "first in the kill queue"    *)
(* the one that entered tm_exit last.                                      *)
(***************************************************************************)
EXTENDS Integers, FiniteSets

CONSTANTS MaxPid,      \* bound: the pids are 0 .. MaxPid, 0 is kernel_task
          KTasks,      \* the tasks with TF_KTASK, which make no system calls
          Callers,     \* tasks that call SYS_WAIT (tm_process_wait)
          Killable,    \* tasks that are killed by a signal
          MaxNodes,    \* bound: how often one task enters tm_exit
          Reaping      \* whether the idle task gets past its first loop (idle.c:61)

ASSUME ProcessAssumption ==
  /\ MaxPid \in Nat \ {0} /\ MaxNodes \in Nat \ {0}
  /\ KTasks \subseteq 0 .. MaxPid /\ 0 \in KTasks
  /\ Callers \subseteq 1 .. MaxPid /\ Killable \subseteq 1 .. MaxPid
  /\ Reaping \in BOOLEAN

Pids == 0 .. MaxPid
Null == -1

VARIABLES pc,        \* where the task is, see Label
          state,     \* task_t.state
          kills,     \* the tasks that a SIGKILL is on its way to
          parent,    \* task_t.parent
          primary,   \* the members of primary_queue
          killq,     \* how many nodes of kill_queue hold the task
          since,     \* when the newest of them was inserted: its order there
          ready,     \* the tasks with TF_KILLREADY
          freed,     \* the tasks that release_process has given to kfree
          target,    \* the task_t * a call of the task has looked up
          any,       \* the tasks whose waitpid was called with pid -1
          waiting,   \* task_t.waiting
          sigd,      \* the Callers with a signal pending (SIGWAIT or SIGCHILD);
                     \* nothing here depends on the signals of the others
          waited,    \* history: the tasks whose status a wait(-1) has returned
          sys        \* "up"; "fault" after a NULL dereference or a failed assert,
                     \* "stale" after a use of a task that has been freed

vars == <<pc, state, kills, parent, primary, killq, since, ready, freed, target, any, waiting, sigd, waited, sys>>
queues == <<primary, killq, since, ready, freed>>
waits == <<target, any, waiting, sigd, waited>>

(***************************************************************************)
(* "new" is the child of a fork before, and "made" after, its insertion in *)
(* primary_queue.  "queued" is in tm_exit, in the kill queue, without      *)
(* TF_EXITING yet.  "dying" has TF_DYING and TASK_DEAD but still runs      *)
(* tm_schedule, "buried" has TF_BURIED too, "left" is no longer cpu->cur   *)
(* but has not switched stacks, "off" has.                                 *)
(***************************************************************************)
Exits == {"exit", "tell", "told", "fixed"}
Dead == {"dying", "buried", "left", "off"}
InCall == {"forking", "forked", "looked", "wait", "found", "pausing", "paused", "poll"}
States == {"running", "isleep", "usleep", "suicidal", "dead"}
Label == {"none", "new", "made", "user", "queued"} \cup InCall \cup Exits \cup Dead

Exiting(t) == pc[t] \in Exits \cup Dead    \* TF_EXITING
Buried(t) == pc[t] \in {"buried", "left", "off"}
IsDead(t) == state[t] = "dead"
Children(p) == {t \in primary : parent[t] = p}
Goto(t, l) == pc' = [pc EXCEPT ![t] = l]

Init ==
  /\ pc = [t \in Pids |-> IF t <= 1 THEN "user" ELSE "none"]
  /\ state = [t \in Pids |-> "running"]
  /\ kills = {}
  /\ parent = [t \in Pids |-> IF t = 1 THEN 0 ELSE Null]
  /\ primary = {0, 1}
  /\ killq = [t \in Pids |-> 0]
  /\ since = [t \in Pids |-> 0]
  /\ ready = {} /\ freed = {}
  /\ target = [t \in Pids |-> Null]
  /\ any = {}
  /\ waiting = [t \in Pids |-> Null]
  /\ sigd = {} /\ waited = {}
  /\ sys = "up"

\* A step of a task other than kernel_task, which neither forks nor exits here.
At(t, l) == sys = "up" /\ t # 0 /\ pc[t] = l

(***************************************************************************)
(* tm_do_fork: the child gets a pid and its parent, is put on              *)
(* primary_queue with TASK_USLEEP, and is made runnable.  A parent that is *)
(* killed on the way leaves the child as it is.                            *)
(***************************************************************************)
ForkCreate(t, c) ==
  /\ At(t, "user")
  /\ pc[c] = "none" /\ \A d \in Pids : d < c => pc[d] # "none"
  /\ pc' = [pc EXCEPT ![t] = "forking", ![c] = "new"]
  /\ parent' = [parent EXCEPT ![c] = t]
  /\ target' = [target EXCEPT ![t] = c]
  /\ UNCHANGED <<state, kills, queues, any, waiting, sigd, waited, sys>>
ForkInsert(t) ==
  LET c == target[t]
  IN  /\ At(t, "forking")
      /\ pc' = [pc EXCEPT ![t] = "forked", ![c] = "made"]
      /\ state' = [state EXCEPT ![c] = "usleep"]
      /\ primary' = primary \cup {c}
      /\ UNCHANGED <<kills, parent, killq, since, ready, freed, waits, sys>>
ForkRuns(t) ==
  LET c == target[t]
  IN  /\ At(t, "forked")
      /\ pc' = [pc EXCEPT ![t] = "user", ![c] = "user"]
      /\ state' = [state EXCEPT ![c] = "running"]
      /\ target' = [target EXCEPT ![t] = Null]
      /\ UNCHANGED <<kills, parent, queues, any, waiting, sigd, waited, sys>>

-----------------------------------------------------------------------------
\* __tm_remove_task_from_primary_queue, of a set of tasks.
Remove(T) == primary' = primary \ T /\ ready' = ready \cup T

(***************************************************************************)
(* tm_exit inserts the task in kill_queue and then raises TF_EXITING.  A   *)
(* task that is killed inside a call gets here from its next reschedule,   *)
(* and one that is rescheduled before it has raised the flag enters        *)
(* tm_exit once more (check_signals).  t->waiting keeps its value.         *)
(***************************************************************************)
Nodes == {d \in Pids \X (1 .. MaxNodes) : d[2] <= killq[d[1]]}
Exit(t) ==
  /\ \/ At(t, "user")
     \/ state[t] = "suicidal" /\ \E l \in InCall \cup {"queued"} : At(t, l)
  /\ killq[t] < MaxNodes
  /\ Goto(t, "queued")
  /\ killq' = [killq EXCEPT ![t] = @ + 1]
  /\ since' = [since EXCEPT ![t] = 1 + Cardinality(Nodes) + Cardinality(freed)]
  /\ target' = [target EXCEPT ![t] = Null]
  /\ any' = any \ {t}
  /\ UNCHANGED <<state, kills, parent, primary, ready, freed, waiting, sigd, waited, sys>>
RaiseExiting(t) ==
  /\ At(t, "queued")
  /\ Goto(t, "exit")
  /\ UNCHANGED <<state, kills, parent, queues, waits, sys>>

(***************************************************************************)
(* tm_do_send_signal of SIGKILL: the state is tested, and overwritten      *)
(* later through the pointer it was tested with; tm_kill_process looks the *)
(* task up once more.                                                      *)
(***************************************************************************)
KillTests(u) ==
  /\ sys = "up"
  /\ u \in (Killable \cap primary) \ kills
  /\ state[u] \notin {"dead", "suicidal"}
  /\ kills' = kills \cup {u}
  /\ UNCHANGED <<pc, state, parent, queues, waits, sys>>
KillWith(u, st) ==
  /\ sys = "up"
  /\ u \in kills
  /\ kills' = kills \ {u}
  /\ IF u \in freed THEN sys' = "stale" /\ UNCHANGED <<state, sigd>>
     ELSE state' = [state EXCEPT ![u] = st] /\ sigd' = sigd \ {u} /\ UNCHANGED sys
  /\ UNCHANGED <<pc, parent, queues, target, any, waiting, waited>>
\* Mutant: a state the scheduler does not know.
KillWrites_Stops(u) == KillWith(u, "stopped")
KillWrites(u) == KillWith(u, IF u \in primary THEN "suicidal" ELSE "running")

\* if(t->parent): the pointer is read once to test it, once more to use it.
TestParent(t) ==
  /\ At(t, "exit")
  /\ Goto(t, IF parent[t] = Null THEN "told" ELSE "tell")
  /\ UNCHANGED <<state, kills, parent, queues, waits, sys>>

(***************************************************************************)
(* tm_do_send_signal(t->parent->pid, SIGCHILD, 1), then the thread data.   *)
(* The signal is not sent to a task that is dead, killed or not found, or  *)
(* that masks it.                                                          *)
(***************************************************************************)
TellParent(t) ==
  /\ At(t, "tell")
  /\ IF parent[t] = Null THEN sys' = "fault" /\ UNCHANGED <<pc, sigd>>
     ELSE /\ Goto(t, "told")
          /\ \/ /\ parent[t] \in Callers \cap primary /\ state[parent[t]] \notin {"dead", "suicidal"}
                /\ sigd' = sigd \cup {parent[t]}
             \/ UNCHANGED sigd
          /\ UNCHANGED sys
  /\ UNCHANGED <<state, kills, parent, queues, target, any, waiting, waited>>

\* __tm_handle_signal of a program that runs: the handler is called, or the
\* signal ignored.
HandleSignal(t) ==
  /\ At(t, "user")
  /\ t \in sigd
  /\ sigd' = sigd \ {t}
  /\ UNCHANGED <<pc, state, kills, parent, queues, target, any, waiting, waited, sys>>

-----------------------------------------------------------------------------
(***************************************************************************)
(* tm_search_tqueue with TSEARCH_EXIT_PARENT and TSEARCH_EXIT_WAITING, with *)
(* the queue locked: the tasks that wait for t are given SIGWAIT and       *)
(* TASK_RUNNING, its children become orphans and the dead ones may be      *)
(* freed; and so may t if nobody can wait for it.                          *)
(***************************************************************************)
Alone(t) == parent[t] = Null \/ Exiting(parent[t])
Waiters(t) == {u \in primary : waiting[u] = t}
SearchWith(t, children, gone) ==
  /\ At(t, "told")
  /\ Goto(t, "fixed")
  /\ waiting' = [u \in Pids |-> IF u \in Waiters(t) THEN Null ELSE waiting[u]]
  /\ sigd' = sigd \cup Waiters(t)
  /\ state' = [u \in Pids |-> IF u \in Waiters(t) THEN "running" ELSE state[u]]
  /\ parent' = [u \in Pids |-> IF u \in children THEN Null ELSE parent[u]]
  /\ Remove(gone)
  /\ UNCHANGED <<kills, killq, since, freed, target, any, waited, sys>>
DeadChildren(t) == {u \in Children(t) \ Waiters(t) : IsDead(u)}
Itself(t) == IF Alone(t) THEN {t} ELSE {}
\* Mutant: a dead child keeps its parent pointer and is not removed.
Search_SkipsDead(t) == SearchWith(t, Children(t) \ DeadChildren(t), Itself(t))
\* Mutant: every child is removed, the running ones included.
Search_RemovesAll(t) == SearchWith(t, Children(t), Children(t) \cup Itself(t))
Search(t) == SearchWith(t, Children(t), DeadChildren(t) \cup Itself(t))

\* set_as_dead.
SetAsDead(t) ==
  /\ At(t, "fixed")
  /\ Goto(t, "dying")
  /\ state' = [state EXCEPT ![t] = "dead"]
  /\ UNCHANGED <<kills, parent, queues, waits, sys>>

\* tm_schedule of a dying task: TF_BURIED, then cpu->cur, then the stack.
Bury(t) ==
  /\ At(t, "dying")
  /\ IF IsDead(t) THEN Goto(t, "buried") /\ UNCHANGED sys
     ELSE sys' = "fault" /\ UNCHANGED pc    \* assert(old->state == TASK_DEAD)
  /\ UNCHANGED <<state, kills, parent, queues, waits>>
Switch(t, from, to) ==
  /\ At(t, from)
  /\ Goto(t, to)
  /\ UNCHANGED <<state, kills, parent, queues, waits, sys>>
SetCur(t) == Switch(t, "buried", "left")
ContextSwitch(t) == Switch(t, "left", "off")

-----------------------------------------------------------------------------
(***************************************************************************)
(* sys_waitpid.  The task is looked up once, with the queue locked: the    *)
(* first child for pid -1, the named one, a child or not, otherwise.  The  *)
(* pointer is used after the lock is dropped, and over every tm_schedule.  *)
(***************************************************************************)
Waitpid(t, u, all) ==
  /\ At(t, "user")
  /\ t \notin KTasks
  /\ u \in primary \ {0}
  /\ all => u \in Children(t) /\ \A v \in Children(t) : v <= u
  /\ Goto(t, "looked")
  /\ target' = [target EXCEPT ![t] = u]
  /\ any' = IF all THEN any \cup {t} ELSE any
  /\ UNCHANGED <<state, kills, parent, queues, waiting, sigd, waited, sys>>

WaitReturns(t) ==
  /\ Goto(t, "user")
  /\ target' = [target EXCEPT ![t] = Null]
  /\ any' = any \ {t}
  /\ UNCHANGED <<state, kills, parent, killq, since, freed, waiting, sigd, sys>>

\* t->parent != current_task, of a task that may have been freed by now.
WaitTest(t) ==
  /\ At(t, "looked")
  /\ \/ /\ target[t] \in freed
        /\ sys' = "stale"
        /\ UNCHANGED <<pc, state, kills, parent, queues, waits>>
     \/ /\ target[t] \notin freed /\ parent[target[t]] = t
        /\ Goto(t, "wait")
        /\ UNCHANGED <<state, kills, parent, queues, waits, sys>>
     \/ /\ target[t] \notin freed /\ parent[target[t]] # t
        /\ WaitReturns(t)
        /\ UNCHANGED <<primary, ready, waited>>

\* ECHILD; EINTR, which is tested before the child's state; or WNOHANG.
WaitGivesUp(t) ==
  /\ At(t, "wait")
  /\ WaitReturns(t)
  /\ UNCHANGED <<primary, ready, waited>>

\* The child is dead: only pid -1 takes it off the primary queue.
WaitStatusWith(t, removes) ==
  LET u == target[t]
  IN  /\ At(t, "wait")
      /\ parent[u] = t /\ IsDead(u)
      /\ WaitReturns(t)
      /\ Remove(IF removes THEN {u} ELSE {})
      /\ waited' = IF t \in any THEN waited \cup {u} ELSE waited
\* Mutant: the child stays in the primary queue.
WaitStatus_Keeps(t) == WaitStatusWith(t, FALSE)
WaitStatus(t) == WaitStatusWith(t, t \in any)

-----------------------------------------------------------------------------
\* tm_process_wait: the task is looked up, and then recorded in t->waiting.
ProcessWait(t, u) ==
  /\ At(t, "user")
  /\ t \in Callers
  /\ u \in primary \ {0, t}
  /\ Goto(t, "found")
  /\ target' = [target EXCEPT ![t] = u]
  /\ UNCHANGED <<state, kills, parent, queues, any, waiting, sigd, waited, sys>>

\* "pausing" for the state -1, "poll" for another one.
SetWaiting(t) ==
  /\ At(t, "found")
  /\ \E l \in {"pausing", "poll"} : Goto(t, l)
  /\ waiting' = [waiting EXCEPT ![t] = target[t]]
  /\ UNCHANGED <<state, kills, parent, queues, target, any, sigd, waited, sys>>

\* tm_process_pause; the scheduler runs a task that sleeps and has a signal.
Pause(t) ==
  /\ At(t, "pausing")
  /\ Goto(t, "paused")
  /\ state' = [state EXCEPT ![t] = "isleep"]
  /\ UNCHANGED <<kills, parent, queues, waits, sys>>

WaitEnds(t) ==
  /\ state' = [state EXCEPT ![t] = "running"]
  /\ Goto(t, "user")
  /\ target' = [target EXCEPT ![t] = Null]
  /\ sigd' = sigd \ {t}
  /\ UNCHANGED <<kills, parent, queues, any, waiting, waited, sys>>
PauseEnds(t) ==
  /\ At(t, "paused")
  /\ state[t] = "running" \/ (state[t] = "isleep" /\ t \in sigd)
  /\ WaitEnds(t)

\* The other states: the loop looks the pid up again, and ends when it is not
\* found, or has the state asked for, which a dead task has not.
PollEnds(t) ==
  /\ At(t, "poll")
  /\ state[t] # "suicidal"
  /\ target[t] \in primary => ~IsDead(target[t])
  /\ WaitEnds(t)

-----------------------------------------------------------------------------
(***************************************************************************)
(* __KT_try_releasing_tasks, called by the idle task: the first task of    *)
(* the kill queue that is buried, not current, and marked or an orphan.    *)
(* The parent is read whether or not it has been freed, and then anything  *)
(* may be found there.  One node of the task leaves the kill queue; a walk *)
(* that comes to a node of a freed task reads freed memory.                *)
(***************************************************************************)
OrphanTest(t) ==
  IF parent[t] = Null THEN {TRUE}
  ELSE IF parent[t] \in freed THEN BOOLEAN
  ELSE {IsDead(parent[t]) \/ parent[t] \in KTasks}
Gone(t) == Buried(t) /\ pc[t] # "buried"    \* t != t->cpu->cur
Skips(t) == t \in freed \/ ~Gone(t) \/ (t \notin ready /\ FALSE \in OrphanTest(t))
ReleaseWhen(t, ok) ==
  /\ Reaping /\ sys = "up"
  /\ killq[t] > 0 /\ t \notin freed /\ ok
  /\ \A u \in Pids : killq[u] > 0 /\ since[u] > since[t] => Skips(u)
  /\ Remove({t})
  /\ killq' = [killq EXCEPT ![t] = @ - 1]
  /\ freed' = freed \cup {t}
  \* What nothing reads again of the structure is forgotten.
  /\ state' = [state EXCEPT ![t] = "dead"]
  /\ since' = [since EXCEPT ![t] = 0]
  /\ waiting' = [waiting EXCEPT ![t] = Null]
  /\ UNCHANGED <<pc, kills, parent, target, any, sigd, waited, sys>>
Unneeded(t) == t \in ready \/ TRUE \in OrphanTest(t)
\* Mutant: the task is released whether or not its parent may wait for it.
Release_Needed(t) == ReleaseWhen(t, Gone(t))
\* Mutant: orphans are not looked for.
Release_Marked(t) == ReleaseWhen(t, Gone(t) /\ t \in ready)
Release(t) == ReleaseWhen(t, Gone(t) /\ Unneeded(t))
WalkReadsFreed(t) ==
  /\ Reaping /\ sys = "up"
  /\ killq[t] > 0 /\ t \in freed
  /\ sys' = "stale"
  /\ UNCHANGED <<pc, state, kills, parent, queues, waits>>

Next ==
  \/ \E t \in Pids :
       \/ KillTests(t) \/ KillWrites(t) \/ HandleSignal(t)
       \/ ForkInsert(t) \/ ForkRuns(t)
       \/ Exit(t) \/ RaiseExiting(t) \/ TestParent(t) \/ TellParent(t) \/ Search(t) \/ SetAsDead(t)
       \/ Bury(t) \/ SetCur(t) \/ ContextSwitch(t)
       \/ WaitTest(t) \/ WaitGivesUp(t) \/ WaitStatus(t)
       \/ SetWaiting(t) \/ Pause(t) \/ PauseEnds(t) \/ PollEnds(t)
       \/ Release(t) \/ WalkReadsFreed(t)
  \/ \E t, u \in Pids :
       \/ ForkCreate(t, u) \/ ProcessWait(t, u)
       \/ \E all \in BOOLEAN : Waitpid(t, u, all)

Spec == Init /\ [][Next]_vars

(***************************************************************************)
(* The scheduler runs every runnable task again, so that what a task has   *)
(* begun it goes on with; the idle task is one of them.  Programs need not *)
(* exit, fork or wait.                                                     *)
(***************************************************************************)
Proceeds(t) ==
  \/ ForkInsert(t) \/ ForkRuns(t)
  \/ RaiseExiting(t) \/ TestParent(t) \/ TellParent(t) \/ Search(t) \/ SetAsDead(t)
  \/ Bury(t) \/ SetCur(t) \/ ContextSwitch(t)
  \/ WaitTest(t) \/ WaitStatus(t)
  \/ SetWaiting(t) \/ Pause(t) \/ PauseEnds(t)
  \/ target[t] \notin primary /\ PollEnds(t)
Fairness ==
  /\ \A t \in Pids : WF_vars(Proceeds(t))
  /\ WF_vars(\E t \in Pids : Release(t))
FairSpec == Spec /\ Fairness

-----------------------------------------------------------------------------
\* Every variable has its type.
TypeOK ==
  /\ pc \in [Pids -> Label]
  /\ state \in [Pids -> States] /\ kills \subseteq Pids
  /\ parent \in [Pids -> Pids \cup {Null}]
  /\ primary \subseteq Pids /\ ready \subseteq Pids /\ freed \subseteq Pids
  /\ killq \in [Pids -> 0 .. MaxNodes]
  /\ since \in [Pids -> Nat]
  /\ target \in [Pids -> Pids \cup {Null}]
  /\ any \subseteq Pids
  /\ waiting \in [Pids -> Pids \cup {Null}]
  /\ sigd \subseteq Pids /\ waited \subseteq Pids
  /\ sys \in {"up", "fault", "stale"}

(***************************************************************************)
(* Every task that exists can be found where the code looks for it: in the *)
(* primary queue from its creation by fork until it is marked TF_KILLREADY *)
(* and only until then, and from its entry into tm_exit to its release in  *)
(* the kill queue.  A task that nobody kills is there exactly once, and    *)
(* not at all when it has been freed.                                      *)
(***************************************************************************)
OnKillQueue(t) == pc[t] \in {"queued"} \cup Exits \cup Dead /\ t \notin freed
InItsQueues ==
  \A t \in Pids :
    /\ t \in primary <=> pc[t] \notin {"none", "new"} /\ t \notin ready
    /\ OnKillQueue(t) => killq[t] > 0
    /\ killq[t] > 0 => OnKillQueue(t) \/ t \in Killable \cap freed
    /\ t \notin Killable => killq[t] <= 1
    /\ t \in ready => pc[t] \in {"fixed"} \cup Dead
    /\ t \in freed => t \in ready /\ pc[t] \in {"left", "off"}

(***************************************************************************)
(* As long as a task is in the primary queue its parent pointer is NULL or *)
(* leads to a task that has not searched the queue for its children yet:   *)
(* the second read of t->parent->flags in tm_search_tqueue and the test of *)
(* sys_waitpid never look at a task that is dead, let alone freed.         *)
(***************************************************************************)
ParentLives ==
  \A t \in primary : parent[t] # Null => pc[parent[t]] \notin {"fixed"} \cup Dead

(***************************************************************************)
(* The pointer sys_waitpid keeps over tm_schedule is good: the child stays *)
(* the caller's, and neither leaves the primary queue nor is freed while   *)
(* the caller is in the loop.                                              *)
(***************************************************************************)
WaiterHoldsChild ==
  \A t \in Pids :
    pc[t] = "wait" => target[t] \in primary \ freed /\ parent[target[t]] = t

\* wait(-1) returns the status of a child once: it takes the child away.
StatusOnce ==
  /\ waited \subseteq ready
  /\ \A t \in Pids : pc[t] = "wait" => target[t] \notin waited

(***************************************************************************)
(* A zombie is there for its parent to wait for: a task that has died      *)
(* stays in the primary queue and is not freed as long as its parent is    *)
(* neither exiting nor a kernel task, and has not taken its status with a  *)
(* wait(-1).                                                               *)
(***************************************************************************)
ZombieKept ==
  \A t \in Pids :
    /\ pc[t] \in Dead /\ t \notin waited
    /\ parent[t] \in Pids \ KTasks /\ ~Exiting(parent[t])
    => t \in primary \ freed

-----------------------------------------------------------------------------
(***************************************************************************)
(* A dead task that is marked, or that nobody can wait for, is released:   *)
(* whatever is in front of it in the kill queue, and in whatever order it  *)
(* and its parent died.                                                    *)
(***************************************************************************)
Forgotten(t) == pc[t] \in Dead /\ (t \in ready \/ parent[t] \in KTasks \cup {Null})
Released == \A t \in Pids \ {0} : Forgotten(t) ~> (t \in freed \/ sys # "up")
=============================================================================
