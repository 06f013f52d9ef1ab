---------------------------- MODULE ProcessProofs ----------------------------
(***************************************************************************)
(* The safety properties of Process, proved for every number of pids and   *)
(* every set of kernel, waiting and killable tasks.  They need each other: *)
(* a child stays its waiting parent's because a release asks for a mark or *)
(* an orphan, and the marks go with the queues.                            *)
(***************************************************************************)
EXTENDS Process, FiniteSetTheorems, TLAPS

\* Only a task that has been through set_as_dead has the state TASK_DEAD.
DeadState == \A t \in Pids : state[t] = "dead" => pc[t] \in Dead

\* kernel_task neither waits nor exits.
KernelRuns == pc[0] = "user"

\* Only a task that is sent a SIGKILL gets TASK_SUICIDAL, and with it a second way
\* into tm_exit.
Unkilled ==
  /\ kills \subseteq Killable
  /\ \A t \in Pids : state[t] = "suicidal" => t \in Killable

\* A fork has its child to itself until the child runs.
Forks ==
  \A t \in Pids :
    /\ pc[t] = "forking" => target[t] \in Pids /\ pc[target[t]] = "new" /\ parent[target[t]] = t
    /\ pc[t] = "forked" => target[t] \in Pids /\ pc[target[t]] = "made" /\ parent[target[t]] = t

\* What sys_waitpid has looked up exists, and cannot leave the primary queue as long
\* as it is a child of the caller.
Held ==
  \A t \in Pids :
    pc[t] \in {"looked", "wait"} =>
      /\ t \notin KTasks /\ target[t] \in Pids
      /\ pc[target[t]] \notin {"none", "new"}
      /\ parent[target[t]] = t => target[t] \in primary

\* The task has searched the queue for its children.
Past(t) == pc[t] \in {"fixed"} \cup Dead

\* A task that has searched the queue stays there for a parent that may wait.
Kept ==
  \A t \in Pids :
    /\ Past(t) /\ t \notin waited
    /\ parent[t] \in Pids \ KTasks /\ ~Exiting(parent[t])
    => t \in primary

\* The inductive invariant: the queues, the parents, the calls, the states.
IInv ==
  /\ TypeOK /\ InItsQueues /\ ParentLives /\ WaiterHoldsChild /\ StatusOnce
  /\ DeadState /\ KernelRuns /\ Unkilled /\ Forks /\ Held /\ Kept

\* The labels between the insertion in kill_queue and the end.
InExit(t) == pc[t] \in {"queued"} \cup Exits \cup Dead

\* The labels at which a call holds the pointer it has looked up.
Holding == {"forking", "forked", "looked", "wait"}

(***************************************************************************)
(* What most steps have in common: the queues, the marks and the parents   *)
(* stay, and no task enters tm_exit, passes its search, begins to wait for *)
(* a child, or becomes dead without having been set so.                    *)
(***************************************************************************)
Quiet ==
  /\ UNCHANGED <<parent, primary, killq, ready, freed, waited>>
  /\ kills' \subseteq Killable
  /\ \A u \in Pids :
       /\ pc[u] \in {"none", "new", "made", "off"} => pc'[u] = pc[u]
       /\ pc[u] = "left" => pc'[u] \in {"left", "off"}
       /\ pc'[u] \in {"none", "new", "made"} => pc'[u] = pc[u]
       /\ InExit(u)' <=> InExit(u)
       /\ Exiting(u) => Exiting(u)'
       /\ Past(u)' <=> Past(u)
       /\ pc'[u] \in Holding => pc'[u] = pc[u] /\ target'[u] = target[u]
       /\ state'[u] = "dead" => pc'[u] \in Dead
       /\ state'[u] = "suicidal" => u \in Killable
  /\ pc'[0] = pc[0]

\* kernel_task has a pid, and a pid is not the null pointer.
LEMMA NullIsNoPid == 0 \in Pids /\ Null \notin Pids
  BY ProcessAssumption DEF Null, Pids

\* The place of a task in the kill queue is a number: tm_exit counts nodes.
LEMMA OrderIsNat ==
  ASSUME TypeOK
  PROVE  1 + Cardinality(Nodes) + Cardinality(freed) \in Nat
  <1>1. IsFiniteSet(0 .. MaxPid) /\ IsFiniteSet(1 .. MaxNodes)
    BY ProcessAssumption, FS_Interval
  <1>2. IsFiniteSet(Pids \X (1 .. MaxNodes))
    BY <1>1, FS_Product DEF Pids
  <1>3. Cardinality(Nodes) \in Nat
    <2>1. Nodes \subseteq Pids \X (1 .. MaxNodes)
      BY DEF Nodes
    <2> QED
      BY <1>2, <2>1, FS_Subset, FS_CardinalityType
  <1>4. Cardinality(freed) \in Nat
    BY <1>1, FS_Subset, FS_CardinalityType DEF TypeOK, Pids
  <1> QED
    BY <1>3, <1>4

\* A step that touches neither the queues nor the parents keeps the invariant.
LEMMA QuietKeeps ==
  ASSUME IInv, TypeOK', Quiet
  PROVE  IInv'
  <1>1. InItsQueues'
    <2>1. ASSUME NEW t \in Pids
          PROVE  /\ (pc'[t] \in {"none", "new"}) <=> (pc[t] \in {"none", "new"})
                 /\ InExit(t)' <=> InExit(t)
                 /\ Past(t)' <=> Past(t)
                 /\ pc[t] \in {"left", "off"} => pc'[t] \in {"left", "off"}
      BY <2>1 DEF Quiet
    <2> QED
      BY <2>1 DEF IInv, InItsQueues, OnKillQueue, Quiet, Past, InExit
  <1>2. ParentLives'
    BY DEF IInv, TypeOK, ParentLives, Quiet, Past
  <1>3. WaiterHoldsChild' /\ StatusOnce'
    BY DEF IInv, WaiterHoldsChild, StatusOnce, Quiet, Holding
  <1>4. DeadState' /\ KernelRuns' /\ Unkilled'
    BY DEF IInv, DeadState, KernelRuns, Unkilled, Quiet
  <1>5. Forks'
    BY DEF IInv, Forks, Quiet, Holding
  <1>6. Held'
    BY DEF IInv, Held, Quiet, Holding
  <1>7. Kept'
    BY DEF IInv, Kept, Quiet
  <1> QED
    BY <1>1, <1>2, <1>3, <1>4, <1>5, <1>6, <1>7 DEF IInv

\* The child a waiting task holds is in the primary queue, unmarked, and the task is
\* neither a kernel task nor dead: sys_waitpid can be interrupted but not orphaned.
LEMMA WaiterIsAlive ==
  ASSUME IInv, NEW t \in Pids, pc[t] \in {"looked", "wait"}, parent[target[t]] = t
  PROVE  /\ target[t] \in (primary \ ready) \ freed /\ target[t] \in Pids
         /\ t \notin KTasks /\ state[t] # "dead" /\ ~Exiting(t) /\ t \notin freed
  <1>1. target[t] \in primary /\ target[t] \in Pids /\ t \notin KTasks
    BY DEF IInv, Held
  <1>2. target[t] \notin ready /\ target[t] \notin freed
    BY <1>1 DEF IInv, InItsQueues
  <1>3. t \notin freed
    BY DEF IInv, InItsQueues
  <1> QED
    BY <1>1, <1>2, <1>3 DEF IInv, DeadState, Exiting, Exits, Dead

-----------------------------------------------------------------------------
\* The two halves of a SIGKILL (tm_do_send_signal), and a handled signal, are quiet.
LEMMA SignalStep ==
  ASSUME IInv, NEW t \in Pids, KillTests(t) \/ KillWrites(t) \/ HandleSignal(t)
  PROVE  IInv'
  <1> USE DEF waits, queues
  <1>1. TypeOK'
    BY DEF IInv, TypeOK, States, KillTests, KillWrites, KillWith, HandleSignal
  <1>2. /\ UNCHANGED <<pc, parent, primary, killq, ready, freed, target, waited>>
        /\ kills' \subseteq Killable
    BY DEF IInv, Unkilled, KillTests, KillWrites, KillWith, HandleSignal
  <1>3. ASSUME NEW u \in Pids
        PROVE  /\ state'[u] = "dead" => state[u] = "dead"
               /\ state'[u] = "suicidal" => u \in Killable
    BY <1>3 DEF IInv, TypeOK, Unkilled, KillTests, KillWrites, KillWith, HandleSignal
  <1>4. Quiet
    BY <1>2, <1>3 DEF IInv, DeadState, Quiet, Past, Exiting, InExit
  <1> QED
    BY <1>1, <1>4, QuietKeeps

\* A step of one task among the labels of one stage.
LEMMA OneMoves ==
  ASSUME IInv, NEW t \in Pids, NEW l \in Label, t # 0,
         pc' = [pc EXCEPT ![t] = l],
         UNCHANGED <<kills, parent, primary, killq, ready, freed, waited>>,
         pc[t] \notin {"none", "new", "made", "off"}, l \notin {"none", "new", "made"},
         pc[t] = "left" => l = "off",
         l \in {"queued"} \cup Exits \cup Dead <=> pc[t] \in {"queued"} \cup Exits \cup Dead,
         pc[t] \in Exits \cup Dead => l \in Exits \cup Dead,
         l \in {"fixed"} \cup Dead <=> pc[t] \in {"fixed"} \cup Dead,
         l \notin Holding,
         \A u \in Pids : u # t => target'[u] = target[u],
         \A u \in Pids : state'[u] = "dead" => state[u] = "dead" \/ (u = t /\ l \in Dead),
         pc[t] \in Dead => l \in Dead,
         \A u \in Pids : state'[u] = "suicidal" => state[u] = "suicidal"
  PROVE  Quiet
  <1>1. ASSUME NEW u \in Pids
        PROVE  pc'[u] = IF u = t THEN l ELSE pc[u]
    BY <1>1 DEF IInv, TypeOK
  <1>2. ASSUME NEW u \in Pids
        PROVE  /\ pc[u] \in {"none", "new", "made", "off"} => pc'[u] = pc[u]
               /\ pc[u] = "left" => pc'[u] \in {"left", "off"}
               /\ pc'[u] \in {"none", "new", "made"} => pc'[u] = pc[u]
               /\ pc'[u] \in Holding => pc'[u] = pc[u] /\ target'[u] = target[u]
    BY <1>1, <1>2
  <1>3. ASSUME NEW u \in Pids
        PROVE  /\ InExit(u)' <=> InExit(u)
               /\ Exiting(u) => Exiting(u)'
               /\ Past(u)' <=> Past(u)
    BY <1>1, <1>3 DEF InExit, Exiting, Past
  <1>4. ASSUME NEW u \in Pids
        PROVE  /\ state'[u] = "dead" => pc'[u] \in Dead
               /\ state'[u] = "suicidal" => u \in Killable
    BY <1>1, <1>4 DEF IInv, DeadState, Unkilled
  <1>5. pc'[0] = pc[0] /\ kills' \subseteq Killable
    BY ProcessAssumption DEF IInv, TypeOK, Unkilled, Pids
  <1> QED
    BY <1>2, <1>3, <1>4, <1>5 DEF Quiet

\* The steps of a task that exits, but for its entry and its search, are quiet: the
\* flag is raised, the parent is told, the task becomes dead, is buried and left.
LEMMA ExitingStep ==
  ASSUME IInv, NEW t \in Pids,
         \/ RaiseExiting(t) \/ TestParent(t) \/ TellParent(t) \/ SetAsDead(t)
         \/ Bury(t) \/ SetCur(t) \/ ContextSwitch(t)
  PROVE  IInv'
  <1> USE DEF At, Goto, waits, queues, Switch
  <1>1. TypeOK'
    <2> USE DEF IInv, TypeOK, States, Label, InCall, Exits, Dead
    <2>1. CASE RaiseExiting(t) \/ TestParent(t) \/ SetAsDead(t) \/ SetCur(t) \/ ContextSwitch(t)
      BY <2>1 DEF RaiseExiting, TestParent, SetAsDead, SetCur, ContextSwitch
    <2>2. CASE TellParent(t)
      BY <2>2 DEF TellParent
    <2>3. CASE Bury(t)
      BY <2>3 DEF Bury
    <2> QED
      BY <2>1, <2>2, <2>3
  <1>2. CASE pc' = pc
    <2>1. UNCHANGED <<pc, state, kills, parent, primary, killq, ready, freed, target, waited>>
      BY <1>2 DEF IInv, TypeOK, RaiseExiting, TestParent, TellParent, SetAsDead, Bury, SetCur, ContextSwitch
    <2>2. Quiet
      BY <2>1 DEF IInv, DeadState, Unkilled, Quiet, Past, Exiting, InExit
    <2> QED
      BY <1>1, <2>2, QuietKeeps
  <1>3. CASE pc' # pc
    <2>1. /\ t # 0 /\ UNCHANGED <<kills, parent, primary, killq, ready, freed, target, waited>>
          /\ \/ pc[t] = "queued" /\ pc' = [pc EXCEPT ![t] = "exit"] /\ state' = state
             \/ pc[t] = "exit" /\ pc' = [pc EXCEPT ![t] = "told"] /\ state' = state
             \/ pc[t] = "exit" /\ pc' = [pc EXCEPT ![t] = "tell"] /\ state' = state
             \/ pc[t] = "tell" /\ pc' = [pc EXCEPT ![t] = "told"] /\ state' = state
             \/ pc[t] = "fixed" /\ pc' = [pc EXCEPT ![t] = "dying"] /\ state' = [state EXCEPT ![t] = "dead"]
             \/ pc[t] = "dying" /\ pc' = [pc EXCEPT ![t] = "buried"] /\ state' = state
             \/ pc[t] = "buried" /\ pc' = [pc EXCEPT ![t] = "left"] /\ state' = state
             \/ pc[t] = "left" /\ pc' = [pc EXCEPT ![t] = "off"] /\ state' = state
      BY <1>3 DEF RaiseExiting, TestParent, TellParent, SetAsDead, Bury, SetCur, ContextSwitch
    <2> DEFINE l == pc'[t]
    <2>2. /\ pc' = [pc EXCEPT ![t] = l]
          /\ \/ pc[t] = "queued" /\ l = "exit"
             \/ pc[t] \in {"exit", "tell"} /\ l \in {"told", "tell"}
             \/ pc[t] = "fixed" /\ l = "dying"
             \/ pc[t] = "dying" /\ l = "buried"
             \/ pc[t] = "buried" /\ l = "left"
             \/ pc[t] = "left" /\ l = "off"
          /\ state' = state \/ (state' = [state EXCEPT ![t] = "dead"] /\ l = "dying")
      BY <2>1 DEF IInv, TypeOK
    <2> HIDE DEF l
    <2>3. \A u \in Pids : /\ state'[u] = "dead" => state[u] = "dead" \/ (u = t /\ l \in Dead)
                          /\ state'[u] = "suicidal" => state[u] = "suicidal"
      BY <2>2 DEF IInv, TypeOK, Dead
    <2>4. Quiet
      BY <2>1, <2>2, <2>3, OneMoves DEF Label, InCall, Exits, Dead, Holding
    <2> QED
      BY <1>1, <2>4, QuietKeeps
  <1> QED
    BY <1>2, <1>3

\* Waiting for any task (tm_process_wait), the lookup of sys_waitpid that finds no
\* child of the caller, and a waitpid that gives up, are quiet.
LEMMA WaitingStep ==
  ASSUME IInv, NEW t \in Pids, NEW u \in Pids,
         \/ ProcessWait(t, u) \/ SetWaiting(t) \/ Pause(t)
         \/ PauseEnds(t) \/ PollEnds(t) \/ WaitGivesUp(t)
  PROVE  IInv'
  <1> USE DEF At, Goto, waits, queues, WaitEnds, WaitReturns
  <1>1. TypeOK'
    BY DEF IInv, TypeOK, States, Label, InCall, Exits, Dead, ProcessWait, SetWaiting, Pause, PauseEnds, PollEnds, WaitGivesUp
  <1>2. /\ t # 0 /\ UNCHANGED <<kills, parent, primary, killq, ready, freed, waited>>
        /\ \E l \in {"found", "pausing", "poll", "paused", "user"} : pc' = [pc EXCEPT ![t] = l]
        /\ pc[t] \in {"user", "found", "pausing", "paused", "poll", "wait"}
    BY DEF ProcessWait, SetWaiting, Pause, PauseEnds, PollEnds, WaitGivesUp
  <1>3. ASSUME NEW v \in Pids
        PROVE  /\ v # t => target'[v] = target[v]
               /\ state'[v] = "dead" => state[v] = "dead"
               /\ state'[v] = "suicidal" => state[v] = "suicidal"
    BY <1>3 DEF IInv, TypeOK, ProcessWait, SetWaiting, Pause, PauseEnds, PollEnds, WaitGivesUp
  <1>4. PICK l \in {"found", "pausing", "poll", "paused", "user"} : pc' = [pc EXCEPT ![t] = l]
    BY <1>2
  <1>5. Quiet
    BY <1>2, <1>3, <1>4, OneMoves DEF Label, InCall, Exits, Dead, Holding
  <1> QED
    BY <1>1, <1>5, QuietKeeps

\* tm_do_fork gives the child a pid and its parent: a task no queue knows yet.
LEMMA ForkCreateStep ==
  ASSUME IInv, NEW t \in Pids, NEW c \in Pids, ForkCreate(t, c)
  PROVE  IInv'
  <1>0. /\ pc[t] = "user" /\ pc[c] = "none" /\ t # 0 /\ t # c
        /\ pc' = [pc EXCEPT ![t] = "forking", ![c] = "new"]
        /\ parent' = [parent EXCEPT ![c] = t] /\ target' = [target EXCEPT ![t] = c]
        /\ UNCHANGED <<state, kills, primary, killq, since, ready, freed, any, waiting, sigd, waited, sys>>
    BY DEF ForkCreate, At, queues
  <1> USE <1>0 DEF IInv, TypeOK
  <1>1. TypeOK'
    BY DEF Label, InCall
  <1>2. InItsQueues'
    BY DEF InItsQueues, OnKillQueue, Exits, Dead
  <1>3. ParentLives'
    BY DEF ParentLives, InItsQueues, Exits, Dead
  <1>4. WaiterHoldsChild' /\ StatusOnce'
    BY DEF WaiterHoldsChild, StatusOnce, InItsQueues
  <1>5. DeadState' /\ KernelRuns' /\ Unkilled'
    BY NullIsNoPid DEF DeadState, KernelRuns, Unkilled, Dead
  <1>6. Forks'
    BY DEF Forks
  <1>7. Held'
    BY DEF Held
  <1>8. Kept'
    BY DEF Kept, Past, Exiting, Exits, Dead
  <1> QED
    BY <1>1, <1>2, <1>3, <1>4, <1>5, <1>6, <1>7, <1>8

\* tm_do_fork inserts the child in the primary queue.
LEMMA ForkInsertStep ==
  ASSUME IInv, NEW t \in Pids, ForkInsert(t)
  PROVE  IInv'
  <1> DEFINE c == target[t]
  <1>0. /\ pc[t] = "forking" /\ pc[c] = "new" /\ c \in Pids /\ t # 0 /\ t # c /\ parent[c] = t
        /\ pc' = [pc EXCEPT ![t] = "forked", ![c] = "made"]
        /\ state' = [state EXCEPT ![c] = "usleep"] /\ primary' = primary \cup {c}
        /\ UNCHANGED <<parent, kills, killq, since, ready, freed, target, any, waiting, sigd, waited, sys>>
    BY DEF ForkInsert, At, waits, IInv, Forks
  <1> HIDE DEF c
  <1>a. target[t] = c
    BY DEF c
  <1> USE <1>0 DEF IInv, TypeOK
  <1>1. TypeOK'
    BY DEF Label, InCall, States
  <1>2. InItsQueues'
    BY DEF InItsQueues, OnKillQueue, Exits, Dead
  <1>3. ParentLives'
    BY DEF ParentLives, InItsQueues, Exits, Dead
  <1>4. WaiterHoldsChild' /\ StatusOnce'
    BY DEF WaiterHoldsChild, StatusOnce
  <1>5. DeadState' /\ KernelRuns' /\ Unkilled'
    BY NullIsNoPid DEF DeadState, KernelRuns, Unkilled, Dead
  <1>6. Forks'
    BY <1>a DEF Forks
  <1>7. Held'
    BY DEF Held
  <1>8. Kept'
    BY DEF Kept, Past, Exiting, Exits, Dead
  <1> QED
    BY <1>1, <1>2, <1>3, <1>4, <1>5, <1>6, <1>7, <1>8

\* tm_do_fork makes the child run.
LEMMA ForkRunsStep ==
  ASSUME IInv, NEW t \in Pids, ForkRuns(t)
  PROVE  IInv'
  <1> DEFINE c == target[t]
  <1>0. /\ pc[t] = "forked" /\ pc[c] = "made" /\ c \in Pids /\ t # 0 /\ t # c /\ parent[c] = t
        /\ pc' = [pc EXCEPT ![t] = "user", ![c] = "user"]
        /\ state' = [state EXCEPT ![c] = "running"]
        /\ target' = [target EXCEPT ![t] = Null]
        /\ UNCHANGED <<parent, kills, primary, killq, since, ready, freed, any, waiting, sigd, waited, sys>>
    BY DEF ForkRuns, At, queues, IInv, Forks
  <1> HIDE DEF c
  <1> USE <1>0 DEF IInv, TypeOK
  <1>1. TypeOK'
    BY DEF Label, InCall, States
  <1>2. InItsQueues'
    BY DEF InItsQueues, OnKillQueue, Exits, Dead
  <1>3. ParentLives'
    BY DEF ParentLives, InItsQueues, Exits, Dead
  <1>4. WaiterHoldsChild' /\ StatusOnce'
    BY DEF WaiterHoldsChild, StatusOnce
  <1>5. DeadState' /\ KernelRuns' /\ Unkilled'
    BY NullIsNoPid DEF DeadState, KernelRuns, Unkilled, Dead
  <1>6. Forks'
    BY DEF Forks
  <1>7. Held'
    BY DEF Held
  <1>8. Kept'
    BY DEF Kept, Past, Exiting, Exits, Dead
  <1> QED
    BY <1>1, <1>2, <1>3, <1>4, <1>5, <1>6, <1>7, <1>8

\* tm_exit puts the task on the kill queue: a second time only if it was killed.
LEMMA ExitStep ==
  ASSUME IInv, NEW t \in Pids, Exit(t)
  PROVE  IInv'
  <1> DEFINE n == 1 + Cardinality(Nodes) + Cardinality(freed)
  <1>0. n \in Nat
    BY OrderIsNat DEF IInv
  <1>b. since' = [since EXCEPT ![t] = n]
    BY DEF Exit
  <1> HIDE DEF n
  <1>a. /\ t # 0 /\ pc' = [pc EXCEPT ![t] = "queued"] /\ killq[t] < MaxNodes
        /\ pc[t] \in {"user"} \cup InCall \/ (pc[t] = "queued" /\ t \in Killable)
    BY DEF Exit, At, Goto, IInv, Unkilled
  <1>c. /\ killq' = [killq EXCEPT ![t] = @ + 1]
        /\ target' = [target EXCEPT ![t] = Null] /\ any' = any \ {t}
        /\ UNCHANGED <<state, kills, parent, primary, ready, freed, waiting, sigd, waited, sys>>
    BY DEF Exit
  <1> USE <1>a, <1>c DEF IInv, TypeOK
  <1>1. TypeOK'
    BY <1>0, <1>b, ProcessAssumption DEF Label
  <1>2. InItsQueues'
    <2>1. killq[t] \in Nat /\ killq'[t] = killq[t] + 1 /\ t \notin freed /\ t \notin ready
      BY ProcessAssumption DEF InItsQueues, InCall, Exits, Dead
    <2>2. t \notin Killable => killq[t] = 0
      BY <2>1 DEF InItsQueues, OnKillQueue, InCall, Exits, Dead
    <2>3. ASSUME NEW u \in Pids, u # t
          PROVE  pc'[u] = pc[u] /\ killq'[u] = killq[u]
      BY <2>3
    <2>4. pc'[t] = "queued" /\ pc[t] \notin {"none", "new"}
      BY DEF InCall
    <2> QED
      BY <2>1, <2>2, <2>3, <2>4 DEF InItsQueues, OnKillQueue, Exits, Dead
  <1>3. ParentLives'
    BY DEF ParentLives, Dead
  <1>4. WaiterHoldsChild' /\ StatusOnce'
    BY DEF WaiterHoldsChild, StatusOnce
  <1>5. DeadState' /\ KernelRuns' /\ Unkilled'
    BY DEF DeadState, KernelRuns, Unkilled, InCall, Dead
  <1>6. Forks'
    BY DEF Forks, InCall
  <1>7. Held'
    BY DEF Held, InCall
  <1>8. Kept'
    BY DEF Kept, Past, Exiting, InCall, Exits, Dead
  <1> QED
    BY <1>1, <1>2, <1>3, <1>4, <1>5, <1>6, <1>7, <1>8

\* The search of a task that exits (tm_search_tqueue): the children it orphans are no
\* other task's, those it removes are dead, and nobody waits for the task if it
\* removes itself.
LEMMA SearchStep ==
  ASSUME IInv, NEW t \in Pids, Search(t)
  PROVE  IInv'
  <1> DEFINE kids == Children(t)  gone == DeadChildren(t) \cup Itself(t)
  <1>a. /\ t # 0 /\ pc[t] = "told" /\ pc' = [pc EXCEPT ![t] = "fixed"]
        /\ parent' = [u \in Pids |-> IF u \in kids THEN Null ELSE parent[u]]
        /\ primary' = primary \ gone /\ ready' = ready \cup gone
        /\ UNCHANGED <<kills, killq, since, freed, target, any, waited, sys>>
    BY DEF Search, SearchWith, At, Goto, Remove
  <1>b. /\ waiting' = [u \in Pids |-> IF u \in Waiters(t) THEN Null ELSE waiting[u]]
        /\ sigd' = sigd \cup Waiters(t) /\ Waiters(t) \subseteq Pids
        /\ state' = [u \in Pids |-> IF u \in Waiters(t) THEN "running" ELSE state[u]]
    BY DEF Search, SearchWith, Waiters, IInv, TypeOK
  <1>c. \A u \in Pids : u \in kids <=> u \in primary /\ parent[u] = t
    BY DEF Children
  <1>d. \A u \in gone : \/ u \in kids /\ pc[u] \in Dead
                        \/ u = t /\ (parent[t] = Null \/ Exiting(parent[t]))
    BY DEF DeadChildren, Itself, Alone, IsDead, IInv, DeadState, TypeOK, Children
  <1>e. gone \subseteq Pids /\ kids \subseteq Pids
    BY DEF DeadChildren, Itself, Children, IInv, TypeOK
  <1>f. t \in gone <=> parent[t] = Null \/ Exiting(parent[t])
    BY <1>a DEF DeadChildren, Itself, Alone, IsDead, IInv, DeadState, Dead
  <1> HIDE DEF kids, gone
  <1> USE <1>a DEF IInv, TypeOK
  <1>1. TypeOK'
    BY <1>b, <1>e DEF States, Label, Exits
  <1>2. InItsQueues'
    BY <1>c, <1>d, <1>e DEF InItsQueues, OnKillQueue, Exits, Dead
  <1>3. ParentLives'
    BY <1>c, <1>e, NullIsNoPid DEF ParentLives
  <1>4. WaiterHoldsChild'
    <2> SUFFICES ASSUME NEW w \in Pids, pc'[w] = "wait"
                 PROVE  target'[w] \in primary' \ freed' /\ parent'[target'[w]] = w
      BY DEF WaiterHoldsChild
    <2>1. w # t /\ pc[w] = "wait" /\ target'[w] = target[w]
      OBVIOUS
    <2>2. target[w] \in primary /\ target[w] \notin freed /\ target[w] \in Pids /\ parent[target[w]] = w
      BY <2>1 DEF WaiterHoldsChild
    <2>3. target[w] \notin kids
      BY <1>c, <2>1, <2>2
    <2>4. target[w] \notin gone
      BY <1>d, <2>1, <2>2, <2>3, NullIsNoPid DEF Exiting, Exits, Dead
    <2> QED
      BY <2>1, <2>2, <2>3, <2>4
  <1>5. StatusOnce'
    BY DEF StatusOnce
  <1>6. DeadState' /\ KernelRuns' /\ Unkilled'
    BY <1>b DEF DeadState, KernelRuns, Unkilled, Dead
  <1>7. Forks'
    BY <1>c DEF Forks, InItsQueues
  <1>8. Held'
    <2> SUFFICES ASSUME NEW w \in Pids, pc'[w] \in {"looked", "wait"}
                 PROVE  /\ w \notin KTasks /\ target'[w] \in Pids
                        /\ pc'[target'[w]] \notin {"none", "new"}
                        /\ parent'[target'[w]] = w => target'[w] \in primary'
      BY DEF Held
    <2>1. w # t /\ pc[w] \in {"looked", "wait"} /\ target'[w] = target[w]
      OBVIOUS
    <2>2. /\ w \notin KTasks /\ target[w] \in Pids /\ pc[target[w]] \notin {"none", "new"}
          /\ parent[target[w]] = w => target[w] \in primary
      BY <2>1 DEF Held
    <2>3. pc'[target'[w]] \notin {"none", "new"}
      BY <2>1, <2>2
    <2>4. ASSUME parent'[target[w]] = w PROVE target[w] \in primary'
      <3>1. target[w] \notin kids /\ parent[target[w]] = w
        BY <2>2, <2>4, NullIsNoPid
      <3>2. target[w] \notin gone
        BY <1>d, <2>1, <3>1, NullIsNoPid DEF Exiting, Exits, Dead
      <3> QED
        BY <2>2, <3>1, <3>2
    <2> QED
      BY <2>1, <2>2, <2>3, <2>4
  <1>9. Kept'
    <2> SUFFICES ASSUME NEW u \in Pids, Past(u)', u \notin waited', parent'[u] \in Pids \ KTasks,
                        pc'[parent'[u]] \notin Exits \cup Dead
                 PROVE  u \in primary'
      BY DEF Kept, Exiting
    <2>1. parent'[u] = parent[u] /\ u \notin kids
      BY NullIsNoPid
    <2>2. ~Exiting(parent[u]) /\ parent[u] \in Pids \ KTasks
      BY <2>1 DEF Exiting, Exits, Dead
    <2>3. CASE u = t
      BY <1>f, <2>2, <2>3, NullIsNoPid DEF InItsQueues, Dead
    <2>4. CASE u # t
      <3>1. u \in primary
        BY <2>2, <2>4 DEF Kept, Past
      <3> QED
        BY <1>d, <2>1, <2>4, <3>1
    <2> QED
      BY <2>3, <2>4
  <1> QED
    BY <1>1, <1>2, <1>3, <1>4, <1>5, <1>6, <1>7, <1>8, <1>9

\* sys_waitpid looks a task up in the primary queue.
LEMMA WaitpidStep ==
  ASSUME IInv, NEW t \in Pids, NEW u \in Pids, NEW all \in BOOLEAN, Waitpid(t, u, all)
  PROVE  IInv'
  <1>0. /\ t # 0 /\ pc[t] = "user" /\ pc' = [pc EXCEPT ![t] = "looked"]
        /\ t \notin KTasks /\ u \in primary /\ target' = [target EXCEPT ![t] = u]
        /\ any' \in {any, any \cup {t}}
        /\ UNCHANGED <<state, kills, parent, primary, killq, since, ready, freed, waiting, sigd, waited, sys>>
    BY DEF Waitpid, At, Goto, queues
  <1> USE <1>0 DEF IInv, TypeOK
  <1>1. TypeOK'
    BY DEF Label, InCall
  <1>2. InItsQueues'
    BY DEF InItsQueues, OnKillQueue, Exits, Dead
  <1>3. ParentLives'
    BY DEF ParentLives, Dead
  <1>4. WaiterHoldsChild' /\ StatusOnce'
    BY DEF WaiterHoldsChild, StatusOnce
  <1>5. DeadState' /\ KernelRuns' /\ Unkilled'
    BY NullIsNoPid DEF DeadState, KernelRuns, Unkilled, Dead
  <1>6. Forks'
    BY DEF Forks
  <1>7. Held'
    BY DEF Held, InItsQueues
  <1>8. Kept'
    BY DEF Kept, Past, Exiting, Exits, Dead
  <1> QED
    BY <1>1, <1>2, <1>3, <1>4, <1>5, <1>6, <1>7, <1>8

\* The test of the parent in sys_waitpid: what passes it is a child that the queue
\* still holds.
LEMMA WaitTestStep ==
  ASSUME IInv, NEW t \in Pids, WaitTest(t)
  PROVE  IInv'
  <1> USE DEF At, Goto, waits, queues, WaitReturns
  <1>0. pc[t] = "looked" /\ t # 0
    BY DEF WaitTest
  <1>1. TypeOK'
    BY DEF IInv, TypeOK, Label, InCall, WaitTest
  <1>2. CASE UNCHANGED <<pc, state, kills, parent, primary, killq, since, ready, freed, target, any, waiting, sigd, waited>>
    <2>1. Quiet
      BY <1>2 DEF IInv, DeadState, Unkilled, Quiet, Past, Exiting, InExit
    <2> QED
      BY <1>1, <2>1, QuietKeeps
  <1>3. CASE /\ pc' = [pc EXCEPT ![t] = "user"] /\ target' = [target EXCEPT ![t] = Null]
             /\ UNCHANGED <<state, kills, parent, primary, killq, ready, freed, waited>>
    <2>1. \A u \in Pids : u # t => target'[u] = target[u]
      BY <1>3 DEF IInv, TypeOK
    <2>2. Quiet
      BY <1>0, <1>3, <2>1, OneMoves DEF Label, InCall, Exits, Dead, Holding
    <2> QED
      BY <1>1, <2>2, QuietKeeps
  <1>4. CASE /\ target[t] \notin freed /\ parent[target[t]] = t /\ pc' = [pc EXCEPT ![t] = "wait"]
             /\ UNCHANGED <<state, kills, parent, primary, killq, ready, freed, target, waited>>
    <2>0. target[t] \in (primary \ ready) \ freed /\ target[t] \in Pids /\ t \notin KTasks
      BY <1>0, <1>4, WaiterIsAlive
    <2> USE <1>0, <1>4, <2>0 DEF IInv, TypeOK
    <2>2. InItsQueues'
      BY DEF InItsQueues, OnKillQueue, Exits, Dead
    <2>3. ParentLives'
      BY DEF ParentLives, Dead
    <2>4. WaiterHoldsChild' /\ StatusOnce'
      BY DEF WaiterHoldsChild, StatusOnce
    <2>5. DeadState' /\ KernelRuns' /\ Unkilled'
      BY DEF DeadState, KernelRuns, Unkilled, Dead
    <2>6. Forks'
      BY DEF Forks
    <2>7. Held'
      BY DEF Held
    <2>8. Kept'
      BY DEF Kept, Past, Exiting, Exits, Dead
    <2> QED
      BY <1>1, <2>2, <2>3, <2>4, <2>5, <2>6, <2>7, <2>8
  <1> QED
    BY <1>2, <1>3, <1>4 DEF WaitTest

\* sys_waitpid returns the status of a dead child, and takes it off the primary queue
\* if it was called for any child: no other task waits for it.
LEMMA WaitStatusStep ==
  ASSUME IInv, NEW t \in Pids, WaitStatus(t)
  PROVE  IInv'
  <1> DEFINE gone == IF t \in any THEN {target[t]} ELSE {}
  <1>0. pc[t] = "wait" /\ t # 0
    BY DEF WaitStatus, WaitStatusWith, At
  <1>a. gone \subseteq Pids /\ \A u \in gone : parent[u] = t /\ pc[u] \in Dead
    BY <1>0, WaiterIsAlive DEF WaitStatus, WaitStatusWith, IsDead, IInv, DeadState
  <1>b. /\ primary' = primary \ gone /\ ready' = ready \cup gone /\ waited' = waited \cup gone
    BY DEF WaitStatus, WaitStatusWith, Remove
  <1>c. /\ pc' = [pc EXCEPT ![t] = "user"] /\ target' = [target EXCEPT ![t] = Null]
        /\ any' = any \ {t}
        /\ UNCHANGED <<state, kills, parent, killq, since, freed, waiting, sigd, sys>>
    BY DEF WaitStatus, WaitStatusWith, WaitReturns, Goto
  <1> HIDE DEF gone
  <1> USE <1>0, <1>a, <1>b, <1>c DEF IInv, TypeOK
  <1>1. TypeOK'
    BY DEF Label
  <1>2. InItsQueues'
    BY DEF InItsQueues, OnKillQueue, Exits, Dead
  <1>3. ParentLives'
    BY DEF ParentLives, Dead
  <1>4. WaiterHoldsChild'
    BY DEF WaiterHoldsChild
  <1>5. StatusOnce'
    <2>1. waited' \subseteq ready'
      BY DEF StatusOnce
    <2>2. ASSUME NEW u \in Pids, pc'[u] = "wait"
          PROVE  target'[u] \notin waited'
      <3>1. u # t /\ pc[u] = "wait" /\ target'[u] = target[u]
        BY <2>2
      <3>2. target[u] \notin waited
        BY <3>1 DEF StatusOnce
      <3>3. target[u] \notin gone
        BY <3>1 DEF WaiterHoldsChild
      <3> QED
        BY <3>1, <3>2, <3>3
    <2> QED
      BY <2>1, <2>2 DEF StatusOnce
  <1>6. DeadState' /\ KernelRuns' /\ Unkilled'
    BY DEF DeadState, KernelRuns, Unkilled, Dead
  <1>7. Forks'
    BY DEF Forks
  <1>8. Held'
    BY DEF Held
  <1>9. Kept'
    BY DEF Kept, Past, Exiting, Exits, Dead
  <1> QED
    BY <1>1, <1>2, <1>3, <1>4, <1>5, <1>6, <1>7, <1>8, <1>9

\* __KT_try_releasing_tasks takes no task that a parent holds in sys_waitpid, or may
\* still wait for: such a task is not marked, and its parent neither dead nor a
\* kernel task.
LEMMA ReleaseSpares ==
  ASSUME IInv, NEW t \in Pids, Release(t), t \in primary,
         parent[t] \in Pids \ KTasks, ~Exiting(parent[t])
  PROVE  FALSE
  <1>1. t \notin ready
    BY DEF IInv, InItsQueues
  <1>2. parent[t] # Null
    BY NullIsNoPid
  <1>3. parent[t] \notin freed /\ state[parent[t]] # "dead"
    BY DEF IInv, InItsQueues, DeadState, Exiting, Exits, Dead
  <1>4. OrphanTest(t) = {FALSE}
    BY <1>2, <1>3 DEF OrphanTest, IsDead
  <1> QED
    BY <1>1, <1>4 DEF Release, ReleaseWhen, Unneeded

\* The release of a task keeps the invariant.
LEMMA ReleaseStep ==
  ASSUME IInv, NEW t \in Pids, Release(t)
  PROVE  IInv'
  <1>0. /\ pc[t] \in {"left", "off"} /\ killq[t] > 0 /\ t \notin freed
        /\ primary' = primary \ {t} /\ ready' = ready \cup {t} /\ killq' = [killq EXCEPT ![t] = @ - 1]
        /\ freed' = freed \cup {t} /\ state' = [state EXCEPT ![t] = "dead"]
        /\ since' = [since EXCEPT ![t] = 0] /\ waiting' = [waiting EXCEPT ![t] = Null]
        /\ UNCHANGED <<pc, kills, parent, target, any, sigd, waited, sys>>
    BY DEF Release, ReleaseWhen, Remove, Gone, Buried
  <1>a. ASSUME NEW u \in Pids, pc[u] \in {"looked", "wait"}, parent[target[u]] = u
        PROVE  target[u] # t
    <2>1. target[u] \in primary /\ u \notin KTasks /\ ~Exiting(u)
      BY <1>a, WaiterIsAlive
    <2> QED
      BY <1>a, <2>1, ReleaseSpares
  <1>b. t \in primary => parent[t] \notin Pids \ KTasks \/ Exiting(parent[t])
    BY ReleaseSpares
  <1> USE <1>0 DEF IInv, TypeOK
  <1>1. TypeOK'
    BY ProcessAssumption DEF States
  <1>2. InItsQueues'
    <2>1. /\ killq[t] \in Nat /\ killq'[t] = killq[t] - 1
          /\ \A u \in Pids : u # t => killq'[u] = killq[u]
      BY ProcessAssumption
    <2> QED
      BY <2>1 DEF InItsQueues, OnKillQueue, Exits, Dead
  <1>3. ParentLives'
    BY DEF ParentLives
  <1>4. WaiterHoldsChild' /\ StatusOnce'
    BY <1>a DEF WaiterHoldsChild, StatusOnce
  <1>5. DeadState' /\ KernelRuns' /\ Unkilled'
    BY NullIsNoPid DEF DeadState, KernelRuns, Unkilled, Dead
  <1>6. Forks'
    BY DEF Forks
  <1>7. Held'
    BY <1>a DEF Held
  <1>8. Kept'
    BY <1>b DEF Kept, Past, Exiting
  <1> QED
    BY <1>1, <1>2, <1>3, <1>4, <1>5, <1>6, <1>7, <1>8

\* A walk that reads a freed task changes nothing else.
LEMMA WalkStep ==
  ASSUME IInv, NEW t \in Pids, WalkReadsFreed(t)
  PROVE  IInv'
  <1>1. TypeOK'
    BY DEF IInv, TypeOK, WalkReadsFreed, queues, waits
  <1>2. Quiet
    BY DEF IInv, DeadState, Unkilled, Quiet, Past, Exiting, InExit, WalkReadsFreed, queues, waits
  <1> QED
    BY <1>1, <1>2, QuietKeeps

-----------------------------------------------------------------------------
\* The invariant holds of kernel_task and init.
LEMMA InitInv == Init => IInv
  <1> SUFFICES ASSUME Init PROVE IInv
    OBVIOUS
  <1> USE ProcessAssumption DEF Init, Pids, Null
  <1>1. TypeOK
    BY DEF TypeOK, States, Label
  <1>2. InItsQueues
    BY DEF InItsQueues, OnKillQueue, Exits, Dead
  <1>3. ParentLives
    BY DEF ParentLives, Exits, Dead
  <1>4. WaiterHoldsChild /\ StatusOnce /\ Forks /\ Held
    BY DEF WaiterHoldsChild, StatusOnce, Forks, Held
  <1>5. DeadState /\ KernelRuns /\ Unkilled /\ Kept
    BY DEF DeadState, KernelRuns, Unkilled, Kept, Past, Exits, Dead
  <1> QED
    BY <1>1, <1>2, <1>3, <1>4, <1>5 DEF IInv

\* Every step of every task, and of the idle task, keeps the invariant.
LEMMA NextInv == IInv /\ [Next]_vars => IInv'
  <1> SUFFICES ASSUME IInv, [Next]_vars PROVE IInv'
    OBVIOUS
  <1>1. CASE UNCHANGED vars
    <2>1. TypeOK'
      BY <1>1 DEF vars, IInv, TypeOK
    <2>2. Quiet
      BY <1>1 DEF vars, IInv, DeadState, Unkilled, Quiet, Past, Exiting, InExit
    <2> QED
      BY <2>1, <2>2, QuietKeeps
  <1>2. CASE Next
    BY <1>2, SignalStep, ExitingStep, WaitingStep, ForkCreateStep, ForkInsertStep, ForkRunsStep, ExitStep,
       SearchStep, WaitpidStep, WaitTestStep, WaitStatusStep, ReleaseStep, WalkStep DEF Next
  <1> QED
    BY <1>1, <1>2

\* Whatever tasks fork, exit, wait and are killed: the inductive invariant.
THEOREM Invariance == Spec => []IInv
  BY InitInv, NextInv, PTL DEF Spec

\* Every task is in the queues it belongs in, and every variable has its type; only a
\* task that a signal kills can be in the kill queue more than once.
THEOREM QueuesAreRight == Spec => [](TypeOK /\ InItsQueues)
  <1>1. IInv => TypeOK /\ InItsQueues
    BY DEF IInv
  <1> QED
    BY <1>1, Invariance, PTL

\* The parent of a task in the primary queue has not searched for its children yet,
\* and the child sys_waitpid holds stays in the queue and stays the caller's.
THEOREM PointersAreGood == Spec => [](ParentLives /\ WaiterHoldsChild)
  <1>1. IInv => ParentLives /\ WaiterHoldsChild
    BY DEF IInv
  <1> QED
    BY <1>1, Invariance, PTL

\* wait(-1) hands out the status of a child once.
THEOREM StatusIsTakenOnce == Spec => []StatusOnce
  <1>1. IInv => StatusOnce
    BY DEF IInv
  <1> QED
    BY <1>1, Invariance, PTL

\* A dead child stays in the primary queue, and is not freed, as long as its parent is
\* an ordinary task that may still wait for it.
THEOREM ZombiesAreKept == Spec => []ZombieKept
  <1>1. IInv => ZombieKept
    BY DEF IInv, Kept, ZombieKept, Past, InItsQueues
  <1> QED
    BY <1>1, Invariance, PTL
=============================================================================
