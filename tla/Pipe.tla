-------------------------------- MODULE Pipe ---------------------------------
(***************************************************************************)
(* An anonymous pipe (kernel/dm/pipe.c), the tasks that read, write, close *)
(* and copy its descriptors (kernel/fs/close.c, file.c, open.c), and the   *)
(* block lists on which they sleep (kernel/tm/task.c), on several          *)
(* processors.  The pipe's mutex is taken as the atomic lock that module   *)
(* Mutex shows it to be.  What a task does under it is one step, except    *)
(* where a step of a task without the mutex can be seen: the three steps   *)
(* of tm_add_to_blocklist.  What is done without it, by dup and fork, is a *)
(* step for each access, and so is the last fs_fput of a call.             *)
(***************************************************************************)
EXTENDS Integers, Sequences, FiniteSetsExt

CONSTANTS Tasks,
          Reader, Writer,   \* the tasks that hold the two ends at first
          Copiers,          \* tasks that fork or dup
          Signalled,        \* tasks that may be sent a signal
          Killed,           \* tasks that a signal may kill
          Size, Page,       \* PIPE_SIZE and PAGE_SIZE, scaled down
          MaxPut,           \* bound: bytes ever offered to the pipe
          MaxLen,           \* bound: bytes of one call
          Byte,             \* {"c", "n"} or less: a character, a newline
          MaxEnds,          \* bound: descriptors of the pipe when a copy begins
          MaxFd,            \* FILP_HASH_LEN, scaled down: descriptors of one task
          NoTask

ASSUME PipeAssumption ==
  /\ Reader \in Tasks /\ Writer \in Tasks /\ NoTask \notin Tasks
  /\ Copiers \subseteq Tasks /\ Signalled \subseteq Tasks /\ Killed \subseteq Tasks
  /\ {Size, Page, MaxPut, MaxLen, MaxEnds, MaxFd} \subseteq Nat \ {0} /\ Page < Size
  /\ Byte \subseteq {"c", "n"}

VARIABLES buf, put, got,     \* the bytes in the pipe, ever written, ever read
          count, wrcount,    \* pipe_t.count, pipe_t.wrcount
          lock,              \* who holds pipe_t.lock
          walker,            \* who holds the rwl of a block list over several steps
          filp,              \* the end a descriptor of a task is open for
          uses,              \* the descriptor a call has a reference to, 0 for none
          pc, op, left,      \* where a task is, in which call, bytes still to move
          at, kid, half,     \* the descriptor a copy is at, the child of a fork, and
                             \* what is counted of a descriptor not installed yet
          cur,               \* the task that a wake-up without the mutex is at
          list, active,      \* the block list a task is on; is it in the active queue?
          state, sig,        \* task_t.state; is a signal pending?
          sys                \* "up", "freed", or what stopped it, see Stopped

call == <<op, left, uses>>
copy == <<at, kid, half, cur, walker>>
pipe == <<buf, put, got, count, wrcount>>
task == <<list, active, state>>
vars == <<buf, put, got, count, wrcount, lock, walker, filp, uses, pc, op, left, at, kid, half, cur,
          list, active, state, sig, sys>>

End == {"r", "w"}
Slots == 1 .. MaxFd
Lists == {"rd", "wr"}
Ops == {"none", "read", "write", "close", "dup", "fork"}
\* A failed assert, of close.c:41-42 and of file.c:140; a task in a call on a pipe
\* that is freed; a task inserted in the active queue when it is there, after which
\* whom the scheduler finds depends on the order of the queue, which is left out.
Stopped == {"blocked", "open", "stale", "badqueue"}
Min2(a, b) == IF a < b THEN a ELSE b
Chunk(t) == Min2(left[t], Page)     \* what one round of dm_write_pipe writes
Open(t) == {s \in Slots : filp[t][s] # "none"}

\* sys_pipe by a task that then handed one end on.
Init ==
  /\ buf = <<>> /\ put = <<>> /\ got = <<>>
  /\ count = 2 /\ wrcount = 1 /\ lock = NoTask /\ walker = [l \in Lists |-> NoTask]
  /\ filp = [t \in Tasks |-> [s \in Slots |->
               IF s = 1 /\ t = Reader THEN "r" ELSE IF s = 1 /\ t = Writer THEN "w" ELSE "none"]]
  /\ pc = [t \in Tasks |-> IF t \in {Reader, Writer} THEN "user" ELSE "unborn"]
  /\ op = [t \in Tasks |-> "none"] /\ left = [t \in Tasks |-> 0] /\ uses = [t \in Tasks |-> 0]
  /\ at = [t \in Tasks |-> 0] /\ kid = [t \in Tasks |-> NoTask] /\ half = [t \in Tasks |-> "no"]
  /\ cur = [t \in Tasks |-> NoTask]
  /\ list = [t \in Tasks |-> "none"] /\ active = [t \in Tasks |-> TRUE]
  /\ state = [t \in Tasks |-> "run"] /\ sig = [t \in Tasks |-> FALSE]
  /\ sys = "up"

At(t, l) == pc[t] = l /\ sys \notin Stopped
Goto(t, l) == pc' = [pc EXCEPT ![t] = l]

\* tm_remove_all_from_blocklist of the lists ls, under the mutex: every task on them
\* goes back to the active queue and to TASK_RUNNING.
Woken(ls) == {t \in Tasks : list[t] \in ls}
RemoveAll(ls) ==
  /\ \A l \in ls : walker[l] = NoTask
  /\ list' = [t \in Tasks |-> IF list[t] \in ls THEN "none" ELSE list[t]]
  /\ active' = [t \in Tasks |-> active[t] \/ list[t] \in ls]
  /\ state' = [t \in Tasks |-> IF list[t] \in ls THEN "run" ELSE state[t]]
  /\ sys' = IF \E t \in Woken(ls) : active[t] THEN "badqueue" ELSE sys

(***************************************************************************)
(* A call: the descriptor, the checks before the mutex, the mutex, the     *)
(* loop, and fs_fput of the descriptor.  "loop" is the top of the loop,    *)
(* "room" the inner loop in which a writer waits for room and which does   *)
(* not look for readers again.  The write end can be read from, too.       *)
(***************************************************************************)
Call(t, o, s, n) ==
  /\ At(t, "user") /\ sys = "up"
  /\ o = "read" => filp[t][s] # "none"
  /\ o = "write" => filp[t][s] = "w" /\ Len(put) + n <= MaxPut
  /\ op' = [op EXCEPT ![t] = o] /\ left' = [left EXCEPT ![t] = n] /\ uses' = [uses EXCEPT ![t] = s]
  /\ Goto(t, "enter")
  /\ UNCHANGED <<pipe, lock, filp, copy, task, sig, sys>>

\* fs_fput, which ends every call; that of a close empties the descriptor.
Fput(t) ==
  /\ At(t, "fput")
  /\ filp' = IF op[t] = "close" THEN [filp EXCEPT ![t][uses[t]] = "none"] ELSE filp
  /\ op' = [op EXCEPT ![t] = "none"] /\ left' = [left EXCEPT ![t] = 0]
  /\ uses' = [uses EXCEPT ![t] = 0] /\ Goto(t, "user")
  /\ UNCHANGED <<pipe, lock, copy, task, sig, sys>>

\* _FNONBLOCK with nothing to read or too little room, and the end of file that a
\* reader sees before it takes the mutex.
ReturnsEarly(t) ==
  /\ At(t, "enter")
  /\ IF op[t] = "read" THEN buf = <<>> ELSE lock = NoTask /\ Len(buf) + left[t] > Size
  /\ Goto(t, "fput") /\ UNCHANGED <<pipe, lock, filp, call, copy, task, sig, sys>>

Lock(t) ==
  /\ \/ At(t, "enter") /\ Goto(t, "loop")
     \/ At(t, "again") /\ Goto(t, IF op[t] = "read" THEN "loop" ELSE "room")
  /\ lock = NoTask /\ lock' = t
  /\ UNCHANGED <<pipe, filp, call, copy, task, sig, sys>>

(***************************************************************************)
(* dm_read_pipe under the mutex.  A read ends at a newline.                *)
(***************************************************************************)
MustWait(t) ==
  IF op[t] = "read" THEN buf = <<>> /\ count > 1 /\ wrcount > 0
                    ELSE Len(buf) + Chunk(t) >= Size

Newlines == {i \in 1..Len(buf) : buf[i] = "n"}
ReadLen(t) ==
  LET n == Min2(Len(buf), left[t]) IN
  IF \E i \in Newlines : i <= n THEN CHOOSE i \in Newlines : \A j \in Newlines : i <= j ELSE n

TakeLine(t, ls) ==
  /\ At(t, "loop") /\ op[t] = "read" /\ ~MustWait(t)
  /\ got' = got \o SubSeq(buf, 1, ReadLen(t))
  /\ buf' = SubSeq(buf, ReadLen(t) + 1, Len(buf))
  /\ RemoveAll(ls)
  /\ lock' = NoTask /\ Goto(t, "fput")
  /\ UNCHANGED <<put, count, wrcount, filp, call, copy, sig>>
Read(t) == TakeLine(t, Lists)

(***************************************************************************)
(* dm_write_pipe under the mutex, a page at a time.                        *)
(***************************************************************************)
NoReaders == count - wrcount = 0
BrokenPipe(t) ==
  /\ At(t, "loop") /\ op[t] = "write" /\ NoReaders
  /\ sig' = [sig EXCEPT ![t] = TRUE]
  /\ lock' = NoTask /\ Goto(t, "fput")
  /\ UNCHANGED <<pipe, filp, call, copy, task, sys>>

AtRoom(t) == At(t, "room") \/ (At(t, "loop") /\ ~NoReaders)
PutChunk(t, data, fits, ls) ==
  /\ AtRoom(t) /\ op[t] = "write" /\ Len(data) = Chunk(t) /\ fits
  /\ buf' = SubSeq(buf \o data, 1, Min2(Size, Len(buf) + Len(data))) /\ put' = put \o data
  /\ RemoveAll(ls)
  /\ left' = [left EXCEPT ![t] = @ - Chunk(t)]
  /\ IF left[t] = Chunk(t) THEN lock' = NoTask /\ Goto(t, "fput") ELSE Goto(t, "loop") /\ UNCHANGED lock
  /\ UNCHANGED <<got, count, wrcount, filp, op, uses, copy, sig>>
\* Mutant: the data goes in where it may not fit.
Write_NoRoom(t, data) == PutChunk(t, data, TRUE, Lists)
\* Mutant: sleeping readers are not woken.
Write_NoWake(t, data) == PutChunk(t, data, ~MustWait(t), {"wr"})
Write(t, data) == PutChunk(t, data, ~MustWait(t), Lists)

(***************************************************************************)
(* Going to sleep: tm_add_to_blocklist (the block list, the active queue,  *)
(* the state), mutex_release, and tm_schedule until the task has been      *)
(* switched out.  Interrupts are off, but other processors run.            *)
(***************************************************************************)
BlockInsert(t) ==
  /\ pc[t] \in {"loop", "room"} /\ MustWait(t) /\ walker[IF op[t] = "read" THEN "rd" ELSE "wr"] = NoTask
  /\ \/ op[t] = "read" /\ At(t, "loop")
        /\ list' = [list EXCEPT ![t] = "rd"] /\ UNCHANGED <<active, state, sys>>
     \/ op[t] = "write" /\ AtRoom(t) /\ walker["rd"] = NoTask
        /\ active' = [u \in Tasks |-> active[u] \/ list[u] = "rd"]
        /\ list' = [u \in Tasks |-> IF u = t THEN "wr" ELSE IF list[u] = "rd" THEN "none" ELSE list[u]]
        /\ state' = [u \in Tasks |-> IF list[u] = "rd" THEN "run" ELSE state[u]]
        /\ sys' = IF \E u \in Woken({"rd"}) : active[u] THEN "badqueue" ELSE sys
  /\ Goto(t, "listed")
  /\ UNCHANGED <<pipe, lock, filp, call, copy, sig>>
\* Mutant: the task stays in the active queue.
BlockDequeue_Not(t) ==
  At(t, "listed") /\ Goto(t, "dequeued") /\ UNCHANGED <<pipe, lock, filp, call, copy, task, sig, sys>>
BlockDequeue(t) ==
  /\ At(t, "listed")
  /\ active' = [active EXCEPT ![t] = FALSE] /\ Goto(t, "dequeued")
  /\ UNCHANGED <<pipe, lock, filp, call, copy, list, state, sig, sys>>
BlockState(t) ==
  /\ At(t, "dequeued")
  /\ state' = [state EXCEPT ![t] = "sleep"] /\ lock' = NoTask /\ Goto(t, "sched")
  /\ UNCHANGED <<pipe, filp, call, copy, list, active, sig, sys>>
SwitchOut(t) ==
  /\ At(t, "sched") /\ state[t] # "suicidal"
  /\ Goto(t, "asleep") /\ UNCHANGED <<pipe, lock, filp, call, copy, task, sig, sys>>

\* The scheduler only looks at the active queue.  A signal ends the call, unless
\* its action has SA_RESTART (tm_process_got_signal).
Runnable(t) == active[t] /\ (state[t] = "run" \/ (state[t] = "sleep" /\ sig[t]))
Resume(t) ==
  /\ At(t, "asleep") /\ Runnable(t)
  /\ state' = [state EXCEPT ![t] = "run"]
  /\ \/ Goto(t, "again")
     \/ sig[t] /\ Goto(t, "fput")
  /\ UNCHANGED <<pipe, lock, filp, call, copy, list, active, sig, sys>>

(***************************************************************************)
(* sys_close under the mutex, by a task or by its exit: the counts, and    *)
(* the pipe freed or everybody woken.  A task that dies with the mutex     *)
(* acquires it a second time, as in a handler, and keeps it for ever.      *)
(***************************************************************************)
CanClose(t) == lock \in {NoTask, t}
Wr(e) == IF e = "w" THEN 1 ELSE 0
Less(x, n) == IF x > 0 THEN x - n ELSE x      \* if(count) sub_atomic(&count, n)
InPipe(t) == pc[t] \notin {"unborn", "user", "fput", "copy", "install", "exiting", "xput", "dead"}
CloseWith(t, s, n, wr, last, ls) ==
  /\ \/ /\ sys = "freed"     \* inode->pipe is NULL
        /\ UNCHANGED <<count, wrcount, task, sys>>
     \/ /\ sys = "up" /\ CanClose(t)
        /\ count' = Less(count, n) /\ wrcount' = Less(wrcount, wr)
        /\ IF count' = last
           THEN /\ sys' = IF \E u \in Tasks : list[u] # "none" THEN "blocked"
                          ELSE IF \E u \in Tasks \ {t} : InPipe(u) THEN "stale" ELSE "freed"
                /\ UNCHANGED task
           ELSE RemoveAll(ls)
  /\ UNCHANGED <<buf, put, got, lock, filp, call, copy, sig>>
\* Mutants: the write end counted twice; its own count not lowered; the pipe freed
\* with a descriptor left; nobody woken.
CloseEnd_Twice(t, s) == CloseWith(t, s, 1 + Wr(filp[t][s]), Wr(filp[t][s]), 0, Lists)
CloseEnd_KeepsWr(t, s) == CloseWith(t, s, 1, 0, 0, Lists)
CloseEnd_Early(t, s) == CloseWith(t, s, 1, Wr(filp[t][s]), 1, Lists)
CloseEnd_NoWake(t, s) == CloseWith(t, s, 1, Wr(filp[t][s]), 0, {})
CloseEnd(t, s) == CloseWith(t, s, 1, Wr(filp[t][s]), 0, Lists)

CloseCall(t, s) ==
  /\ At(t, "user") /\ s \in Open(t)
  /\ op' = [op EXCEPT ![t] = "close"] /\ uses' = [uses EXCEPT ![t] = s] /\ Goto(t, "close")
  /\ UNCHANGED <<pipe, lock, filp, left, copy, task, sig, sys>>
Close(t) == At(t, "close") /\ CloseEnd(t, uses[t]) /\ Goto(t, "fput")

\* fs_close_all_files of an exit.  A descriptor that a killed call holds a reference
\* to is not emptied by the close, and the assert after it fails.
ExitClose(t) == At(t, "exiting") /\ Open(t) # {} /\ CloseEnd(t, Min(Open(t))) /\ Goto(t, "xput")
ExitFput(t) ==
  LET s == Min(Open(t))
  IN  /\ At(t, "xput")
      /\ IF s = uses[t] THEN sys' = "open" /\ UNCHANGED <<filp, pc>>
         ELSE filp' = [filp EXCEPT ![t][s] = "none"] /\ Goto(t, "exiting") /\ UNCHANGED sys
      /\ UNCHANGED <<pipe, lock, call, copy, task, sig>>
ExitEnd(t) ==
  /\ At(t, "exiting") /\ Open(t) = {}
  /\ active' = [active EXCEPT ![t] = FALSE] /\ Goto(t, "dead")
  /\ UNCHANGED <<pipe, lock, filp, call, copy, list, state, sig, sys>>

(***************************************************************************)
(* duplicate() and fs_copy_file_handles, without the mutex: a descriptor   *)
(* is counted, as an end and then as a write end, both lists are woken and *)
(* then it is put in its place.  A fork goes through the descriptors of    *)
(* the parent, and the child runs once it is complete.                     *)
(***************************************************************************)
Starts(t, o, s) ==
  /\ At(t, "user") /\ sys = "up" /\ t \in Copiers
  /\ op' = [op EXCEPT ![t] = o] /\ at' = [at EXCEPT ![t] = s] /\ Goto(t, "copy")
  /\ UNCHANGED <<pipe, lock, walker, filp, left, half, cur, task, sig, sys>>
Dup(t, s) ==
  /\ Starts(t, "dup", s)
  /\ s \in Open(t) /\ Open(t) # Slots /\ count + 1 <= MaxEnds
  /\ uses' = [uses EXCEPT ![t] = s] /\ UNCHANGED kid
Fork(t, child) ==
  /\ Starts(t, "fork", 1)
  /\ pc[child] = "unborn" /\ (\A u \in Tasks : kid[u] # child)
  /\ count + Cardinality(Open(t)) <= MaxEnds
  /\ kid' = [kid EXCEPT ![t] = child] /\ UNCHANGED uses

Copy(t) ==
  /\ At(t, "copy")
  /\ \/ /\ at[t] \in Open(t)
        /\ IF sys = "freed" THEN Goto(t, "install") /\ UNCHANGED <<count, half>>
           ELSE /\ count' = count + 1
                /\ half' = [half EXCEPT ![t] = IF filp[t][at[t]] = "w" THEN "half" ELSE "r"]
                /\ Goto(t, "wrcount")
        /\ UNCHANGED <<at, kid>>
     \/ /\ at[t] \in Slots \ Open(t)
        /\ at' = [at EXCEPT ![t] = @ + 1] /\ UNCHANGED <<count, half, pc, kid>>
     \/ /\ at[t] \notin Slots
        /\ pc' = [pc EXCEPT ![t] = "user", ![kid[t]] = "user"]
        /\ at' = [at EXCEPT ![t] = 0] /\ kid' = [kid EXCEPT ![t] = NoTask]
        /\ UNCHANGED <<count, half>>
  /\ UNCHANGED <<buf, put, got, wrcount, lock, walker, filp, call, cur, task, sig, sys>>
CopyWr(t) ==
  /\ At(t, "wrcount")
  /\ wrcount' = wrcount + Wr(filp[t][at[t]])
  /\ half' = [half EXCEPT ![t] = filp[t][at[t]]] /\ Goto(t, "wakerd")
  /\ UNCHANGED <<buf, put, got, count, lock, walker, filp, call, at, kid, cur, task, sig, sys>>

\* tm_remove_all_from_blocklist without the mutex: the list is locked, and each entry
\* is taken off the list, inserted in the active queue, and given TASK_RUNNING.
Wake == [rd |-> <<"wakerd", "unlisted_rd", "inserted_rd">>, wr |-> <<"wakewr", "unlisted_wr", "inserted_wr">>]
WakeTake(t, l, u) ==
  /\ At(t, Wake[l][1]) /\ walker[l] \in {NoTask, t} /\ list[u] = l
  /\ walker' = [walker EXCEPT ![l] = t] /\ cur' = [cur EXCEPT ![t] = u]
  /\ list' = [list EXCEPT ![u] = "none"] /\ Goto(t, Wake[l][2])
  /\ UNCHANGED <<pipe, lock, filp, call, at, kid, half, active, state, sig, sys>>
WakeInsert(t, l) ==
  /\ At(t, Wake[l][2])
  /\ sys' = IF active[cur[t]] THEN "badqueue" ELSE sys
  /\ active' = [active EXCEPT ![cur[t]] = TRUE] /\ Goto(t, Wake[l][3])
  /\ UNCHANGED <<pipe, lock, filp, call, copy, list, state, sig>>
WakeRun(t, l) ==
  /\ At(t, Wake[l][3])
  /\ state' = [state EXCEPT ![cur[t]] = "run"] /\ cur' = [cur EXCEPT ![t] = NoTask] /\ Goto(t, Wake[l][1])
  /\ UNCHANGED <<pipe, lock, walker, filp, call, at, kid, half, list, active, sig, sys>>
WakeDone(t, l) ==
  /\ At(t, Wake[l][1]) /\ walker[l] \in {NoTask, t} /\ \A u \in Tasks : list[u] # l
  /\ walker' = [walker EXCEPT ![l] = NoTask] /\ Goto(t, IF l = "rd" THEN "wakewr" ELSE "install")
  /\ UNCHANGED <<pipe, lock, filp, call, at, kid, half, cur, task, sig, sys>>

Install(t) ==
  /\ At(t, "install")
  /\ half' = [half EXCEPT ![t] = "no"]
  /\ IF op[t] = "fork"
     THEN /\ filp' = [filp EXCEPT ![kid[t]][at[t]] = filp[t][at[t]]]
          /\ at' = [at EXCEPT ![t] = @ + 1] /\ Goto(t, "copy")
     ELSE /\ filp' = [filp EXCEPT ![t][Min(Slots \ Open(t))] = filp[t][at[t]]]
          /\ at' = [at EXCEPT ![t] = 0] /\ Goto(t, "fput")
  /\ UNCHANGED <<pipe, lock, walker, call, kid, cur, task, sig, sys>>

(***************************************************************************)
(* Signals.  Outside a call a signal is handled on the way to user mode:   *)
(* it is ignored, or a handler runs, or it kills the task (one that it     *)
(* stops is a task in user mode that makes no step); a task in a call      *)
(* keeps it pending.  tm_kill_process only sets the state; the task goes   *)
(* on until it is next scheduled, and dies there, wherever it is, as long  *)
(* as interrupts are on (its state and where it was in the call are then   *)
(* of no more use).                                                        *)
(***************************************************************************)
Lives(t) == pc[t] \notin {"unborn", "exiting", "xput", "dead"}
Signal(t) ==
  /\ t \in Signalled /\ sys \notin Stopped /\ Lives(t)
  /\ ~sig[t] /\ sig' = [sig EXCEPT ![t] = TRUE]
  /\ UNCHANGED <<pipe, lock, filp, pc, call, copy, task, sys>>
Handle(t) ==
  /\ At(t, "user") /\ sig[t] /\ sig' = [sig EXCEPT ![t] = FALSE]
  /\ \/ UNCHANGED state
     \/ t \in Killed /\ state' = [state EXCEPT ![t] = "suicidal"]
  /\ UNCHANGED <<pipe, lock, filp, pc, call, copy, list, active, sys>>
Kill(t) ==
  /\ t \in Killed /\ sys \notin Stopped /\ Lives(t)
  /\ state' = [state EXCEPT ![t] = "suicidal"] /\ sig' = [sig EXCEPT ![t] = FALSE]
  /\ UNCHANGED <<pipe, lock, filp, pc, call, copy, list, active, sys>>
IntOff(t) ==
  \/ pc[t] \in {"listed", "dequeued"} \cup {Wake[l][i] : l \in Lists, i \in {2, 3}}
  \/ \E l \in Lists : walker[l] = t
Die(t) ==
  /\ state[t] = "suicidal" /\ sys \notin Stopped /\ Lives(t)
  /\ ~IntOff(t) /\ (pc[t] = "asleep" => active[t])
  /\ op' = [op EXCEPT ![t] = "none"] /\ left' = [left EXCEPT ![t] = 0] /\ at' = [at EXCEPT ![t] = 0]
  /\ sig' = [sig EXCEPT ![t] = FALSE] /\ state' = [state EXCEPT ![t] = "run"] /\ Goto(t, "exiting")
  /\ UNCHANGED <<pipe, lock, walker, filp, uses, kid, half, cur, list, active, sys>>

Data == UNION {[1..n -> Byte] : n \in 1..Page}
Proceed(t) ==
  \/ Lock(t) \/ Read(t) \/ BrokenPipe(t) \/ (\E d \in Data : Write(t, d)) \/ Fput(t)
  \/ BlockInsert(t) \/ BlockDequeue(t) \/ BlockState(t) \/ SwitchOut(t) \/ Resume(t)
  \/ Close(t) \/ ExitClose(t) \/ ExitFput(t) \/ ExitEnd(t)
  \/ Copy(t) \/ CopyWr(t) \/ Install(t)
  \/ \E l \in Lists : (\E u \in Tasks : WakeTake(t, l, u)) \/ WakeInsert(t, l) \/ WakeRun(t, l) \/ WakeDone(t, l)
  \/ Handle(t) \/ Die(t)

Begins(t) ==
  \/ \E o \in {"read", "write"}, s \in Slots, n \in 1..MaxLen : Call(t, o, s, n)
  \/ \E s \in Slots : CloseCall(t, s) \/ Dup(t, s)
  \/ \E child \in Tasks : Fork(t, child)
TaskStep(t) ==
  \/ pc[t] = "user" /\ Begins(t)
  \/ ReturnsEarly(t) \/ Proceed(t) \/ Signal(t) \/ Kill(t)

Next == \E t \in Tasks : TaskStep(t)
Spec == Init /\ [][Next]_vars

\* The scheduler runs every task in the active queue again and again.  Nothing says
\* that a spinning task ever wins a mutex that others keep taking, nor that a task
\* calls, copies, closes or signals.
FairSpec == Spec /\ \A t \in Tasks : WF_vars(Proceed(t))

-----------------------------------------------------------------------------
PCs == {"unborn", "user", "enter", "again", "loop", "room", "listed", "dequeued", "sched", "asleep", "fput",
        "close", "exiting", "xput", "dead", "copy", "wrcount", "install"}
         \cup {Wake[l][i] : l \in Lists, i \in 1..3}
\* Every variable has its type.
TypeOK ==
  /\ {buf, put, got} \subseteq Seq(Byte) /\ count \in Nat /\ wrcount \in Nat
  /\ lock \in Tasks \cup {NoTask} /\ walker \in [Lists -> Tasks \cup {NoTask}]
  /\ filp \in [Tasks -> [Slots -> End \cup {"none"}]] /\ uses \in [Tasks -> 0..MaxFd]
  /\ pc \in [Tasks -> PCs] /\ op \in [Tasks -> Ops] /\ left \in [Tasks -> Nat]
  /\ at \in [Tasks -> 0..(MaxFd + 1)] /\ half \in [Tasks -> End \cup {"no", "half"}]
  /\ {kid, cur} \subseteq [Tasks -> Tasks \cup {NoTask}]
  /\ list \in [Tasks -> Lists \cup {"none"}] /\ active \in [Tasks -> BOOLEAN]
  /\ state \in [Tasks -> {"run", "sleep", "suicidal"}] /\ sig \in [Tasks -> BOOLEAN]
  /\ sys \in {"up", "freed"} \cup Stopped

\* Readers get, between them, exactly the bytes written, in order: what was read
\* and what is in the pipe is what was written; and the buffer never overflows.
InOrder == put = got \o buf /\ Len(buf) < Size

(***************************************************************************)
(* As long as no task has died inside a call, the counts of the pipe are   *)
(* the numbers of its open descriptors, those included that a dup or fork  *)
(* has counted and not installed yet (or never will, if a kill stopped the *)
(* fork), and those left out that a close has not emptied yet.             *)
(***************************************************************************)
DiedInCall == \E t \in Tasks : pc[t] \in {"exiting", "xput"} /\ uses[t] # 0
Descriptors(ends) == {d \in Tasks \X Slots : filp[d[1]][d[2]] \in ends}
Closing == {d \in Tasks \X Slots :
              \/ pc[d[1]] = "fput" /\ op[d[1]] = "close" /\ uses[d[1]] = d[2]
              \/ pc[d[1]] = "xput" /\ Min(Open(d[1])) = d[2]}
CountIs(n, ends, halves) ==
  n = Cardinality(Descriptors(ends) \ Closing) + Cardinality({t \in Tasks : half[t] \in halves})
Counts ==
  sys = "up" /\ ~DiedInCall =>
    CountIs(count, End, {"r", "w", "half"}) /\ CountIs(wrcount, {"w"}, {"w"})

\* A task that sleeps on a block list really has to wait, unless somebody is awake
\* with the mutex or about to wake it: no wake-up is lost.
Waits(t) == pc[t] \in {"sched", "asleep"} /\ ~Runnable(t)
NoLostWakeup ==
  sys = "up" => \A t \in Tasks : Waits(t) => list[t] # "none" /\ MustWait(t)

\* A task is on a block list or in the active queue, never on both and never on
\* neither, once tm_add_to_blocklist is over; and whoever uses the pipe under the
\* mutex is the one that holds it.
Queued ==
  sys = "up" => \A t \in Tasks :
    /\ pc[t] \notin {"listed", "dead"} => (active[t] <=> list[t] = "none")
    /\ list[t] # "none" => pc[t] \in {"listed", "dequeued", "sched", "asleep"}
    /\ pc[t] \in {"loop", "room", "listed", "dequeued"} => lock = t

(***************************************************************************)
(* As long as no task has died inside a call: when a close finds no        *)
(* descriptor left nobody is on the block lists (the asserts of sys_close) *)
(* or in a call on the pipe, every descriptor is closed, and the exit of a *)
(* task leaves none open (the assert of fs_close_all_files).               *)
(***************************************************************************)
FreedUnused ==
  ~DiedInCall =>
    /\ sys \notin {"blocked", "open", "stale"}
    /\ sys = "freed" => Descriptors(End) \subseteq Closing

\* A reader that sleeps while there are bytes in the pipe wakes up.
ReaderWakes ==
  \A t \in Tasks : (pc[t] = "asleep" /\ op[t] = "read" /\ buf # <<>>) ~> (pc[t] # "asleep" \/ sys # "up")

\* A reader that sleeps when the last write end is closed wakes up and sees the end
\* of the file.
ReaderSeesEnd ==
  \A t \in Tasks : (pc[t] = "asleep" /\ op[t] = "read" /\ wrcount = 0) ~> (pc[t] = "user" \/ sys # "up")
=============================================================================
