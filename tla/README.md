# seakernel in TLA+

This directory holds a specification of the parts of seakernel in which several tasks, processors
and interrupts meet, checked with TLC on small instances and, where that is within reach, proved
with TLAPS for every value of the constants.

## 1. Inventory

seakernel is a monolithic, preemptive SMP kernel in C. The build this development follows is the
one of the shipped configuration: `CONFIG_SMP`, `CONFIG_DEBUG`, asserts, modules and the block
cache on, swap off.

| part | sources | state | operations | hard behaviour |
|---|---|---|---|---|
| reader/writer lock | `kernel/rwlock.c` | one word per lock | acquire, escalate, release, create, destroy | every update of the word interleaves with every other |
| mutex | `kernel/mutex.c` | lock word, owner | acquire, release, create, destroy | a holder interrupted by a handler that wants the same mutex; the window between winning the bit and recording the owner |
| linked lists, queues, hash tables | `library/klib/*.c` | lists with an rwlock | insert, remove, iterate | removal of a node twice, removal while iterating |
| task queues | `kernel/tqueue.c` | per-queue list, current node, count | insert, remove, next | the scheduler walks a queue that other processors change |
| scheduler | `kernel/tm/schedule.c`, `process.c` | task states, run queues, signals, alarms | schedule, pause, resume, block, unblock | lost wake-ups; signals to blocked tasks |
| alarms | `kernel/tm/signal.c`, `schedule.c` | sorted list of tasks | `sys_alarm`, removal, tick | list surgery at head, middle and end |
| process life cycle | `kernel/tm/{fork,exit,wait,tsearch,task}.c` | task states, the live, kill and active queues, parent links, reference counts | fork, exit, kill, waitpid, reaping | a parent and a child that exit at the same time; use of a task after its release |
| kernel threads | `kernel/tm/kthread.c` | flags, exit code | create, join, wait, kill, destroy | a join that races with the exit, a kill |
| interrupts | `kernel/cpu/interrupt.c` | handler tables, counts of pending second stages, a hint flag | register, unregister, entry points, draining | an interrupt between a drain's clearing of the hint and its scan |
| pipes | `kernel/dm/pipe.c`, `kernel/fs/{file,close,open}.c` | ring of bytes, end counts, two block lists | read, write, close, dup, select | sleeping and waking, end of file, broken pipe, signals |
| object cache and block layer | `kernel/cache/cache.c`, `kernel/dm/block*.c` | cached elements, dirty list | read, write, sync, eviction | a read miss that overlaps a write |
| device tables | `kernel/dm/{dev,char}.c` | hash of devices | register, unregister, call | lookup of what is not there |
| physical memory | `kernel/mm/pmm.c` | page stack, contiguous bitmap | allocate, free | the stack's own pages; exhaustion |
| virtual ranges | `kernel/mm/valloc.c` | bitmap, next-fit position | allocate, free, split | failure, fragmentation |
| kernel heap | `kernel/mm/{slab,kmalloc}.c` | caches of slabs | allocate, free | slabs that move between lists |
| mappings of files | `kernel/mm/{map,mmfile,fault}.c`, `kernel/fs/mminode.c` | mappings, shared pages with counts | mmap, munmap, msync, fault | counts of pages never brought in; splits |
| file system core | `kernel/fs/vfs/*.c`, `kernel/fs/*.c` | tree of inodes with counts, mounts, file tables | lookup, open, close, link, unlink, rmdir, mount | a lookup that races with the last put |
| record locks | `kernel/fs/flock.c` | list of locks per inode | fcntl locks | list surgery, waiting |
| sockets and network | `kernel/fs/socket.c`, `kernel/net/*.c`, `drivers/net/*` | packet counts, ARP table, queues, routes | send, receive, resolve | packets waiting for an address; counts of packets |
| loader and modules | `kernel/loader/*.c` | module list, symbols | load, unload, exec | unload that races with unload |
| terminals | `kernel/drivers/*.c` | line buffers | read, write, ioctl | sleeping readers |
| drivers and architecture | `drivers/*`, `arch/*` | device registers, page tables | | mostly device protocols and memory maps |

What makes each part correct, in a line: a lock lets in whom it says and nobody is left waiting for
a free one; a pipe delivers every byte once, in order, and wakes whoever can go on; a task is in the
queues it belongs in, is freed once, and not while somebody looks at it; a counted interrupt is
handled; a written block is never lost; an allocator never gives out twice what is in use; an inode
or packet lives as long as it is referred to; a list contains what was put into it.

## 2. Modules

| module | models | state | actions |
|---|---|---|---|
| `RWLock` | `rwlock.c` | the lock word, the position of each task, whether the kernel is up | one per atomic operation on, or read of, the word: acquiring, backing out, escalating in both directions, releasing, creating, destroying |
| `RWLockSpec` | what the header comment of `rwlock.c` promises | the mode of each task | read, write, escalate, lower, release |
| `MCRWLock` | | | instance for TLC, with the refinement mapping from `RWLock` to `RWLockSpec` |
| `Mutex` | `mutex.c` | lock bits, owner, the position of each task and of the handler on top of it | acquiring (outer, inner, twice), winning the bit, recording the owner, releasing, interrupts, create, destroy |
| `Pipe` | `dm/pipe.c`, with close, dup, fork and exit and the block lists of `tm/task.c` | bytes, end counts, descriptors and the reference a call has to one, the mutex, two block lists and who walks them, task states and signals | a call is cut where the mutex is taken or dropped, where a sleeper inserts itself in three steps, and at its `fs_fput`; dup and fork, which take no mutex, are cut at each count, at each step of their wake-ups and at the installation; a kill may end any of these |
| `Process` | `tm/{fork,exit,wait,tsearch}.c`, the end of `tm_schedule`, the release of `init/idle.c` | states, queues, parents, marks, the pointers that waiting tasks hold | fork in three steps, the stages of exit (the kill queue before `TF_EXITING`, so that a kill in between queues a task twice), kill in two halves, waitpid with its lookup and its test of the parent apart, SYS_WAIT, release |
| `Interrupt` | stage 2 of `cpu/interrupt.c` | counts, the hint flag, the mutex of the drain, positions of processors | IRQ, ISR and system call entries, and the drain step by step |
| `BlockCache` | `cache/cache.c`, `dm/block_cache.c`, `dm_block_rw` | device, elements, dirty list, counters, positions of tasks | read in stages, write, sync in rounds, eviction, dropping a device, writing back one block |
| `RWLockProofs`, `MutexProofs`, `ProcessProofs` | | | theorems about the modules they are named after |

A step is what nothing can come between: one atomic instruction, one section with a lock held, or
one run of code that reads and writes only the task's own state. Data is cut down to what the
properties tell apart: a byte is its place in the stream, the contents of a block the number of the
write that made them, a task its pid. Where freed memory is read, the outcome is any of those
possible (`OrphanTest` in `Process`, `Junk` in `BlockCache`). A panic, a failed assert or a NULL
dereference stops the model (`sys`), and so does a use of a freed task or pipe whose outcome is
anything at all (`"stale"`), and a task inserted in the active queue a second time (`"badqueue"`).

The modules do not import each other's state. `Pipe` and `BlockCache` use the mutex and the rwlock
as their specifications promise, which is what `MutexProofs` and the refinement of `RWLockSpec` are
for; `Interrupt` does so with `s2_lock`.

## 3. Runs

| run | shows | bounds |
|---|---|---|
| `rwlock_safety` | the word counts exactly the readers and the writer (`LockWord`), a writer meets no counted reader (`WriterExcludes`), and the lock implements `RWLockSpec` | three tasks, one of which escalates |
| `rwlock_plain` | without escalation no task is in with a writer, no assert fails, and a lock that is wanted is taken by somebody | three tasks, none of which escalates |
| `rwlock_escalate` | *violation*: an escalation that meets another acquirer returns without the lock | two tasks |
| `mutex_safety` | one owner; the inner lock of a handler is inside its own task's outer lock; no handler spins on a mutex whose owner is recorded as the task beneath it; releases are by owners | tasks in system calls, interrupted tasks, tasks that lock twice |
| `pipe_copy` | as long as no task has died inside a call: the end counts are the descriptors that are open, or counted and not installed yet; the pipe is freed when nobody uses it or sleeps on it | three tasks with up to two descriptors each, no copy that would make more than four in all (a fork of two happens after another close), two bytes in calls of one; the writer forks, dups and is killed at any step |
| `pipe_sleep` | no reader or writer sleeps on a pipe that lets it go on; bytes arrive in order and within the buffer; a reader wakes for data and for the end of the file, signals or not | two tasks, one of which gets signals, four bytes through a buffer of three, calls longer than the buffer has room for |
| `pipe_fork` | *violation*: a fork's wake-up, outside the mutex, hits a reader that is half asleep | three tasks |
| `process` | no task is lost from its queues, parents followed are alive, waitpid's pointer stays good, a status is handed out once, and a zombie is kept for a parent that may wait for it | four pids: grandchildren, siblings and orphans all occur; one task uses SYS_WAIT and is killed, and may be in the kill queue twice |
| `process_release` | every dead task nobody can wait for is released | as above, without SYS_WAIT and without a second entry into `tm_exit` |
| `process_idle` | *violation*: with the idle task as shipped nothing is released | three pids |
| `interrupt` | one drain at a time, no count wraps, no counted interrupt forgotten, except those beyond the first of a number that one drain finds: they wait for the next interrupt with a second stage | two processors, two numbers, counts to two |
| `block_cache` | dirty list and counters agree with the elements, the last write is in the cache or on the device, reads return it, and a sync that ends has written all that was there when it began | two tasks, two blocks, two writes each; one block's users keep apart, the other is free for all, fails, and is written behind the cache |

The bounds are chosen so that every action of every module happens in a passing run. Deadlock is
not checked where the system may stop: all tasks may have exited, closed everything, or panicked.

**Conditions on the passing runs.** They matter as much as the results.
- `rwlock_plain`: no task escalates. `rwlock_escalate` shows why.
- `mutex_safety`: `NoSelfWait` leaves out the two windows in which the bit and the owner disagree,
  after the bit is won and before it is given up. In them a handler does spin on its own task.
- `pipe_copy`: `Counts` and `FreedUnused` are stated for as long as no task has died inside a call on
  the pipe (`DiedInCall`). When one has, asserts fail: see section 6.
- `pipe_sleep`: nobody forks, dups or is killed. `pipe_fork` shows why.
- `process`: for a task that is killed `InItsQueues` allows more than one node in the kill queue, and a
  node left there after the release.
- `process` and `process_release` let the idle task reach `__KT_try_releasing_tasks`
  (`Reaping = TRUE`). In the source as it is `idle.c:61` keeps it from ever getting there. The
  results are about the release code, and say nothing of a kernel built from this source, in which
  that code does not run.
- `Released` is met, too, by a behaviour that ends in a NULL dereference or a failed assert
  (`sys = "fault"`) or in the use of a freed task (`"stale"`): exit can read a parent pointer that an
  exiting parent clears in between (`exit.c:170`).
- `interrupt`: `NotForgotten` and `Handled` leave out the surplus (`left`).
- `block_cache`: `NothingLost`, `CleanIsOnDisk`, `ReadsLatest` and `Synced` are stated for blocks
  whose users keep reads and writes apart, on devices that do not fail and that
  `dm_write_block_cache` does not touch. Keeping apart is a condition on the callers: ext2 meets it for
  its bitmap blocks, the users of a block device do not. `ReadsLatest` also leaves out a read whose element was
  evicted between the lookup and the copy: the code does not exclude it.

## 4. Fairness

Weak fairness only, and only for steps a task has begun: the scheduler goes round its queue, so that
a task in it runs again. No fairness is assumed for a program that could call, fork, exit or close,
nor for winning a mutex that others keep taking. `Release` is fair because the idle task loops; the
timer interrupt of `Interrupt` is fair because the timer keeps ticking.

## 5. Proofs

- `RWLockProofs`, for any finite set of tasks: `WordIsRight`, `Exclusion`, `AssertsHold` (the last
  two for tasks that do not escalate). The invariant ties the word to the positions of the tasks.
- `MutexProofs`, for any tasks: `Ownership`, `ReleaseChecksHold`, `HandlersDoNotWait`.
- `ProcessProofs`, for any number of pids and any set of waiting and killable tasks:
  `QueuesAreRight`, `PointersAreGood`, `StatusIsTakenOnce`, `ZombiesAreKept`. The properties are
  inductive only together (`IInv`), with six more: a task with state `TASK_DEAD` has been through
  `set_as_dead`; `kernel_task` neither waits nor exits; only a task that is sent a SIGKILL has a second
  way into `tm_exit`; a fork has its child to itself; what waitpid has looked up stays in the primary
  queue as long as it is the caller's child; and `ZombieKept` from the search on. A release takes a
  marked task or an orphan; a child somebody waits for is in the primary queue, hence unmarked, and
  its parent is neither dead nor `kernel_task`. The actions that leave queues, marks and parents
  alone are dealt with by one lemma (`QuietKeeps`), the others have one each.

The assumptions are those named in the modules (`RWLockAssumption`, `MutexAssumption`,
`ProcessAssumption`). Model-checked only: everything about `Pipe`, `Interrupt` and `BlockCache`, the
refinement of `RWLockSpec`, and all liveness, which is outside the prover's reach, as are ENABLED
and induction over recursively defined data.

## 6. Departures met while modelling that have no run

Each of these was read in the source. Those marked + were also reproduced as a TLC counterexample
to a formula that the modules do not keep.

- + `close.c:41-42`: a writer that is killed after `tm_add_to_blocklist` and before it is switched out
  exits while it is on the block list. If it has the last descriptor, the assert that the list is
  empty fails.
- + `file.c:140`: a task killed in a call has a reference to its descriptor, `sys_close` does not
  empty it, and the assert of `fs_close_all_files` fails. If the call was a close that had lowered the
  counts, the exit lowers them once more.
- + `file.c:121-127`: a fork killed between the counting of a descriptor and its installation leaves
  the counts too high for ever: `Counts` includes this.
- + `exit.c:160-161`: a task that is killed and rescheduled after `ll_insert` and before `TF_EXITING`
  is in the kill queue twice. One node stays there when it is freed, and the next walk of
  `__KT_try_releasing_tasks` reads it.
- + `wait.c:78`: the task that waitpid has looked up may be freed before its parent is read.
- + `signal.c:106-125`: the same for the receiver of a SIGKILL between the test of its state and the
  writing of it.
- + After a parent is freed, a child outside the primary queue keeps a pointer to it.
- + A task can be released after it stops being `cpu->cur` and before it has left its stack; the
  comment at `exit.c:22` rules that out.
- + `exit.c:170-171`: the parent pointer is tested, then read again, and may be NULL by then.
- + `waitpid(pid)` of a named child does not mark it; only `waitpid(-1)` does.
- + `wait.c:16-18`: a target that exits before `waiting` is set never wakes the waiter.
- `block.c:145`: a read that missed can overwrite a newer, dirty element with what it read, and
  clear its dirty flag. The states of `BlockCache` include this for the block that is free for all.
- `block_cache.c:2` calls the cache write-through. It is write-back.
- In parts not modelled yet: `signal.c:146`, cancelling the first alarm leaves it at the start of the
  list; `map.c:102` returns with `map_lock` held; `queue.c:34` and `tqueue.c:62` count a removal
  that did not happen; `kthread.c:79` waits for a flag that a killed thread never sets.

## 7. Plan

1. Memory: `pmm.c`, `valloc.c` and the slabs as one module, an allocator that never gives out twice
   what is in use as the abstract specification, with exhaustion and splitting.
2. The alarm list, task queues and the walk of the scheduler; kernel threads.
3. File system core: counts of inodes, lookup against the last put, unlink and rmdir, mounts;
   record locks; shared mappings.
4. Network: packet counts, the data queue, ARP; then sockets. The module list.
5. Lists, queues and hash tables as operators checked against sets and sequences.
6. Proofs: `OneDrain` and `NotForgotten` of `Interrupt`, `NothingLost` and `Synced` of `BlockCache`,
   `Counts` and `Queued` of `Pipe`, and the refinement of `RWLockSpec`.

Not planned: device protocols of drivers, page tables and other architecture code, on-disk formats,
ELF, escape sequences. They are data formats and hardware interfaces, with little control to check.
