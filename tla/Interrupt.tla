------------------------------ MODULE Interrupt ------------------------------
(***************************************************************************)
(* Two-stage interrupt handling (kernel/cpu/interrupt.c).  A stage-1       *)
(* handler runs at once; a number that has stage-2 handlers is counted in  *)
(* stage2_count and maybe_handle_stage_2 is set, and whoever next reaches  *)
(* a safe point, the end of a system call or of an interrupt of user code, *)
(* drains the counts.  Each processor runs one task, which is in user mode *)
(* ("user") or in a system call ("sys").                                   *)
(***************************************************************************)
EXTENDS Integers, FiniteSets

CONSTANTS Cpus,
          N,          \* the interrupt numbers with stage-2 handlers are 1 .. N, 0 is the timer
          MaxCount,   \* bound on stage2_count
          Faulty      \* the numbers that the processor raises itself (ISRs), in user code too

ASSUME InterruptAssumption == N \in Nat \ {0} /\ MaxCount \in Nat \ {0} /\ Faulty \subseteq 1 .. N

VARIABLES count,      \* stage2_count
          maybe,      \* maybe_handle_stage_2
          handlers,   \* the numbers that have a stage-2 handler now
          owner,      \* who holds s2_lock
          pc,         \* where the processor is
          num,        \* int_no of the interrupt that is being handled
          need,       \* need_second_stage of that interrupt
          ret,        \* what the processor returns to: user code or a system call
          at,         \* i of the loop that drains the counts
          nest,       \* an interrupt on top of pc: its number, 0 if none
          added,      \* whether that interrupt has been counted
          left        \* history: the numbers whose count a drain has left above zero

base == <<pc, num, need, ret, at>>
nested == <<nest, added>>
vars == <<count, maybe, handlers, owner, base, nested, left>>

Nums == 1 .. N
NoCpu == "none"
Label == {"user", "sys", "end", "stage1", "add", "flag", "test", "clear", "lock", "scan", "run"}

Init ==
  /\ count = [n \in Nums |-> 0]
  /\ maybe = FALSE
  /\ handlers = {}
  /\ owner = NoCpu
  /\ pc = [c \in Cpus |-> "user"]
  /\ num = [c \in Cpus |-> 0]
  /\ need = [c \in Cpus |-> FALSE]
  /\ ret = [c \in Cpus |-> "user"]
  /\ at = [c \in Cpus |-> 1]
  /\ nest = [c \in Cpus |-> 0]
  /\ added = [c \in Cpus |-> FALSE]
  /\ left = {}

\* The code of a processor stands still while an interrupt is on top of it.
At(c, l) == pc[c] = l /\ nest[c] = 0
Goto(c, l) == pc' = [pc EXCEPT ![c] = l]
Step(c, l, m) == At(c, l) /\ Goto(c, m)

\* interrupt_register_handler and interrupt_unregister_handler.
Register(n) ==
  /\ n \notin handlers /\ handlers' = handlers \cup {n}
  /\ UNCHANGED <<count, maybe, owner, base, nested, left>>
Unregister(n) ==
  /\ n \in handlers /\ handlers' = handlers \ {n}
  /\ UNCHANGED <<count, maybe, owner, base, nested, left>>

-----------------------------------------------------------------------------
\* cpu_interrupt_syscall_entry, to the end of syscall_handler.
Syscall(c) ==
  /\ Step(c, "user", "sys")
  /\ UNCHANGED <<count, maybe, handlers, owner, num, need, ret, at, nested, left>>
SyscallEnds(c) ==
  /\ Step(c, "sys", "end")
  /\ UNCHANGED <<count, maybe, handlers, owner, num, need, ret, at, nested, left>>

\* if(maybe_handle_stage_2): drain, or return to user mode.
TestAtEnd(c) ==
  /\ Step(c, "end", IF maybe THEN "clear" ELSE "user")
  /\ ret' = [ret EXCEPT ![c] = "user"]
  /\ UNCHANGED <<count, maybe, handlers, owner, num, need, at, nested, left>>

\* __KT_try_handle_stage2_interrupts, from the loop of sys_waitpid.
TryHandle(c) ==
  /\ Step(c, "sys", "clear")
  /\ owner = NoCpu
  /\ ret' = [ret EXCEPT ![c] = "sys"]
  /\ UNCHANGED <<count, maybe, handlers, owner, num, need, at, nested, left>>

-----------------------------------------------------------------------------
(***************************************************************************)
(* cpu_interrupt_irq_entry, when it interrupts user code: it counts itself *)
(* if it has a second stage, and may drain.                                *)
(***************************************************************************)
\* The bound: no more than MaxCount interrupts of a number are pending.
Adding(c) == IF pc[c] \in {"stage1", "add"} THEN num[c] ELSE IF added[c] THEN 0 ELSE nest[c]
Room(n) == n # 0 => count[n] + Cardinality({c \in Cpus : Adding(c) = n}) < MaxCount
Irq(c, n) ==
  /\ Room(n)
  /\ Step(c, "user", "stage1")
  /\ num' = [num EXCEPT ![c] = n]
  /\ ret' = [ret EXCEPT ![c] = "user"]
  /\ UNCHANGED <<count, maybe, handlers, owner, need, at, nested, left>>

Stage1(c) ==
  /\ Step(c, "stage1", IF num[c] \in handlers THEN "add" ELSE "test")
  /\ need' = [need EXCEPT ![c] = num[c] \in handlers]
  /\ UNCHANGED <<count, maybe, handlers, owner, num, ret, at, nested, left>>

Counted(n) == count' = [count EXCEPT ![n] = @ + 1]
Add(c) ==
  /\ Step(c, "add", "flag")
  /\ Counted(num[c])
  /\ UNCHANGED <<maybe, handlers, owner, num, need, ret, at, nested, left>>
SetFlag(c) ==
  /\ Step(c, "flag", "test")
  /\ maybe' = TRUE
  /\ UNCHANGED <<count, handlers, owner, num, need, ret, at, nested, left>>
Test(c) ==
  /\ Step(c, "test", IF maybe \/ need[c] THEN "clear" ELSE "user")
  /\ num' = [num EXCEPT ![c] = 0]
  /\ need' = [need EXCEPT ![c] = FALSE]
  /\ UNCHANGED <<count, maybe, handlers, owner, ret, at, nested, left>>

(***************************************************************************)
(* An interrupt of a system call or of a stage-2 handler, and an exception *)
(* of these or of user code (cpu_interrupt_isr_entry): counted, and left   *)
(* for later.  Interrupts wait until they are on again.  An exception of   *)
(* the entry code and of the drain's own code, apart from the handlers it  *)
(* calls, is left out.                                                     *)
(***************************************************************************)
Nested(c, n) ==
  /\ nest[c] = 0 /\ Room(n)
  /\ pc[c] \in {"sys", "run"} \/ (n \in Faulty /\ pc[c] = "user")
  /\ n \in handlers
  /\ nest' = [nest EXCEPT ![c] = n]
  /\ UNCHANGED <<count, maybe, handlers, owner, base, added, left>>
NestedAdd(c) ==
  /\ nest[c] # 0 /\ ~added[c]
  /\ Counted(nest[c])
  /\ added' = [added EXCEPT ![c] = TRUE]
  /\ UNCHANGED <<maybe, handlers, owner, base, nest, left>>
NestedEnd(c, flag) ==
  /\ nest[c] # 0 /\ added[c]
  /\ maybe' = flag
  /\ added' = [added EXCEPT ![c] = FALSE]
  /\ nest' = [nest EXCEPT ![c] = 0]
  /\ UNCHANGED <<count, handlers, owner, base, left>>
\* Mutant: the flag is not set for an interrupt that cannot be drained here.
NestedFlag_Not(c) == NestedEnd(c, maybe)
NestedFlag(c) == NestedEnd(c, TRUE)

-----------------------------------------------------------------------------
(***************************************************************************)
(* The drain, the same three times in the source: the flag is cleared, the *)
(* lock taken, and one interrupt of every number that has any handled.     *)
(***************************************************************************)
Clear(c) ==
  /\ Step(c, "clear", "lock")
  /\ maybe' = FALSE
  /\ UNCHANGED <<count, handlers, owner, num, need, ret, at, nested, left>>

Take(c, ok) ==
  /\ Step(c, "lock", "scan")
  /\ ok
  /\ owner' = c
  /\ at' = [at EXCEPT ![c] = 1]
  /\ UNCHANGED <<count, maybe, handlers, num, need, ret, nested, left>>
\* Mutant: the lock is not waited for.
Lock_Not(c) == Take(c, TRUE)
Lock(c) == Take(c, owner = NoCpu)

\* if(stage2_count[i]): the test, and the decrement in a step of its own.
Scan(c) ==
  /\ at[c] <= N
  /\ Step(c, "scan", IF count[at[c]] > 0 THEN "run" ELSE "scan")
  /\ at' = IF count[at[c]] > 0 THEN at ELSE [at EXCEPT ![c] = @ + 1]
  /\ UNCHANGED <<count, maybe, handlers, owner, num, need, ret, nested, left>>

\* sub_atomic and the handlers.
RunWith(c, k) ==
  LET n == at[c]
  IN  /\ Step(c, "run", "scan")
      /\ count' = [count EXCEPT ![n] = @ - k]
      /\ left' = IF count[n] > 1 THEN left \cup {n} ELSE left \ {n}
      /\ at' = [at EXCEPT ![c] = @ + 1]
      /\ UNCHANGED <<maybe, handlers, owner, num, need, ret, nested>>
\* Mutant: the count is decremented twice.
Run_Twice(c) == RunWith(c, 2)
Run(c) == RunWith(c, 1)

DrainEnd(c, flag) ==
  /\ at[c] = N + 1
  /\ Step(c, "scan", ret[c])
  /\ owner' = NoCpu
  /\ maybe' = flag
  /\ ret' = [ret EXCEPT ![c] = "user"]
  /\ at' = [at EXCEPT ![c] = 1]
  /\ UNCHANGED <<count, handlers, num, need, nested, left>>
\* Mutant: the flag is cleared after the loop too.
Unlock_Clears(c) == DrainEnd(c, FALSE)
Unlock(c) == DrainEnd(c, maybe)

Proceeds(c) ==
  \/ SyscallEnds(c) \/ TestAtEnd(c) \/ Stage1(c) \/ Add(c) \/ SetFlag(c) \/ Test(c)
  \/ NestedAdd(c) \/ NestedFlag(c)
  \/ Clear(c) \/ Lock(c) \/ Scan(c) \/ Run(c) \/ Unlock(c)
Next ==
  \/ \E c \in Cpus :
       \/ Proceeds(c) \/ Syscall(c) \/ TryHandle(c)
       \/ \E n \in 0 .. N : Irq(c, n)
       \/ \E n \in Nums : Nested(c, n)
  \/ \E n \in Nums : Register(n) \/ Unregister(n)

Spec == Init /\ [][Next]_vars

(***************************************************************************)
(* What has begun goes on, and the timer interrupts user code: programs    *)
(* need not make system calls, nor devices raise interrupts.               *)
(***************************************************************************)
FairSpec == Spec /\ \A c \in Cpus : WF_vars(Proceeds(c)) /\ WF_vars(Irq(c, 0))

-----------------------------------------------------------------------------
\* Every variable has its type; stage2_count is unsigned and does not wrap.
TypeOK ==
  /\ count \in [Nums -> 0 .. MaxCount]
  /\ maybe \in BOOLEAN
  /\ handlers \subseteq Nums /\ left \subseteq Nums
  /\ owner \in Cpus \cup {NoCpu}
  /\ pc \in [Cpus -> Label]
  /\ num \in [Cpus -> 0 .. N]
  /\ need \in [Cpus -> BOOLEAN]
  /\ ret \in [Cpus -> {"user", "sys"}]
  /\ at \in [Cpus -> 1 .. (N + 1)]
  /\ nest \in [Cpus -> 0 .. N]
  /\ added \in [Cpus -> BOOLEAN]

(***************************************************************************)
(* The test of a count and its decrement are two steps, and no count goes  *)
(* below zero: between them nobody else decrements, for the drains exclude *)
(* each other.                                                             *)
(***************************************************************************)
OneDrain ==
  /\ \A c \in Cpus : pc[c] \in {"scan", "run"} => owner = c
  /\ \A c \in Cpus : pc[c] = "run" => count[at[c]] > 0

(***************************************************************************)
(* A counted interrupt is not forgotten: the flag is set, or about to be,  *)
(* or a drain has not come to its number yet, unless a drain has handled   *)
(* one of several interrupts of the number and left the others.            *)
(***************************************************************************)
SeesIt(c, n) ==
  \/ pc[c] \in {"flag", "test"} /\ need[c]
  \/ added[c]
  \/ pc[c] \in {"clear", "lock"}
  \/ pc[c] \in {"scan", "run"} /\ at[c] <= n
NotForgotten ==
  \A n \in Nums : count[n] > 0 => maybe \/ n \in left \/ \E c \in Cpus : SeesIt(c, n)

(***************************************************************************)
(* interrupt.c:366 "make sure it eventually gets handled", where that is   *)
(* so: a counted interrupt gets handled, or joins others of its number of  *)
(* which a drain leaves some.                                              *)
(***************************************************************************)
Handled == \A n \in Nums : (count[n] > 0) ~> (count[n] = 0 \/ n \in left)
=============================================================================
