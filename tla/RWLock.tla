------------------------------- MODULE RWLock -------------------------------
(***************************************************************************)
(* The reader/writer lock of kernel/rwlock.c, one step per access to the   *)
(* shared word.                                                            *)
(*                                                                         *)
(* locks is rwlock_t.locks: bit 0 is the write lock, which an acquirer     *)
(* also takes for a moment to get exclusive access to the word, and the    *)
(* other bits count readers in steps of 2.  pc[t] is where task t is.  A   *)
(* task that has not got what it asks for calls tm_schedule() and reads    *)
(* the word again; that is a step which changes nothing, so the action is  *)
(* simply not enabled until the test succeeds.                             *)
(***************************************************************************)
EXTENDS Integers, FiniteSets

CONSTANTS Tasks,       \* the tasks that use the lock
          Escalators   \* those that turn a reader lock into a writer lock

ASSUME RWLockAssumption == IsFiniteSet(Tasks) /\ Escalators \subseteq Tasks

VARIABLES locks,   \* the word
          pc,      \* [Tasks -> Label]
          sys      \* "up"; "shutdown": KSF_SHUTDOWN is set;
                   \* "destroyed": magic is 0; "badmagic": a call met that;
                   \* "panic": an assert on the word failed

vars == <<locks, pc, sys>>

Label == {"idle", "nolock", "reading", "writing",
          "w_wait", "w_bts", "w_check", "w_undo", "r_bts", "r_add", "r_btr",
          "esc", "esc_wait", "esc_bts", "esc_check", "esc_sub", "esc_undo",
          "missed", "down", "down_btr"}

Bit0 == locks % 2 = 1
SetBit0 == locks' = IF Bit0 THEN locks ELSE locks + 1
ClearBit0 == locks' = IF Bit0 THEN locks - 1 ELSE locks

Goto(t, l) == pc' = [pc EXCEPT ![t] = l]
Stop(why) == sys' = why /\ UNCHANGED <<locks, pc>>
Running == sys \notin {"panic", "badmagic"}

Init ==
  /\ locks = 0
  /\ pc = [t \in Tasks |-> "idle"]
  /\ sys = "up"

(***************************************************************************)
(* The three tests every operation starts with: the magic number must be   *)
(* right, during shutdown the operation does nothing, otherwise it goes on *)
(* at label l.  skipped is where the caller finds itself after a call that *)
(* did nothing.                                                            *)
(***************************************************************************)
Enter(t, l, skipped) ==
  \/ sys = "up" /\ Goto(t, l) /\ UNCHANGED <<locks, sys>>
  \/ sys = "shutdown" /\ Goto(t, skipped) /\ UNCHANGED <<locks, sys>>
  \/ sys = "destroyed" /\ Stop("badmagic")

\* One step of a call that is under way: the tests of Enter are behind it.
Step(t, from, to) == Running /\ pc[t] = from /\ Goto(t, to) /\ UNCHANGED sys

(***************************************************************************)
(* rwlock_acquire                                                          *)
(***************************************************************************)
AcquireReader(t) == pc[t] = "idle" /\ Enter(t, "r_bts", "nolock")
AcquireWriter(t) == pc[t] = "idle" /\ Enter(t, "w_wait", "nolock")

\* while(bts_atomic(&lock->locks, 0)): a failed bts leaves the word alone.
ReaderBts(t) == Step(t, "r_bts", "r_add") /\ ~Bit0 /\ SetBit0
ReaderAdd(t) == Step(t, "r_add", "r_btr") /\ locks' = locks + 2
\* Mutant: the reader forgets to give bit 0 back.
ReaderBtr_KeepsBit(t) == Step(t, "r_btr", "reading") /\ UNCHANGED locks
ReaderBtr(t) == Step(t, "r_btr", "reading") /\ ClearBit0

WriterWait(t) == Step(t, "w_wait", "w_bts") /\ locks = 0 /\ UNCHANGED locks
WriterBts(t) == Step(t, "w_bts", "w_check") /\ ~Bit0 /\ SetBit0
\* Mutant: having bit 0 is taken for having the lock.
WriterGot_NoTest(t) == Step(t, "w_check", "writing") /\ UNCHANGED locks
WriterGot(t) == Step(t, "w_check", "writing") /\ locks = 1 /\ UNCHANGED locks
WriterMissed(t) == Step(t, "w_check", "w_undo") /\ locks # 1 /\ UNCHANGED locks
\* Mutant: the back-off keeps bit 0.
WriterUndo_KeepsBit(t) == Step(t, "w_undo", "w_wait") /\ UNCHANGED locks
WriterUndo(t) == Step(t, "w_undo", "w_wait") /\ ClearBit0

(***************************************************************************)
(* rwlock_escalate from reader to writer.  The word is tested once: when   *)
(* bit 0 happens to be set, the call returns without having done anything, *)
(* and the caller (label "missed") goes on as if it were the writer.       *)
(***************************************************************************)
EscalateWriter(t) ==
  t \in Escalators /\ pc[t] = "reading" /\ Enter(t, "esc", "nolock")
EscTest(t) == Step(t, "esc", "esc_wait") /\ ~Bit0 /\ UNCHANGED locks
EscSkip(t) == Step(t, "esc", "missed") /\ Bit0 /\ UNCHANGED locks
EscWait(t) == Step(t, "esc_wait", "esc_bts") /\ locks = 2 /\ UNCHANGED locks
EscBts(t) == Step(t, "esc_bts", "esc_check") /\ ~Bit0 /\ SetBit0
\* Mutant: the escalation does not test for other readers.
EscGot_NoTest(t) == Step(t, "esc_check", "esc_sub") /\ UNCHANGED locks
EscGot(t) == Step(t, "esc_check", "esc_sub") /\ locks = 3 /\ UNCHANGED locks
EscMissed(t) == Step(t, "esc_check", "esc_undo") /\ locks # 3 /\ UNCHANGED locks
\* Mutant: the escalation takes its reader lock off the word twice.
EscSub_Twice(t) == Step(t, "esc_sub", "writing") /\ locks' = locks - 4
EscSub(t) == Step(t, "esc_sub", "writing") /\ locks' = locks - 2
EscUndo(t) == Step(t, "esc_undo", "esc_wait") /\ ClearBit0

\* rwlock_escalate from writer to reader: the test locks == 1, the add, the btr.
EscalateReader(t) ==
  /\ pc[t] = "writing"
  /\ Enter(t, IF locks = 1 THEN "down" ELSE "writing", "nolock")
\* Mutant: the new reader lock is not counted.
DownAdd_NoCount(t) == Step(t, "down", "down_btr") /\ UNCHANGED locks
DownAdd(t) == Step(t, "down", "down_btr") /\ locks' = locks + 2
DownBtr(t) == Step(t, "down_btr", "reading") /\ ClearBit0

(***************************************************************************)
(* rwlock_release: the asserts on the word and the atomic update.          *)
(***************************************************************************)
ReleaseReader(t) ==
  /\ pc[t] = "reading"
  /\ IF sys # "up" THEN Enter(t, "idle", "idle")
     ELSE IF locks < 2 THEN Stop("panic")
     ELSE locks' = locks - 2 /\ Goto(t, "idle") /\ UNCHANGED sys

ReleaseWriter(t) ==
  /\ pc[t] \in {"writing", "missed"}
  /\ IF sys # "up" THEN Enter(t, "idle", "idle")
     ELSE IF locks # 1 THEN Stop("panic")
     ELSE ClearBit0 /\ Goto(t, "idle") /\ UNCHANGED sys

\* A caller that acquired nothing during shutdown releases nothing either.
ReleaseNothing(t) == pc[t] = "nolock" /\ Enter(t, "idle", "idle")

(***************************************************************************)
(* rwlock_destroy does not look at the word: the callers in fs/vfs destroy *)
(* an inode's lock while they hold it as writer.  rwlock_create starts the *)
(* lock afresh, on an object no task uses any more.                        *)
(***************************************************************************)
Destroy(t) ==
  /\ pc[t] \in {"idle", "writing"}
  /\ sys = "up"
  /\ sys' = "destroyed"
  /\ Goto(t, "idle")
  /\ UNCHANGED locks

Create ==
  /\ sys = "destroyed"
  /\ \A t \in Tasks : pc[t] = "idle"
  /\ locks' = 0 /\ sys' = "up"
  /\ UNCHANGED pc

Shutdown == sys = "up" /\ sys' = "shutdown" /\ UNCHANGED <<locks, pc>>

AcquireSteps(t) ==
  \/ ReaderBts(t) \/ ReaderAdd(t) \/ ReaderBtr(t)
  \/ WriterWait(t) \/ WriterBts(t) \/ WriterGot(t) \/ WriterMissed(t) \/ WriterUndo(t)

EscalateSteps(t) ==
  \/ EscTest(t) \/ EscSkip(t) \/ EscWait(t) \/ EscBts(t) \/ EscGot(t)
  \/ EscMissed(t) \/ EscSub(t) \/ EscUndo(t) \/ DownAdd(t) \/ DownBtr(t)

Releases(t) == ReleaseReader(t) \/ ReleaseWriter(t) \/ ReleaseNothing(t)

TaskStep(t) ==
  \/ AcquireReader(t) \/ AcquireWriter(t) \/ AcquireSteps(t)
  \/ EscalateWriter(t) \/ EscalateReader(t) \/ EscalateSteps(t)
  \/ Releases(t) \/ Destroy(t)

Next == (\E t \in Tasks : TaskStep(t)) \/ Create \/ Shutdown

Spec == Init /\ [][Next]_vars

(***************************************************************************)
(* Fairness: the scheduler gives every runnable task its turn, so a call   *)
(* that can take its next step takes it, and a holder releases the lock.   *)
(***************************************************************************)
Fairness ==
  \A t \in Tasks : /\ WF_vars(AcquireSteps(t))
                   /\ WF_vars(EscalateSteps(t))
                   /\ WF_vars(Releases(t))
FairSpec == Spec /\ Fairness

-----------------------------------------------------------------------------
(***************************************************************************)
(* Properties                                                              *)
(***************************************************************************)
TypeOK ==
  /\ locks \in Nat
  /\ pc \in [Tasks -> Label]
  /\ sys \in {"up", "shutdown", "destroyed", "badmagic", "panic"}

\* The tasks that have set bit 0 and not cleared it yet, and those whose
\* reader lock the word counts.
BitLabels == {"r_add", "r_btr", "w_check", "w_undo", "writing", "esc_check", "esc_sub",
              "esc_undo", "down", "down_btr"}
CountedLabels == {"r_btr", "reading", "esc", "esc_wait", "esc_bts", "esc_check", "esc_sub",
                  "esc_undo", "missed", "down_btr"}
BitHolders == {t \in Tasks : pc[t] \in BitLabels}
Counted == {t \in Tasks : pc[t] \in CountedLabels}

\* The word says who is inside: bit 0 is owned by at most one task, and the rest
\* of the word is twice the number of reader locks, whatever the acquires,
\* escalations and releases that are half done (the encoding rwlock_acquire,
\* rwlock_escalate and rwlock_release share).  Releases that shutdown makes empty
\* leave more in the word than there are holders, never less.
LockWord ==
  LET bit == IF BitHolders = {} THEN 0 ELSE 1
      n == Cardinality(Counted)
  IN /\ \A t, u \in BitHolders : t = u
     /\ BitHolders # {} => Bit0
     /\ locks >= bit + 2 * n
     /\ sys = "up" => locks = bit + 2 * n

\* While a task is past the tests that make it the writer, the word counts no
\* reader but, in the middle of an escalation, the writer itself.
WriterExcludes ==
  \A t \in Tasks : /\ pc[t] \in {"writing", "down"} => Counted = {}
                   /\ pc[t] = "esc_sub" => Counted = {t}

\* What callers rely on: the task that rwlock_acquire or rwlock_escalate made
\* the writer is alone, no other reader and no other writer being inside.
InWriter == {t \in Tasks : pc[t] \in {"writing", "missed"}}
InReader == {t \in Tasks : pc[t] = "reading"}
MutualExclusion ==
  \A t \in InWriter : InReader = {} /\ InWriter = {t}

\* No assert on the word in rwlock_release fails, for callers that release
\* what they acquired.
NoFailedAssert == sys # "panic"

\* Somebody always gets in: when tasks are trying to acquire the lock they do
\* not all wait on each other for ever (a writer backing off from a reader that
\* has set bit 0, a reader waiting for the bit).  One task may starve.
Trying == {t \in Tasks : pc[t] \in {"r_bts", "w_wait", "w_bts", "w_check", "w_undo"}}
SomebodyGetsIn ==
  (sys = "up" /\ Trying # {}) ~> (sys # "up" \/ InReader # {} \/ InWriter # {})
=============================================================================
