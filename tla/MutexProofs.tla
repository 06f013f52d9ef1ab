----------------------------- MODULE MutexProofs -----------------------------
(***************************************************************************)
(* For every set of tasks, however many of them are in system calls, are   *)
(* interrupted or acquire twice: the word and the owner of the mutex agree *)
(* with what the tasks are doing, and no check of mutex_release fails.     *)
(***************************************************************************)
EXTENDS Mutex, TLAPS

IInv == TypeOK /\ OneOwner /\ InnerLock /\ NoSelfWait /\ ReleasesAreOwners

\* Initially nobody uses the mutex.
LEMMA InitIInv == Init => IInv
  BY MutexAssumption
  DEF Init, IInv, TypeOK, OneOwner, InnerLock, NoSelfWait, ReleasesAreOwners, Owns, Ctx, Label, Panics

\* What a step of the context that runs does to the labels: it is the handler's
\* if there is one, and else the base code's.
LEMMA GotoMoves ==
  ASSUME TypeOK, NEW t \in Tasks, NEW a \in Label, NEW b \in Label, At(t, a), Goto(t, b), a # "none"
  PROVE  \E c \in Ctx :
           /\ pc[t][c] = a /\ pc' = [pc EXCEPT ![t][c] = b] /\ Active(t) = c
           /\ pc' \in [Tasks -> [Ctx -> Label]]
           /\ c = "base" => pc[t]["hnd"] = "none"
           /\ c = "hnd" => pc[t]["hnd"] # "none"
  <1> DEFINE c == Active(t)
  <1>1. c \in Ctx  BY DEF Active, Ctx
  <1>2. pc[t] \in [Ctx -> Label]  BY DEF TypeOK
  <1>3. [pc[t] EXCEPT ![c] = b] \in [Ctx -> Label]  BY <1>1, <1>2
  <1>4. pc' = [pc EXCEPT ![t][c] = b]  BY DEF Goto
  <1>5. pc' \in [Tasks -> [Ctx -> Label]]  BY <1>3, <1>4 DEF TypeOK
  <1>6. /\ c = "base" => pc[t]["hnd"] = "none"
        /\ c = "hnd" => pc[t]["hnd"] # "none"
    BY DEF Active
  <1> QED  BY <1>1, <1>4, <1>5, <1>6 DEF At

\* A stop keeps the invariant: what it says of a running system is void.
LEMMA StopKeeps ==
  ASSUME IInv, NEW why \in Panics \ {"notowner", "assert"}, Stop(why)
  PROVE  IInv'
  BY DEF Stop, IInv, TypeOK, OneOwner, InnerLock, NoSelfWait, ReleasesAreOwners, Panics

\* So does every step outside the running system that keeps the state typed.
LEMMA NotUpKeeps ==
  ASSUME TypeOK', sys' # "up", sys' \notin {"notowner", "assert"}
  PROVE  IInv'
  BY DEF IInv, OneOwner, InnerLock, NoSelfWait, ReleasesAreOwners

\* One step of a task that moves context c from a to b in the running system.
Move(t, c, a, b) ==
  /\ pc[t][c] = a /\ pc' = [pc EXCEPT ![t][c] = b]
  /\ c = "base" => pc[t]["hnd"] = "none"

\* The labels after a move, one by one.
LEMMA MoveLabels ==
  ASSUME TypeOK, NEW t \in Tasks, NEW c \in Ctx, NEW a, NEW b, Move(t, c, a, b)
  PROVE  /\ pc'[t][c] = b
         /\ \A d \in Ctx : d # c => pc'[t][d] = pc[t][d]
         /\ \A u \in Tasks : u # t => pc'[u] = pc[u]
  BY DEF Move, TypeOK, Ctx

Outside == {"none", "idle", "nolock", "spin"}

\* A move outside the mutex keeps the invariant, unless a handler begins to wait
\* on top of base code that holds it.
LEMMA QuietMove ==
  ASSUME IInv, TypeOK', sys = "up", sys' = "up", lock' = lock, pid' = pid,
         NEW t \in Tasks, NEW c \in Ctx, NEW a \in Outside, NEW b \in Outside, Move(t, c, a, b),
         b = "spin" => pid # t
  PROVE  IInv'
  <1>1. /\ pc'[t][c] = b
        /\ \A d \in Ctx : d # c => pc'[t][d] = pc[t][d]
        /\ \A u \in Tasks : u # t => pc'[u] = pc[u]
    BY MoveLabels DEF IInv
  <1>2. pc[t][c] = a  BY DEF Move
  <1>3. \A u \in Tasks, d \in Ctx : Owns(u, d)' <=> Owns(u, d)
    BY <1>1, <1>2 DEF Owns, Outside
  <1>4. \A u \in Tasks, d \in Ctx : \A l \in {"inner", "relocked", "held"} : pc'[u][d] = l <=> pc[u][d] = l
    BY <1>1, <1>2 DEF Outside
  <1>5. OneOwner'
    <2>1. \A u \in Tasks : (pid' = u) <=> (\E d \in Ctx : pc'[u][d] \in {"held", "relocked"})
      BY <1>4 DEF IInv, OneOwner
    <2> QED  BY <1>3, <2>1 DEF IInv, OneOwner
  <1>6. InnerLock'
    <2>1. ("int" \in lock') <=> (\E u \in Tasks, d \in Ctx : pc'[u][d] \in {"inner", "relocked"})
      BY <1>4 DEF IInv, InnerLock
    <2>2. \A u \in Tasks : /\ pc'[u]["hnd"] = "inner" => pc'[u]["base"] = "held"
                           /\ pc'[u]["base"] = "relocked" => u \in Syscalls
                           /\ pc'[u]["base"] # "inner" /\ pc'[u]["hnd"] # "relocked"
      BY <1>4 DEF IInv, InnerLock, Ctx
    <2> QED  BY <2>1, <2>2 DEF InnerLock
  <1>7. NoSelfWait'
    <2> SUFFICES ASSUME NEW u \in Tasks, pc'[u]["hnd"] \in {"spin", "won", "held"}
                 PROVE  pc'[u]["base"] \notin {"held", "relocked"}
      BY DEF NoSelfWait
    <2>1. CASE u # t  BY <1>1, <2>1 DEF IInv, NoSelfWait
    <2>2. CASE u = t /\ c = "base"  BY <1>1, <2>2 DEF Outside
    <2>3. CASE u = t /\ c = "hnd"
      <3>1. pc'[t]["base"] = pc[t]["base"]  BY <1>1, <2>3 DEF Ctx
      <3>2. b = "spin"  BY <1>1, <2>3 DEF Outside
      <3>3. \A d \in Ctx : pc[t][d] \notin {"held", "relocked"}  BY <3>2 DEF IInv, OneOwner
      <3> QED  BY <3>1, <3>3, <2>3 DEF Ctx
    <2> QED  BY <2>1, <2>2, <2>3 DEF Ctx
  <1> QED  BY <1>5, <1>6, <1>7 DEF IInv, ReleasesAreOwners

\* A successful bts: nobody owned the mutex.
LEMMA WinMove ==
  ASSUME IInv, TypeOK', sys = "up", sys' = "up", "held" \notin lock, lock' = lock \cup {"held"}, pid' = pid,
         NEW t \in Tasks, NEW c \in Ctx, Move(t, c, "spin", "won")
  PROVE  IInv'
  <1>1. /\ pc'[t][c] = "won"
        /\ \A d \in Ctx : d # c => pc'[t][d] = pc[t][d]
        /\ \A u \in Tasks : u # t => pc'[u] = pc[u]
    BY MoveLabels DEF IInv
  <1>2. pc[t][c] = "spin"  BY DEF Move
  <1>3. \A u \in Tasks, d \in Ctx : ~Owns(u, d)  BY DEF IInv, OneOwner
  <1>4. \A u \in Tasks, d \in Ctx : Owns(u, d)' <=> (u = t /\ d = c)  BY <1>1, <1>3 DEF Owns
  <1>5. OneOwner'
    <2>1. \A u \in Tasks, d \in Ctx : pc'[u][d] \notin {"held", "relocked"}
      BY <1>1, <1>3 DEF Owns
    <2>2. \A u \in Tasks : pid' # u  BY <1>3 DEF IInv, OneOwner, Owns
    <2> QED  BY <1>4, <2>1, <2>2 DEF OneOwner
  <1>6. InnerLock'
    <2>1. \A u \in Tasks, d \in Ctx : pc[u][d] \notin {"inner", "relocked"}
      BY <1>3 DEF IInv, InnerLock, Owns, Ctx
    <2>2. \A u \in Tasks, d \in Ctx : pc'[u][d] \notin {"inner", "relocked"}  BY <1>1, <2>1
    <2> QED  BY <2>1, <2>2 DEF IInv, InnerLock, Ctx
  <1>7. NoSelfWait'
    <2>1. \A u \in Tasks : pc'[u]["base"] \notin {"held", "relocked"}  BY <1>1, <1>3 DEF Owns, Ctx
    <2> QED  BY <2>1 DEF NoSelfWait
  <1> QED  BY <1>5, <1>6, <1>7 DEF IInv, ReleasesAreOwners

\* The winner records itself.
LEMMA RecordMove ==
  ASSUME IInv, TypeOK', sys = "up", sys' = "up", lock' = lock,
         NEW t \in Tasks, pid' = t, NEW c \in Ctx, Move(t, c, "won", "held")
  PROVE  IInv'
  <1>1. /\ pc'[t][c] = "held"
        /\ \A d \in Ctx : d # c => pc'[t][d] = pc[t][d]
        /\ \A u \in Tasks : u # t => pc'[u] = pc[u]
    BY MoveLabels DEF IInv
  <1>2. pc[t][c] = "won"  BY DEF Move
  <1>3. \A u \in Tasks, d \in Ctx : Owns(u, d) => u = t /\ d = c
    BY <1>2 DEF IInv, OneOwner, Owns
  <1>4. \A u \in Tasks, d \in Ctx : Owns(u, d)' <=> Owns(u, d)  BY <1>1, <1>2 DEF Owns
  <1>5. OneOwner'
    <2>1. \A u \in Tasks, d \in Ctx : pc'[u][d] \in {"held", "relocked"} <=> (u = t /\ d = c)
      BY <1>1, <1>3 DEF Owns
    <2> QED  BY <1>4, <2>1 DEF IInv, OneOwner
  <1>8. \A u \in Tasks, d \in Ctx : pc[u][d] \notin {"inner", "relocked"}
    BY <1>2, <1>3 DEF IInv, InnerLock, Owns, Ctx
  <1>6. InnerLock'
    <2>2. \A u \in Tasks, d \in Ctx : pc'[u][d] \notin {"inner", "relocked"}  BY <1>1, <1>8
    <2> QED  BY <1>8, <2>2 DEF IInv, InnerLock, Ctx
  <1>7. NoSelfWait'
    <2>1. \A u \in Tasks : pc'[u]["base"] \in {"held", "relocked"} => u = t /\ c = "base"
      BY <1>1, <1>3 DEF Owns, Ctx
    <2>2. c = "base" => pc'[t]["hnd"] = "none"  BY <1>1 DEF Move, Ctx
    <2> QED  BY <2>1, <2>2 DEF NoSelfWait
  <1> QED  BY <1>5, <1>6, <1>7 DEF IInv, ReleasesAreOwners

\* The owner clears itself.
LEMMA GiveUpMove ==
  ASSUME IInv, TypeOK', sys = "up", sys' = "up", lock' = lock, "int" \notin lock, pid' = NoTask,
         NEW t \in Tasks, NEW c \in Ctx, Move(t, c, "held", "rel")
  PROVE  IInv'
  <1>1. /\ pc'[t][c] = "rel"
        /\ \A d \in Ctx : d # c => pc'[t][d] = pc[t][d]
        /\ \A u \in Tasks : u # t => pc'[u] = pc[u]
    BY MoveLabels DEF IInv
  <1>2. pc[t][c] = "held"  BY DEF Move
  <1>3. \A u \in Tasks, d \in Ctx : Owns(u, d) => u = t /\ d = c
    BY <1>2 DEF IInv, OneOwner, Owns
  <1>4. \A u \in Tasks, d \in Ctx : Owns(u, d)' <=> Owns(u, d)  BY <1>1, <1>2 DEF Owns
  <1>9. \A u \in Tasks, d \in Ctx : pc'[u][d] \notin {"held", "relocked"}
    BY <1>1, <1>3 DEF Owns
  <1>5. OneOwner'  BY <1>4, <1>9, MutexAssumption DEF IInv, OneOwner
  <1>6. InnerLock'
    <2>1. \A u \in Tasks, d \in Ctx : pc[u][d] \notin {"inner", "relocked"}  BY DEF IInv, InnerLock
    <2>2. \A u \in Tasks, d \in Ctx : pc'[u][d] \notin {"inner", "relocked"}  BY <1>1, <2>1
    <2> QED  BY <2>1, <2>2 DEF IInv, InnerLock, Ctx
  <1>7. NoSelfWait'  BY <1>9 DEF NoSelfWait, Ctx
  <1> QED  BY <1>5, <1>6, <1>7 DEF IInv, ReleasesAreOwners

\* The btr.
LEMMA ClearMove ==
  ASSUME IInv, TypeOK', sys = "up", sys' = "up", lock' = lock \ {"held"}, pid' = pid,
         NEW t \in Tasks, NEW c \in Ctx, Move(t, c, "rel", "idle")
  PROVE  IInv'
  <1>1. /\ pc'[t][c] = "idle"
        /\ \A d \in Ctx : d # c => pc'[t][d] = pc[t][d]
        /\ \A u \in Tasks : u # t => pc'[u] = pc[u]
    BY MoveLabels DEF IInv
  <1>2. pc[t][c] = "rel"  BY DEF Move
  <1>3. \A u \in Tasks, d \in Ctx : Owns(u, d) => u = t /\ d = c
    BY <1>2 DEF IInv, OneOwner, Owns
  <1>4. \A u \in Tasks, d \in Ctx : ~Owns(u, d)'  BY <1>1, <1>3 DEF Owns
  <1>8. \A u \in Tasks, d \in Ctx : pc[u][d] \notin {"held", "relocked"}  BY <1>2, <1>3 DEF Owns
  <1>9. \A u \in Tasks, d \in Ctx : pc'[u][d] \notin {"held", "relocked"}  BY <1>4 DEF Owns
  <1>5. OneOwner'  BY <1>4, <1>8, <1>9 DEF IInv, OneOwner
  <1>6. InnerLock'
    <2>1. \A u \in Tasks, d \in Ctx : pc[u][d] \notin {"inner", "relocked"}  BY <1>8 DEF IInv, InnerLock, Ctx
    <2>2. \A u \in Tasks, d \in Ctx : pc'[u][d] \notin {"inner", "relocked"}  BY <1>1, <2>1
    <2> QED  BY <2>1, <2>2 DEF IInv, InnerLock, Ctx
  <1>7. NoSelfWait'  BY <1>9 DEF NoSelfWait, Ctx
  <1> QED  BY <1>5, <1>6, <1>7 DEF IInv, ReleasesAreOwners

\* A handler acquires what the base code below it holds.
LEMMA InnerMove ==
  ASSUME IInv, TypeOK', sys = "up", sys' = "up", lock' = lock \cup {"int"}, "int" \notin lock, pid' = pid,
         NEW t \in Tasks, pid = t, NEW c \in Ctx, Move(t, c, "idle", "inner")
  PROVE  IInv'
  <1>1. /\ pc'[t][c] = "inner"
        /\ \A d \in Ctx : d # c => pc'[t][d] = pc[t][d]
        /\ \A u \in Tasks : u # t => pc'[u] = pc[u]
    BY MoveLabels DEF IInv
  <1>2. pc[t][c] = "idle"  BY DEF Move
  <1>3. c = "hnd" /\ pc[t]["base"] \in {"held", "relocked"}
    BY <1>2 DEF IInv, OneOwner, Move, Ctx
  <1>4. \A u \in Tasks, d \in Ctx : Owns(u, d)' <=> Owns(u, d)  BY <1>1, <1>2 DEF Owns
  <1>5. OneOwner'
    <2>1. \A u \in Tasks, d \in Ctx : pc'[u][d] \in {"held", "relocked"} <=> pc[u][d] \in {"held", "relocked"}
      BY <1>1, <1>2
    <2> QED  BY <1>4, <2>1 DEF IInv, OneOwner
  <1>6. InnerLock'
    <2>1. pc[t]["base"] = "held"  BY <1>3 DEF IInv, InnerLock, Ctx
    <2>2. \A u \in Tasks : /\ pc'[u]["hnd"] = "inner" => pc'[u]["base"] = "held"
                           /\ pc'[u]["base"] = "relocked" => u \in Syscalls
                           /\ pc'[u]["base"] # "inner" /\ pc'[u]["hnd"] # "relocked"
      BY <1>1, <1>3, <2>1 DEF IInv, InnerLock, Ctx
    <2>3. \E u \in Tasks, d \in Ctx : pc'[u][d] \in {"inner", "relocked"}  BY <1>1
    <2> QED  BY <2>2, <2>3 DEF InnerLock
  <1>7. NoSelfWait'  BY <1>1, <1>3 DEF IInv, NoSelfWait, Ctx
  <1> QED  BY <1>5, <1>6, <1>7 DEF IInv, ReleasesAreOwners

\* The base code of a system call acquires what it holds.
LEMMA AgainMove ==
  ASSUME IInv, TypeOK', sys = "up", sys' = "up", lock' = lock \cup {"int"}, "int" \notin lock, pid' = pid,
         NEW t \in Tasks, pid = t, t \in Syscalls, Move(t, "base", "held", "relocked")
  PROVE  IInv'
  <1>1. /\ pc'[t]["base"] = "relocked"
        /\ \A d \in Ctx : d # "base" => pc'[t][d] = pc[t][d]
        /\ \A u \in Tasks : u # t => pc'[u] = pc[u]
    BY MoveLabels DEF IInv, Ctx
  <1>2. pc[t]["base"] = "held"  BY DEF Move
  <1>4. \A u \in Tasks, d \in Ctx : Owns(u, d)' <=> Owns(u, d)  BY <1>1, <1>2 DEF Owns
  <1>5. OneOwner'
    <2>1. \A u \in Tasks, d \in Ctx : pc'[u][d] \in {"held", "relocked"} <=> pc[u][d] \in {"held", "relocked"}
      BY <1>1, <1>2
    <2> QED  BY <1>4, <2>1 DEF IInv, OneOwner
  <1>6. InnerLock'
    <2>1. pc[t]["hnd"] # "inner"  BY DEF Move
    <2>2. \A u \in Tasks : /\ pc'[u]["hnd"] = "inner" => pc'[u]["base"] = "held"
                           /\ pc'[u]["base"] = "relocked" => u \in Syscalls
                           /\ pc'[u]["base"] # "inner" /\ pc'[u]["hnd"] # "relocked"
      BY <1>1, <2>1 DEF IInv, InnerLock, Ctx
    <2>3. \E u \in Tasks, d \in Ctx : pc'[u][d] \in {"inner", "relocked"}  BY <1>1 DEF Ctx
    <2> QED  BY <2>2, <2>3 DEF InnerLock
  <1>7. NoSelfWait'  BY <1>1 DEF IInv, NoSelfWait, Ctx, Move
  <1> QED  BY <1>5, <1>6, <1>7 DEF IInv, ReleasesAreOwners

\* The release of a second acquire, by the handler or by the base code.
LEMMA InnerReleaseMove ==
  ASSUME IInv, TypeOK', sys = "up", sys' = "up", lock' = lock \ {"int"}, pid' = pid,
         NEW t \in Tasks, NEW c \in Ctx,
         Move(t, c, "inner", "idle") \/ Move(t, c, "relocked", "held")
  PROVE  IInv'
  <1>1. /\ pc'[t][c] \in {"idle", "held"}
        /\ \A d \in Ctx : d # c => pc'[t][d] = pc[t][d]
        /\ \A u \in Tasks : u # t => pc'[u] = pc[u]
        /\ pc'[t][c] = "held" <=> pc[t][c] = "relocked"
    BY MoveLabels DEF IInv, Move
  <1>2. pc[t][c] \in {"inner", "relocked"}  BY DEF Move
  <1>4. \A u \in Tasks, d \in Ctx : Owns(u, d)' <=> Owns(u, d)  BY <1>1, <1>2 DEF Owns
  <1>5. OneOwner'
    <2>1. \A u \in Tasks, d \in Ctx : pc'[u][d] \in {"held", "relocked"} <=> pc[u][d] \in {"held", "relocked"}
      BY <1>1, <1>2
    <2> QED  BY <1>4, <2>1 DEF IInv, OneOwner
  <1>6. InnerLock'
    <2>1. \A u \in Tasks, d \in Ctx : pc[u][d] \in {"inner", "relocked"} => u = t /\ d = c
      <3> SUFFICES ASSUME NEW u \in Tasks, NEW d \in Ctx, pc[u][d] \in {"inner", "relocked"}
                   PROVE  u = t /\ d = c
        OBVIOUS
      <3>1. /\ pc[t]["base"] \in {"held", "relocked"} /\ pc[u]["base"] \in {"held", "relocked"}
            /\ pc[t]["base"] = "held" <=> c = "hnd"
            /\ pc[u]["base"] = "held" <=> d = "hnd"
        BY <1>2 DEF IInv, InnerLock, Ctx
      <3>2. u = t  BY <3>1 DEF IInv, OneOwner, Owns, Ctx
      <3> QED  BY <3>1, <3>2 DEF Ctx
    <2>2. \A u \in Tasks, d \in Ctx : pc'[u][d] \notin {"inner", "relocked"}  BY <1>1, <2>1
    <2> QED  BY <2>2 DEF InnerLock, Ctx
  <1>7. NoSelfWait'
    <2>1. c = "hnd" => pc'[t]["hnd"] = "idle"  BY <1>1 DEF IInv, InnerLock, Ctx
    <2>2. c = "base" => pc'[t]["hnd"] = "none"  BY <1>1 DEF Move, Ctx
    <2> QED  BY <1>1, <2>1, <2>2 DEF IInv, NoSelfWait, Ctx
  <1> QED  BY <1>5, <1>6, <1>7 DEF IInv, ReleasesAreOwners

\* The context that a Goto moves.
LEMMA StepMoves ==
  ASSUME IInv, NEW t \in Tasks, NEW a \in Label, NEW b \in Label, At(t, a), Goto(t, b), a # "none"
  PROVE  \E c \in Ctx : Move(t, c, a, b) /\ c = Active(t) /\ pc' \in [Tasks -> [Ctx -> Label]]
  BY GotoMoves DEF IInv, Move

\* The checks an operation begins with only act outside the running system.
LEMMA SkipKeeps ==
  ASSUME IInv, NEW t \in Tasks, NEW a \in Label, NEW b \in Label, At(t, a), a # "none", Skip(t, b)
  PROVE  IInv'
  <1>1. CASE sys = "shutdown" /\ Goto(t, b) /\ UNCHANGED <<lock, pid, sys>>
    <2>1. pc' \in [Tasks -> [Ctx -> Label]]  BY <1>1, StepMoves
    <2>2. TypeOK'  BY <1>1, <2>1 DEF IInv, TypeOK
    <2> QED  BY <1>1, <2>2, NotUpKeeps
  <1>2. CASE sys = "destroyed" /\ Stop("badmagic")  BY <1>2, StopKeeps DEF Panics
  <1> QED  BY <1>1, <1>2 DEF Skip

\* Moves after the system went down need only be typed.
LEMMA DownMove ==
  ASSUME IInv, sys # "up", sys' = sys, NEW t \in Tasks, NEW a \in Label, NEW b \in Label,
         At(t, a), a # "none", Goto(t, b), lock' \subseteq {"held", "int"}, pid' \in Tasks \cup {NoTask}
  PROVE  IInv'
  <1>1. pc' \in [Tasks -> [Ctx -> Label]]  BY StepMoves
  <1>2. TypeOK'  BY <1>1 DEF IInv, TypeOK
  <1> QED  BY <1>2, NotUpKeeps DEF IInv, ReleasesAreOwners

\* The tests of an acquire.
LEMMA AcquireKeeps ==
  ASSUME IInv, NEW t \in Tasks, sys = "up",
         \/ At(t, "idle") /\ AcquireTests(t, "inner")
         \/ At(t, "held") /\ Active(t) = "base" /\ AcquireTests(t, "relocked")
  PROVE  IInv'
  <1>1. CASE Relocks(t)  BY <1>1, StopKeeps DEF AcquireTests, Panics
  <1>2. CASE ~Relocks(t) /\ pid = t /\ InInt(t)
    <2>1. "held" \in lock  BY <1>2 DEF IInv, OneOwner, Owns
    <2>2. "int" \notin lock  BY <1>2, <2>1 DEF Relocks
    <2>3. CASE At(t, "idle") /\ AcquireTests(t, "inner")
      <3>1. Goto(t, "inner") /\ lock' = lock \cup {"int"} /\ pid' = pid /\ sys' = sys
        BY <1>2, <2>3 DEF AcquireTests
      <3>2. PICK c \in Ctx : Move(t, c, "idle", "inner") /\ pc' \in [Tasks -> [Ctx -> Label]]
        BY <2>3, <3>1, StepMoves DEF Label
      <3>3. TypeOK'  BY <3>1, <3>2 DEF IInv, TypeOK
      <3> QED  BY <1>2, <2>2, <3>1, <3>2, <3>3, InnerMove
    <2>4. CASE At(t, "held") /\ Active(t) = "base" /\ AcquireTests(t, "relocked")
      <3>1. Goto(t, "relocked") /\ lock' = lock \cup {"int"} /\ pid' = pid /\ sys' = sys
        BY <1>2, <2>4 DEF AcquireTests
      <3>2. Move(t, "base", "held", "relocked") /\ pc' \in [Tasks -> [Ctx -> Label]]
        BY <2>4, <3>1, StepMoves DEF Label
      <3>3. t \in Syscalls  BY <1>2, <3>2 DEF InInt, Move
      <3>4. TypeOK'  BY <3>1, <3>2 DEF IInv, TypeOK
      <3> QED  BY <1>2, <2>2, <3>1, <3>2, <3>3, <3>4, AgainMove
    <2> QED  BY <2>3, <2>4
  <1>3. CASE ~Relocks(t) /\ ~(pid = t /\ InInt(t))
    <2>1. Goto(t, "spin") /\ UNCHANGED <<lock, pid, sys>>  BY <1>3 DEF AcquireTests
    <2>2. pid # t  BY <1>3 DEF Relocks, IInv, OneOwner, Owns
    <2>3. At(t, "idle")
      <3>1. At(t, "held") => \E c \in Ctx : pc[t][c] = "held"  BY DEF At, Active, Ctx
      <3> QED  BY <2>2, <3>1 DEF IInv, OneOwner
    <2>4. PICK c \in Ctx : Move(t, c, "idle", "spin") /\ pc' \in [Tasks -> [Ctx -> Label]]
      BY <2>1, <2>3, StepMoves DEF Label
    <2>5. TypeOK'  BY <2>1, <2>4 DEF IInv, TypeOK
    <2> QED  BY <2>1, <2>2, <2>4, <2>5, QuietMove DEF Outside
  <1> QED  BY <1>1, <1>2, <1>3

\* The tests of a release: its caller is the owner, and MT_LCK_INT is set exactly
\* when the caller is inside a second acquire.
LEMMA ReleaseKeeps ==
  ASSUME IInv, NEW t \in Tasks, sys = "up",
         \/ At(t, "held") /\ ReleaseTests(t, "idle")
         \/ At(t, "inner") /\ ReleaseTests(t, "idle")
         \/ At(t, "relocked") /\ ReleaseTests(t, "held")
  PROVE  IInv'
  <1>1. PICK c \in Ctx : /\ c = Active(t)
                         /\ c = "base" => pc[t]["hnd"] = "none"
                         /\ c = "hnd" => pc[t]["hnd"] # "none"
    BY DEF Active, Ctx
  <1>2. CASE At(t, "held")
    <2>1. pc[t][c] = "held"  BY <1>1, <1>2 DEF At
    <2>2. pid = t /\ lock # {}  BY <2>1 DEF IInv, OneOwner, Owns
    <2>3. "int" \notin lock
      <3> SUFFICES ASSUME NEW u \in Tasks, NEW d \in Ctx, pc[u][d] \in {"inner", "relocked"}
                   PROVE  FALSE
        BY DEF IInv, InnerLock
      <3>1. pc[u]["base"] \in {"held", "relocked"} /\ (d = "hnd" => pc[u]["base"] = "held")
            /\ (d = "base" => pc[u]["base"] = "relocked")
        BY DEF IInv, InnerLock, Ctx
      <3>2. u = t /\ c = "base"  BY <2>1, <3>1 DEF IInv, OneOwner, Owns, Ctx
      <3>3. pc[t]["hnd"] = "none" /\ pc[t]["base"] = "held"  BY <1>1, <2>1, <3>2
      <3> QED  BY <3>2, <3>3 DEF Ctx
    <2>4. ReleaseTests(t, "idle")  BY <1>1, <1>2, <2>1 DEF At
    <2>5. pid' = NoTask /\ Goto(t, "rel") /\ UNCHANGED <<lock, sys>>  BY <2>2, <2>3, <2>4 DEF ReleaseTests
    <2>6. PICK d \in Ctx : Move(t, d, "held", "rel") /\ pc' \in [Tasks -> [Ctx -> Label]]
      BY <1>2, <2>5, StepMoves DEF Label
    <2>7. TypeOK'  BY <2>5, <2>6 DEF IInv, TypeOK
    <2> QED  BY <2>3, <2>5, <2>6, <2>7, GiveUpMove
  <1>3. CASE At(t, "inner") \/ At(t, "relocked")
    <2>1. pc[t][c] \in {"inner", "relocked"}  BY <1>1, <1>3 DEF At
    <2>2. pc[t]["base"] \in {"held", "relocked"} /\ "int" \in lock  BY <2>1 DEF IInv, InnerLock, Ctx
    <2>3. pid = t  BY <2>2 DEF IInv, OneOwner, Ctx
    <2>4. InInt(t)
      <3>1. CASE c = "hnd"  BY <1>1, <3>1 DEF InInt
      <3>2. CASE c = "base"  BY <2>1, <3>2 DEF IInv, InnerLock, InInt
      <3> QED  BY <3>1, <3>2 DEF Ctx
    <2>5. CASE At(t, "inner")
      <3>1. ReleaseTests(t, "idle")  BY <2>5 DEF At
      <3>2. lock' = lock \ {"int"} /\ Goto(t, "idle") /\ UNCHANGED <<pid, sys>>
        BY <2>2, <2>3, <2>4, <3>1 DEF ReleaseTests
      <3>3. PICK d \in Ctx : Move(t, d, "inner", "idle") /\ pc' \in [Tasks -> [Ctx -> Label]]
        BY <2>5, <3>2, StepMoves DEF Label
      <3>4. TypeOK'  BY <3>2, <3>3 DEF IInv, TypeOK
      <3> QED  BY <3>2, <3>3, <3>4, InnerReleaseMove
    <2>6. CASE At(t, "relocked")
      <3>1. ReleaseTests(t, "held")  BY <2>6 DEF At
      <3>2. lock' = lock \ {"int"} /\ Goto(t, "held") /\ UNCHANGED <<pid, sys>>
        BY <2>2, <2>3, <2>4, <3>1 DEF ReleaseTests
      <3>3. PICK d \in Ctx : Move(t, d, "relocked", "held") /\ pc' \in [Tasks -> [Ctx -> Label]]
        BY <2>6, <3>2, StepMoves DEF Label
      <3>4. TypeOK'  BY <3>2, <3>3 DEF IInv, TypeOK
      <3> QED  BY <3>2, <3>3, <3>4, InnerReleaseMove
    <2> QED  BY <1>3, <2>5, <2>6
  <1> QED  BY <1>2, <1>3

\* The step that ends the spin loop.
LEMMA BtsKeeps == ASSUME IInv, NEW t \in Tasks, Bts(t) PROVE IInv'
  <1>1. At(t, "spin") /\ Goto(t, "won") /\ lock' = lock \cup {"held"} /\ pid' = pid /\ sys' = sys
        /\ "held" \notin lock
    BY DEF Bts
  <1>2. CASE sys = "up"
    <2>1. PICK c \in Ctx : Move(t, c, "spin", "won") /\ pc' \in [Tasks -> [Ctx -> Label]]
      BY <1>1, StepMoves DEF Label
    <2>2. TypeOK'  BY <1>1, <2>1 DEF IInv, TypeOK
    <2> QED  BY <1>1, <1>2, <2>1, <2>2, WinMove
  <1>3. CASE sys # "up"
    <2>1. lock' \subseteq {"held", "int"} /\ pid' \in Tasks \cup {NoTask}  BY <1>1 DEF IInv, TypeOK
    <2> QED  BY <1>1, <1>3, <2>1, DownMove DEF Label
  <1> QED  BY <1>2, <1>3

\* Recording the owner.
LEMMA SetOwnerKeeps == ASSUME IInv, NEW t \in Tasks, SetOwner(t) PROVE IInv'
  <1>1. CASE lock = {}  BY <1>1, StopKeeps DEF SetOwner, Panics
  <1>2. CASE lock # {}
    <2>1. At(t, "won") /\ Goto(t, "held") /\ lock' = lock /\ pid' = t /\ sys' = sys  BY <1>2 DEF SetOwner
    <2>2. CASE sys = "up"
      <3>1. PICK c \in Ctx : Move(t, c, "won", "held") /\ pc' \in [Tasks -> [Ctx -> Label]]
        BY <2>1, StepMoves DEF Label
      <3>2. TypeOK'  BY <2>1, <3>1 DEF IInv, TypeOK
      <3> QED  BY <2>1, <2>2, <3>1, <3>2, RecordMove
    <2>3. CASE sys # "up"
      <3>1. lock' \subseteq {"held", "int"} /\ pid' \in Tasks \cup {NoTask}  BY <2>1 DEF IInv, TypeOK
      <3> QED  BY <2>1, <2>3, <3>1, DownMove DEF Label
    <2> QED  BY <2>2, <2>3
  <1> QED  BY <1>1, <1>2

\* The last step of a release.
LEMMA BtrKeeps == ASSUME IInv, NEW t \in Tasks, Btr(t) PROVE IInv'
  <1>1. At(t, "rel") /\ Goto(t, "idle") /\ lock' = lock \ {"held"} /\ pid' = pid /\ sys' = sys
    BY DEF Btr
  <1>2. CASE sys = "up"
    <2>1. PICK c \in Ctx : Move(t, c, "rel", "idle") /\ pc' \in [Tasks -> [Ctx -> Label]]
      BY <1>1, StepMoves DEF Label
    <2>2. TypeOK'  BY <1>1, <2>1 DEF IInv, TypeOK
    <2> QED  BY <1>1, <1>2, <2>1, <2>2, ClearMove
  <1>3. CASE sys # "up"
    <2>1. lock' \subseteq {"held", "int"} /\ pid' \in Tasks \cup {NoTask}  BY <1>1 DEF IInv, TypeOK
    <2> QED  BY <1>1, <1>3, <2>1, DownMove DEF Label
  <1> QED  BY <1>2, <1>3

\* A handler that arrives, or returns, holds nothing.
LEMMA HandlerKeeps == ASSUME IInv, NEW t \in Tasks, Interrupt(t) \/ HandlerReturns(t) PROVE IInv'
  <1>1. PICK a \in {"none", "idle"}, b \in {"none", "idle"} :
          pc[t]["hnd"] = a /\ pc' = [pc EXCEPT ![t]["hnd"] = b]
    BY DEF Interrupt, HandlerReturns
  <1>2. lock' = lock /\ pid' = pid /\ sys' = sys  BY DEF Interrupt, HandlerReturns
  <1>3. pc' \in [Tasks -> [Ctx -> Label]]
    <2>1. pc[t] \in [Ctx -> Label]  BY DEF IInv, TypeOK
    <2>2. [pc[t] EXCEPT !["hnd"] = b] \in [Ctx -> Label]  BY <2>1 DEF Ctx, Label
    <2> QED  BY <1>1, <2>2 DEF IInv, TypeOK
  <1>4. TypeOK'  BY <1>2, <1>3 DEF IInv, TypeOK
  <1>5. CASE sys = "up"
    <2>1. Move(t, "hnd", a, b)  BY <1>1 DEF Move
    <2> QED  BY <1>2, <1>4, <1>5, <2>1, QuietMove DEF Outside, Ctx
  <1>6. CASE sys # "up"  BY <1>2, <1>4, <1>6, NotUpKeeps DEF IInv, ReleasesAreOwners
  <1> QED  BY <1>5, <1>6

\* Every step keeps the invariant.
LEMMA NextIInv == IInv /\ [Next]_vars => IInv'
  <1> SUFFICES ASSUME IInv, [Next]_vars PROVE IInv'
    OBVIOUS
  <1>1. CASE UNCHANGED vars
    BY <1>1 DEF vars, IInv, TypeOK, OneOwner, InnerLock, NoSelfWait, ReleasesAreOwners, Owns
  <1>2. ASSUME NEW t \in Tasks, TaskStep(t) PROVE IInv'
    <2> USE <1>2
    <2>1. CASE Acquire(t)  BY <2>1, SkipKeeps, AcquireKeeps DEF Acquire, Label
    <2>2. CASE AcquireAgain(t)  BY <2>2, AcquireKeeps DEF AcquireAgain
    <2>3. CASE Bts(t)  BY <2>3, BtsKeeps
    <2>4. CASE SetOwner(t)  BY <2>4, SetOwnerKeeps
    <2>5. CASE Release(t)  BY <2>5, SkipKeeps, ReleaseKeeps DEF Release, Label
    <2>6. CASE ReleaseInner(t)  BY <2>6, SkipKeeps, ReleaseKeeps DEF ReleaseInner, Label
    <2>7. CASE ReleaseAgain(t)  BY <2>7, SkipKeeps, ReleaseKeeps DEF ReleaseAgain, Label
    <2>8. CASE ReleaseNothing(t)  BY <2>8, SkipKeeps DEF ReleaseNothing, Label
    <2>9. CASE Btr(t)  BY <2>9, BtrKeeps
    <2>10. CASE HandlerReturns(t)  BY <2>10, HandlerKeeps
    <2>11. CASE TimeOut(t)  BY <2>11, StopKeeps DEF TimeOut, Panics
    <2>12. CASE Interrupt(t)  BY <2>12, HandlerKeeps
    <2>13. CASE Destroy(t)
      BY <2>13 DEF Destroy, IInv, TypeOK, OneOwner, InnerLock, NoSelfWait, ReleasesAreOwners
    <2> QED
      BY <2>1, <2>2, <2>3, <2>4, <2>5, <2>6, <2>7, <2>8, <2>9, <2>10, <2>11, <2>12, <2>13
      DEF TaskStep, Progress
  <1>3. CASE Create
    <2>1. TypeOK'  BY <1>3 DEF Create, IInv, TypeOK
    <2>2. \A t \in Tasks : pc'[t]["base"] = "idle" /\ pc'[t]["hnd"] = "none"
      BY <1>3 DEF Create, AllIdle, Ctx
    <2> QED
      BY <1>3, <2>1, <2>2, MutexAssumption
      DEF Create, IInv, OneOwner, InnerLock, NoSelfWait, ReleasesAreOwners, Owns, Ctx
  <1>4. CASE Shutdown
    BY <1>4 DEF Shutdown, IInv, TypeOK, OneOwner, InnerLock, NoSelfWait, ReleasesAreOwners
  <1> QED  BY <1>1, <1>2, <1>3, <1>4 DEF Next

\* Whatever the tasks do, bit 0 of the word and the recorded owner name the one
\* context that owns the mutex, and no check of mutex_release fails.
THEOREM Invariance == Spec => []IInv
  BY InitIInv, NextIInv, PTL DEF Spec

\* At most one task owns a mutex, and m->pid names it.
THEOREM Ownership == Spec => []OneOwner
  <1>1. IInv => OneOwner  BY DEF IInv
  <1> QED  BY <1>1, Invariance, PTL

\* A release never finds the mutex free, another owner, or MT_LCK_INT outside an
\* interrupt.
THEOREM ReleaseChecksHold == Spec => []ReleasesAreOwners
  <1>1. IInv => ReleasesAreOwners  BY DEF IInv
  <1> QED  BY <1>1, Invariance, PTL

\* A handler never waits for a mutex whose recorded owner is the task below it.
THEOREM HandlersDoNotWait == Spec => []NoSelfWait
  <1>1. IInv => NoSelfWait  BY DEF IInv
  <1> QED  BY <1>1, Invariance, PTL
=============================================================================
