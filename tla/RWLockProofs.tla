---------------------------- MODULE RWLockProofs ----------------------------
(***************************************************************************)
(* Proofs about RWLock for any set of tasks.  LockWord and WriterExcludes  *)
(* together with the types are inductive: WriterExcludes needs the word to *)
(* say who is inside, and LockWord needs to know that a writer meets no    *)
(* reader when it clears bit 0.                                            *)
(***************************************************************************)
EXTENDS RWLock, FiniteSetTheorems, TLAPS

IInv == TypeOK /\ LockWord /\ WriterExcludes

\* Bit 0 of a word that counts n readers.
LEMMA Parity == \A n \in Nat : (2 * n) % 2 = 0 /\ (1 + 2 * n) % 2 = 1
  OBVIOUS

\* A finite set of tasks has a natural number of members.
LEMMA CountedFinite == IsFiniteSet(Counted) /\ Cardinality(Counted) \in Nat
  <1>1. Counted \subseteq Tasks
    BY DEF Counted
  <1> QED
    BY <1>1, RWLockAssumption, FS_Subset, FS_CardinalityType

\* What the move of one task to label l does to the two sets of tasks.
LEMMA MoveSets ==
  ASSUME TypeOK, NEW t \in Tasks, NEW l \in Label, pc' = [pc EXCEPT ![t] = l]
  PROVE  /\ pc' \in [Tasks -> Label] /\ pc'[t] = l
         /\ \A u \in Tasks \ {t} : pc'[u] = pc[u]
         /\ BitHolders' = IF l \in BitLabels THEN BitHolders \cup {t} ELSE BitHolders \ {t}
         /\ Counted' = IF l \in CountedLabels THEN Counted \cup {t} ELSE Counted \ {t}
  <1>1. /\ pc' \in [Tasks -> Label] /\ pc'[t] = l
        /\ \A u \in Tasks \ {t} : pc'[u] = pc[u]
    BY DEF TypeOK
  <1>2. BitHolders' = IF l \in BitLabels THEN BitHolders \cup {t} ELSE BitHolders \ {t}
    BY <1>1 DEF BitHolders
  <1>3. Counted' = IF l \in CountedLabels THEN Counted \cup {t} ELSE Counted \ {t}
    BY <1>1 DEF Counted
  <1> QED
    BY <1>1, <1>2, <1>3

\* The word when bit 0 is clear, and when nobody or one task is counted.
LEMMA WordFacts ==
  ASSUME TypeOK, LockWord
  PROVE  /\ ~Bit0 => BitHolders = {}
         /\ locks \in {0, 1} => Counted = {}
         /\ \A t \in Counted : locks >= 2 /\ (locks \in {2, 3} => Counted = {t})
         /\ sys = "up" => (Bit0 <=> BitHolders # {})
  <1> DEFINE n == Cardinality(Counted)
  <1>1. n \in Nat /\ IsFiniteSet(Counted)
    BY CountedFinite
  <1>2. /\ locks >= (IF BitHolders = {} THEN 0 ELSE 1) + 2 * n
        /\ sys = "up" => locks = (IF BitHolders = {} THEN 0 ELSE 1) + 2 * n
        /\ locks \in Nat
    BY DEF LockWord, TypeOK
  <1>3. ~Bit0 => BitHolders = {}
    BY DEF LockWord
  <1>4. locks \in {0, 1} => Counted = {}
    <2>1. locks \in {0, 1} => n = 0
      <3> HIDE DEF n
      <3> QED BY <1>1, <1>2
    <2> QED
      BY <2>1, <1>1, FS_EmptySet
  <1>5. ASSUME NEW t \in Counted
        PROVE  locks >= 2 /\ (locks \in {2, 3} => Counted = {t})
    <2>1. Cardinality(Counted \ {t}) = n - 1 /\ IsFiniteSet(Counted \ {t})
      BY <1>1, <1>5, FS_RemoveElement
    <2>2. Cardinality(Counted \ {t}) \in Nat
      BY <2>1, FS_CardinalityType
    <2>3. n >= 1 /\ (n = 1 => Counted \ {t} = {})
      BY <1>1, <2>1, <2>2, FS_EmptySet
    <2>4. locks >= 2 /\ (locks \in {2, 3} => n = 1)
      <3> HIDE DEF n
      <3> QED BY <1>1, <1>2, <2>3
    <2> QED
      BY <2>3, <2>4, <1>5
  <1>6. sys = "up" => (Bit0 <=> BitHolders # {})
    <2> HIDE DEF n
    <2> QED BY <1>1, <1>2, Parity DEF Bit0
  <1> QED
    BY <1>3, <1>4, <1>5, <1>6

(***************************************************************************)
(* The ways a step changes the word, each of them keeping LockWord.        *)
(***************************************************************************)
LEMMA SetsBit ==
  ASSUME TypeOK, LockWord, ~Bit0, NEW t \in Tasks, sys' = sys,
         BitHolders' = BitHolders \cup {t}, Counted' = Counted, SetBit0
  PROVE  LockWord' /\ locks' \in Nat
  <1>1. BitHolders = {} /\ locks' = locks + 1 /\ locks \in Nat
    BY WordFacts DEF SetBit0, TypeOK
  <1>2. Bit0'
    BY <1>1 DEF Bit0
  <1> QED
    BY <1>1, <1>2, CountedFinite DEF LockWord

LEMMA ClearsBit ==
  ASSUME TypeOK, LockWord, NEW t \in BitHolders, sys' = sys,
         BitHolders' = BitHolders \ {t}, Counted' = Counted, ClearBit0
  PROVE  LockWord' /\ locks' \in Nat
  <1>1. BitHolders = {t} /\ Bit0 /\ locks' = locks - 1 /\ locks \in Nat
    BY DEF LockWord, TypeOK, ClearBit0
  <1>2. locks >= 1
    BY <1>1 DEF Bit0
  <1> QED
    BY <1>1, <1>2, CountedFinite DEF LockWord

LEMMA AddsReader ==
  ASSUME TypeOK, LockWord, NEW t \in Tasks, t \notin Counted, sys' = sys,
         BitHolders' = BitHolders, Counted' = Counted \cup {t}, locks' = locks + 2
  PROVE  LockWord' /\ locks' \in Nat
  <1>1. Cardinality(Counted') = Cardinality(Counted) + 1
    BY CountedFinite, FS_AddElement
  <1>2. locks \in Nat /\ (Bit0 => Bit0')
    BY DEF TypeOK, Bit0
  <1> QED
    BY <1>1, <1>2, CountedFinite DEF LockWord

LEMMA DropsReader ==
  ASSUME TypeOK, LockWord, NEW t \in Counted, sys' = sys,
         BitHolders' = BitHolders, Counted' = Counted \ {t}, locks' = locks - 2
  PROVE  LockWord' /\ locks' \in Nat
  <1>1. Cardinality(Counted') = Cardinality(Counted) - 1
    BY CountedFinite, FS_RemoveElement
  <1>2. locks \in Nat /\ locks >= 2
    BY WordFacts DEF TypeOK
  <1>3. Bit0 => Bit0'
    BY <1>2 DEF Bit0
  <1> QED
    BY <1>1, <1>2, <1>3, CountedFinite DEF LockWord

\* A step that leaves the word alone and may only take tasks out of the sets.
LEMMA KeepsWord ==
  ASSUME TypeOK, LockWord, locks' = locks,
         BitHolders' \subseteq BitHolders, Counted' \subseteq Counted,
         sys' = "up" => sys = "up" /\ BitHolders' = BitHolders /\ Counted' = Counted
  PROVE  LockWord' /\ locks' \in Nat
  <1>1. Cardinality(Counted') <= Cardinality(Counted) /\ Cardinality(Counted') \in Nat
    BY CountedFinite, FS_Subset, FS_CardinalityType
  <1>2. locks \in Nat /\ (Bit0 => Bit0')
    BY DEF TypeOK, Bit0
  <1> QED
    BY <1>1, <1>2, CountedFinite DEF LockWord
(***************************************************************************)
(* One step per action: IInv holds after each of them.                     *)
(***************************************************************************)
\* Task t goes from label a to label b, and what that does to the sets.
Moved(t, a, b) ==
  /\ pc[t] = a /\ pc' \in [Tasks -> Label] /\ pc'[t] = b
  /\ \A u \in Tasks \ {t} : pc'[u] = pc[u]
  /\ BitHolders' = IF b \in BitLabels THEN BitHolders \cup {t} ELSE BitHolders \ {t}
  /\ Counted' = IF b \in CountedLabels THEN Counted \cup {t} ELSE Counted \ {t}
  /\ t \in BitHolders <=> a \in BitLabels
  /\ t \in Counted <=> a \in CountedLabels

LEMMA GotoMoves ==
  ASSUME TypeOK, NEW t \in Tasks, NEW b \in Label, Goto(t, b)
  PROVE  Moved(t, pc[t], b)
  <1>1. /\ t \in BitHolders <=> pc[t] \in BitLabels
        /\ t \in Counted <=> pc[t] \in CountedLabels
    BY DEF BitHolders, Counted
  <1> QED
    BY <1>1, MoveSets DEF Moved, Goto

LEMMA StepMoves ==
  ASSUME TypeOK, NEW t \in Tasks, NEW a \in Label, NEW b \in Label, Step(t, a, b)
  PROVE  Moved(t, a, b) /\ sys' = sys
  BY GotoMoves DEF Step

\* A task that neither becomes the writer nor is counted anew disturbs nobody.
LEMMA QuietMove ==
  ASSUME TypeOK, WriterExcludes, NEW t \in Tasks, NEW a \in Label, NEW b \in Label,
         Moved(t, a, b), b \notin {"writing", "down", "esc_sub"},
         b \in CountedLabels => a \in CountedLabels
  PROVE  WriterExcludes'
  <1>1. Counted' \subseteq Counted /\ Counted \ {t} \subseteq Counted'
    BY DEF Moved
  <1>2. \A u \in Tasks : pc'[u] \in {"writing", "down", "esc_sub"} => u # t /\ pc[u] = pc'[u]
    BY DEF Moved
  <1> QED
    BY <1>1, <1>2 DEF WriterExcludes

\* A task that owns bit 0 can be counted anew: no other task is the writer.
LEMMA CountedMove ==
  ASSUME TypeOK, LockWord, NEW t \in Tasks, NEW a \in Label, NEW b \in Label,
         Moved(t, a, b), a \in BitLabels, b \notin {"writing", "down", "esc_sub"}
  PROVE  WriterExcludes'
  <1>1. \A u \in Tasks \ {t} : u \notin BitHolders
    BY DEF LockWord, Moved
  <1>2. \A u \in Tasks : pc'[u] \notin {"writing", "down", "esc_sub"}
    BY <1>1 DEF Moved, BitHolders, BitLabels
  <1> QED
    BY <1>2 DEF WriterExcludes

\* A task becomes the writer, or is about to, when it is the only one counted.
LEMMA WriterMove ==
  ASSUME TypeOK, LockWord, NEW t \in Tasks, NEW a \in Label, NEW b \in Label,
         Moved(t, a, b), a \in BitLabels, Counted \subseteq {t},
         b \in {"writing", "down"} \/ (b = "esc_sub" /\ t \in Counted)
  PROVE  WriterExcludes'
  <1>1. \A u \in Tasks \ {t} : u \notin BitHolders
    BY DEF LockWord, Moved
  <1>2. \A u \in Tasks \ {t} : pc'[u] \notin {"writing", "down", "esc_sub"}
    BY <1>1 DEF Moved, BitHolders, BitLabels
  <1>3. b \in {"writing", "down"} => Counted' = {}
    BY DEF Moved, CountedLabels
  <1>4. b = "esc_sub" => Counted' = {t}
    BY DEF Moved, CountedLabels
  <1>5. pc'[t] = b
    BY DEF Moved
  <1> QED
    BY <1>2, <1>3, <1>4, <1>5 DEF WriterExcludes

\* The steps of calls under way.
LEMMA StepsKeep ==
  ASSUME IInv, NEW t \in Tasks, AcquireSteps(t) \/ EscalateSteps(t)
  PROVE  IInv'
  <1> USE DEF IInv
  <1>1. CASE ReaderBts(t)
    <2>1. Moved(t, "r_bts", "r_add") /\ sys' = sys
      BY <1>1, StepMoves DEF ReaderBts, Label
    <2>2. LockWord' /\ locks' \in Nat
      BY <1>1, <2>1, SetsBit DEF ReaderBts, Moved, BitLabels, CountedLabels
    <2>3. WriterExcludes'
      BY <1>1, <2>1, QuietMove DEF ReaderBts, Moved, Label, BitLabels, CountedLabels
    <2> QED
      BY <2>1, <2>2, <2>3 DEF TypeOK, Moved
  <1>2. CASE ReaderAdd(t)
    <2>1. Moved(t, "r_add", "r_btr") /\ sys' = sys
      BY <1>2, StepMoves DEF ReaderAdd, Label
    <2>2. LockWord' /\ locks' \in Nat
      BY <1>2, <2>1, AddsReader DEF ReaderAdd, Moved, BitLabels, CountedLabels
    <2>3. WriterExcludes'
      BY <1>2, <2>1, CountedMove DEF ReaderAdd, Moved, Label, BitLabels, CountedLabels
    <2> QED
      BY <2>1, <2>2, <2>3 DEF TypeOK, Moved
  <1>3. CASE ReaderBtr(t)
    <2>1. Moved(t, "r_btr", "reading") /\ sys' = sys
      BY <1>3, StepMoves DEF ReaderBtr, Label
    <2>2. LockWord' /\ locks' \in Nat
      BY <1>3, <2>1, ClearsBit DEF ReaderBtr, Moved, BitLabels, CountedLabels
    <2>3. WriterExcludes'
      BY <1>3, <2>1, QuietMove DEF ReaderBtr, Moved, Label, BitLabels, CountedLabels
    <2> QED
      BY <2>1, <2>2, <2>3 DEF TypeOK, Moved
  <1>4. CASE WriterWait(t)
    <2>1. Moved(t, "w_wait", "w_bts") /\ sys' = sys
      BY <1>4, StepMoves DEF WriterWait, Label
    <2>2. LockWord' /\ locks' \in Nat
      BY <1>4, <2>1, KeepsWord DEF WriterWait, Moved, BitLabels, CountedLabels
    <2>3. WriterExcludes'
      BY <1>4, <2>1, QuietMove DEF WriterWait, Moved, Label, BitLabels, CountedLabels
    <2> QED
      BY <2>1, <2>2, <2>3 DEF TypeOK, Moved
  <1>5. CASE WriterBts(t)
    <2>1. Moved(t, "w_bts", "w_check") /\ sys' = sys
      BY <1>5, StepMoves DEF WriterBts, Label
    <2>2. LockWord' /\ locks' \in Nat
      BY <1>5, <2>1, SetsBit DEF WriterBts, Moved, BitLabels, CountedLabels
    <2>3. WriterExcludes'
      BY <1>5, <2>1, QuietMove DEF WriterBts, Moved, Label, BitLabels, CountedLabels
    <2> QED
      BY <2>1, <2>2, <2>3 DEF TypeOK, Moved
  <1>6. CASE WriterGot(t)
    <2>1. Moved(t, "w_check", "writing") /\ sys' = sys
      BY <1>6, StepMoves DEF WriterGot, Label
    <2>2. LockWord' /\ locks' \in Nat
      BY <1>6, <2>1, KeepsWord DEF WriterGot, Moved, BitLabels, CountedLabels
    <2>3. WriterExcludes'
      BY <1>6, <2>1, WriterMove, WordFacts DEF WriterGot, Moved, Label, BitLabels, CountedLabels
    <2> QED
      BY <2>1, <2>2, <2>3 DEF TypeOK, Moved
  <1>7. CASE WriterMissed(t)
    <2>1. Moved(t, "w_check", "w_undo") /\ sys' = sys
      BY <1>7, StepMoves DEF WriterMissed, Label
    <2>2. LockWord' /\ locks' \in Nat
      BY <1>7, <2>1, KeepsWord DEF WriterMissed, Moved, BitLabels, CountedLabels
    <2>3. WriterExcludes'
      BY <1>7, <2>1, QuietMove DEF WriterMissed, Moved, Label, BitLabels, CountedLabels
    <2> QED
      BY <2>1, <2>2, <2>3 DEF TypeOK, Moved
  <1>8. CASE WriterUndo(t)
    <2>1. Moved(t, "w_undo", "w_wait") /\ sys' = sys
      BY <1>8, StepMoves DEF WriterUndo, Label
    <2>2. LockWord' /\ locks' \in Nat
      BY <1>8, <2>1, ClearsBit DEF WriterUndo, Moved, BitLabels, CountedLabels
    <2>3. WriterExcludes'
      BY <1>8, <2>1, QuietMove DEF WriterUndo, Moved, Label, BitLabels, CountedLabels
    <2> QED
      BY <2>1, <2>2, <2>3 DEF TypeOK, Moved
  <1>9. CASE EscTest(t)
    <2>1. Moved(t, "esc", "esc_wait") /\ sys' = sys
      BY <1>9, StepMoves DEF EscTest, Label
    <2>2. LockWord' /\ locks' \in Nat
      BY <1>9, <2>1, KeepsWord DEF EscTest, Moved, BitLabels, CountedLabels
    <2>3. WriterExcludes'
      BY <1>9, <2>1, QuietMove DEF EscTest, Moved, Label, BitLabels, CountedLabels
    <2> QED
      BY <2>1, <2>2, <2>3 DEF TypeOK, Moved
  <1>10. CASE EscSkip(t)
    <2>1. Moved(t, "esc", "missed") /\ sys' = sys
      BY <1>10, StepMoves DEF EscSkip, Label
    <2>2. LockWord' /\ locks' \in Nat
      BY <1>10, <2>1, KeepsWord DEF EscSkip, Moved, BitLabels, CountedLabels
    <2>3. WriterExcludes'
      BY <1>10, <2>1, QuietMove DEF EscSkip, Moved, Label, BitLabels, CountedLabels
    <2> QED
      BY <2>1, <2>2, <2>3 DEF TypeOK, Moved
  <1>11. CASE EscWait(t)
    <2>1. Moved(t, "esc_wait", "esc_bts") /\ sys' = sys
      BY <1>11, StepMoves DEF EscWait, Label
    <2>2. LockWord' /\ locks' \in Nat
      BY <1>11, <2>1, KeepsWord DEF EscWait, Moved, BitLabels, CountedLabels
    <2>3. WriterExcludes'
      BY <1>11, <2>1, QuietMove DEF EscWait, Moved, Label, BitLabels, CountedLabels
    <2> QED
      BY <2>1, <2>2, <2>3 DEF TypeOK, Moved
  <1>12. CASE EscBts(t)
    <2>1. Moved(t, "esc_bts", "esc_check") /\ sys' = sys
      BY <1>12, StepMoves DEF EscBts, Label
    <2>2. LockWord' /\ locks' \in Nat
      BY <1>12, <2>1, SetsBit DEF EscBts, Moved, BitLabels, CountedLabels
    <2>3. WriterExcludes'
      BY <1>12, <2>1, QuietMove DEF EscBts, Moved, Label, BitLabels, CountedLabels
    <2> QED
      BY <2>1, <2>2, <2>3 DEF TypeOK, Moved
  <1>13. CASE EscGot(t)
    <2>1. Moved(t, "esc_check", "esc_sub") /\ sys' = sys
      BY <1>13, StepMoves DEF EscGot, Label
    <2>2. LockWord' /\ locks' \in Nat
      BY <1>13, <2>1, KeepsWord DEF EscGot, Moved, BitLabels, CountedLabels
    <2>3. WriterExcludes'
      BY <1>13, <2>1, WriterMove, WordFacts DEF EscGot, Moved, Label, BitLabels, CountedLabels
    <2> QED
      BY <2>1, <2>2, <2>3 DEF TypeOK, Moved
  <1>14. CASE EscMissed(t)
    <2>1. Moved(t, "esc_check", "esc_undo") /\ sys' = sys
      BY <1>14, StepMoves DEF EscMissed, Label
    <2>2. LockWord' /\ locks' \in Nat
      BY <1>14, <2>1, KeepsWord DEF EscMissed, Moved, BitLabels, CountedLabels
    <2>3. WriterExcludes'
      BY <1>14, <2>1, QuietMove DEF EscMissed, Moved, Label, BitLabels, CountedLabels
    <2> QED
      BY <2>1, <2>2, <2>3 DEF TypeOK, Moved
  <1>15. CASE EscSub(t)
    <2>1. Moved(t, "esc_sub", "writing") /\ sys' = sys
      BY <1>15, StepMoves DEF EscSub, Label
    <2>2. LockWord' /\ locks' \in Nat
      BY <1>15, <2>1, DropsReader DEF EscSub, Moved, BitLabels, CountedLabels
    <2>3. WriterExcludes'
      BY <1>15, <2>1, WriterMove DEF EscSub, Moved, Label, BitLabels, CountedLabels, WriterExcludes
    <2> QED
      BY <2>1, <2>2, <2>3 DEF TypeOK, Moved
  <1>16. CASE EscUndo(t)
    <2>1. Moved(t, "esc_undo", "esc_wait") /\ sys' = sys
      BY <1>16, StepMoves DEF EscUndo, Label
    <2>2. LockWord' /\ locks' \in Nat
      BY <1>16, <2>1, ClearsBit DEF EscUndo, Moved, BitLabels, CountedLabels
    <2>3. WriterExcludes'
      BY <1>16, <2>1, QuietMove DEF EscUndo, Moved, Label, BitLabels, CountedLabels
    <2> QED
      BY <2>1, <2>2, <2>3 DEF TypeOK, Moved
  <1>17. CASE DownAdd(t)
    <2>1. Moved(t, "down", "down_btr") /\ sys' = sys
      BY <1>17, StepMoves DEF DownAdd, Label
    <2>2. LockWord' /\ locks' \in Nat
      BY <1>17, <2>1, AddsReader DEF DownAdd, Moved, BitLabels, CountedLabels
    <2>3. WriterExcludes'
      BY <1>17, <2>1, CountedMove DEF DownAdd, Moved, Label, BitLabels, CountedLabels
    <2> QED
      BY <2>1, <2>2, <2>3 DEF TypeOK, Moved
  <1>18. CASE DownBtr(t)
    <2>1. Moved(t, "down_btr", "reading") /\ sys' = sys
      BY <1>18, StepMoves DEF DownBtr, Label
    <2>2. LockWord' /\ locks' \in Nat
      BY <1>18, <2>1, ClearsBit DEF DownBtr, Moved, BitLabels, CountedLabels
    <2>3. WriterExcludes'
      BY <1>18, <2>1, QuietMove DEF DownBtr, Moved, Label, BitLabels, CountedLabels
    <2> QED
      BY <2>1, <2>2, <2>3 DEF TypeOK, Moved
  <1> QED
    BY <1>1, <1>2, <1>3, <1>4, <1>5, <1>6, <1>7, <1>8, <1>9, <1>10, <1>11, <1>12, <1>13, <1>14, <1>15, <1>16, <1>17, <1>18 DEF AcquireSteps, EscalateSteps

\* The first step of a call, and a call that does nothing.
LEMMA EnterKeeps ==
  ASSUME IInv, NEW t \in Tasks, NEW b \in Label, NEW skip \in {"idle", "nolock"},
         Enter(t, b, skip),
         b \in BitLabels <=> pc[t] \in BitLabels,
         b \in CountedLabels <=> pc[t] \in CountedLabels,
         b \in {"writing", "down"} => pc[t] = "writing", b # "esc_sub"
  PROVE  IInv'
  <1> USE DEF IInv
  <1>1. CASE sys = "up" /\ Goto(t, b) /\ UNCHANGED <<locks, sys>>
    <2>1. Moved(t, pc[t], b)
      BY <1>1, GotoMoves
    <2>2. BitHolders' = BitHolders /\ Counted' = Counted
      BY <2>1 DEF Moved
    <2>3. LockWord' /\ locks' \in Nat
      BY <1>1, <2>2, KeepsWord
    <2>4. WriterExcludes'
      BY <2>1, <2>2 DEF Moved, WriterExcludes
    <2> QED
      BY <1>1, <2>1, <2>3, <2>4 DEF TypeOK, Moved
  <1>2. CASE sys = "shutdown" /\ Goto(t, skip) /\ UNCHANGED <<locks, sys>>
    <2>1. Moved(t, pc[t], skip)
      BY <1>2, GotoMoves DEF Label
    <2>2. LockWord' /\ locks' \in Nat
      BY <1>2, <2>1, KeepsWord DEF Moved, BitLabels, CountedLabels
    <2>3. WriterExcludes'
      BY <2>1, QuietMove DEF TypeOK, CountedLabels, Label
    <2> QED
      BY <1>2, <2>1, <2>2, <2>3 DEF TypeOK, Moved
  <1>3. CASE sys = "destroyed" /\ Stop("badmagic")
    <2>1. BitHolders' = BitHolders /\ Counted' = Counted
      BY <1>3 DEF Stop, BitHolders, Counted
    <2>2. LockWord' /\ locks' \in Nat
      BY <1>3, <2>1, KeepsWord DEF Stop
    <2> QED
      BY <1>3, <2>1, <2>2 DEF Stop, TypeOK, WriterExcludes
  <1> QED
    BY <1>1, <1>2, <1>3 DEF Enter

\* The kernel stops at a failed assert.
LEMMA StopKeeps ==
  ASSUME IInv, Stop("panic")
  PROVE  IInv'
  <1>1. BitHolders' = BitHolders /\ Counted' = Counted
    BY DEF Stop, BitHolders, Counted
  <1>2. LockWord' /\ locks' \in Nat
    BY <1>1, KeepsWord DEF Stop, IInv
  <1> QED
    BY <1>1, <1>2 DEF Stop, TypeOK, WriterExcludes, IInv

\* The calls' first steps, the releases and rwlock_destroy.
LEMMA CallsKeep ==
  ASSUME IInv, NEW t \in Tasks,
         \/ AcquireReader(t) \/ AcquireWriter(t) \/ EscalateWriter(t) \/ EscalateReader(t)
         \/ Releases(t) \/ Destroy(t)
  PROVE  IInv'
  <1> USE DEF IInv
  <1>1. CASE AcquireReader(t)
    BY <1>1, EnterKeeps DEF AcquireReader, Label, BitLabels, CountedLabels
  <1>2. CASE AcquireWriter(t)
    BY <1>2, EnterKeeps DEF AcquireWriter, Label, BitLabels, CountedLabels
  <1>3. CASE EscalateWriter(t)
    BY <1>3, EnterKeeps DEF EscalateWriter, Label, BitLabels, CountedLabels
  <1>4. CASE EscalateReader(t)
    <2>1. CASE locks = 1
      BY <1>4, <2>1, EnterKeeps DEF EscalateReader, Label, BitLabels, CountedLabels
    <2>2. CASE locks # 1
      BY <1>4, <2>2, EnterKeeps DEF EscalateReader, Label, BitLabels, CountedLabels
    <2> QED
      BY <2>1, <2>2
  <1>5. ASSUME Enter(t, "idle", "idle"), sys # "up"
        PROVE  IInv'
    <2>1. CASE sys = "shutdown" /\ Goto(t, "idle") /\ UNCHANGED <<locks, sys>>
      <3>1. Moved(t, pc[t], "idle")
        BY <2>1, GotoMoves DEF Label
      <3>2. LockWord' /\ locks' \in Nat
        BY <2>1, <3>1, KeepsWord DEF Moved, BitLabels, CountedLabels
      <3>3. WriterExcludes'
        BY <3>1, QuietMove DEF TypeOK, CountedLabels, Label
      <3> QED
        BY <2>1, <3>1, <3>2, <3>3 DEF TypeOK, Moved
    <2>2. CASE sys = "destroyed" /\ Stop("badmagic")
      <3>1. BitHolders' = BitHolders /\ Counted' = Counted
        BY <2>2 DEF Stop, BitHolders, Counted
      <3>2. LockWord' /\ locks' \in Nat
        BY <2>2, <3>1, KeepsWord DEF Stop
      <3> QED
        BY <2>2, <3>1, <3>2 DEF Stop, TypeOK, WriterExcludes
    <2> QED
      BY <1>5, <2>1, <2>2 DEF Enter
  <1>6. CASE ReleaseReader(t)
    <2>1. CASE sys = "up" /\ locks >= 2
      <3>1. locks' = locks - 2 /\ sys' = sys /\ Goto(t, "idle") /\ pc[t] = "reading"
        BY <1>6, <2>1 DEF ReleaseReader, TypeOK
      <3>2. Moved(t, "reading", "idle")
        BY <3>1, GotoMoves DEF Label
      <3>3. LockWord' /\ locks' \in Nat
        BY <3>1, <3>2, DropsReader DEF Moved, BitLabels, CountedLabels
      <3>4. WriterExcludes'
        BY <3>2, QuietMove DEF Label, CountedLabels
      <3> QED
        BY <3>1, <3>2, <3>3, <3>4 DEF TypeOK, Moved
    <2> QED
      BY <1>5, <1>6, <2>1, StopKeeps DEF ReleaseReader, TypeOK
  <1>7. CASE ReleaseWriter(t)
    <2>1. CASE sys = "up" /\ locks = 1
      <3>1. ClearBit0 /\ sys' = sys /\ Goto(t, "idle") /\ pc[t] = "writing"
        <4>1. t \notin Counted
          BY <2>1, WordFacts
        <4> QED
          BY <1>7, <2>1, <4>1 DEF ReleaseWriter, Counted, CountedLabels
      <3>2. Moved(t, "writing", "idle")
        BY <3>1, GotoMoves DEF Label
      <3>3. LockWord' /\ locks' \in Nat
        BY <3>1, <3>2, ClearsBit DEF Moved, BitLabels, CountedLabels
      <3>4. WriterExcludes'
        BY <3>2, QuietMove DEF Label, CountedLabels
      <3> QED
        BY <3>1, <3>2, <3>3, <3>4 DEF TypeOK, Moved
    <2> QED
      BY <1>5, <1>7, <2>1, StopKeeps DEF ReleaseWriter
  <1>8. CASE ReleaseNothing(t)
    BY <1>8, EnterKeeps DEF ReleaseNothing, Label, BitLabels, CountedLabels
  <1>9. CASE Destroy(t)
    <2>1. Moved(t, pc[t], "idle") /\ sys' = "destroyed" /\ locks' = locks
      BY <1>9, GotoMoves DEF Destroy, Label
    <2>2. LockWord' /\ locks' \in Nat
      BY <2>1, KeepsWord DEF Moved, BitLabels, CountedLabels
    <2>3. WriterExcludes'
      BY <2>1, QuietMove DEF TypeOK, CountedLabels, Label
    <2> QED
      BY <2>1, <2>2, <2>3 DEF TypeOK, Moved
  <1> QED
    BY <1>1, <1>2, <1>3, <1>4, <1>6, <1>7, <1>8, <1>9 DEF Releases

\* The invariant holds in every reachable state, for any finite set of tasks
\* and whichever of them escalate.
THEOREM Invariance == Spec => []IInv
  <1>1. Init => IInv
    <2> SUFFICES ASSUME Init PROVE IInv
      OBVIOUS
    <2>1. BitHolders = {} /\ Counted = {}
      BY DEF Init, BitHolders, Counted, BitLabels, CountedLabels
    <2> QED
      BY <2>1, FS_EmptySet DEF Init, IInv, TypeOK, LockWord, WriterExcludes, Label
  <1>2. IInv /\ [Next]_vars => IInv'
    <2> SUFFICES ASSUME IInv, [Next]_vars PROVE IInv'
      OBVIOUS
    <2>1. CASE \E t \in Tasks : TaskStep(t)
      BY <2>1, StepsKeep, CallsKeep DEF TaskStep
    <2>2. CASE Create
      <3>1. BitHolders' = {} /\ Counted' = {}
        BY <2>2 DEF Create, BitHolders, Counted, BitLabels, CountedLabels
      <3>2. locks' = 0 /\ pc' = pc /\ sys' = "up" /\ \A t \in Tasks : pc[t] = "idle"
        BY <2>2 DEF Create
      <3>3. Cardinality(Counted') = 0
        BY <3>1, FS_EmptySet
      <3>4. LockWord'
        BY <3>1, <3>2, <3>3 DEF LockWord
      <3>5. WriterExcludes'
        BY <3>2 DEF WriterExcludes
      <3> QED
        BY <3>2, <3>4, <3>5 DEF IInv, TypeOK
    <2>3. CASE Shutdown \/ UNCHANGED vars
      <3>1. /\ locks' = locks /\ pc' = pc
            /\ sys' = sys \/ (sys = "up" /\ sys' = "shutdown")
        BY <2>3 DEF Shutdown, vars
      <3>2. BitHolders' = BitHolders /\ Counted' = Counted
        BY <3>1 DEF BitHolders, Counted
      <3>3. LockWord' /\ locks' \in Nat
        BY <3>1, <3>2, KeepsWord DEF IInv
      <3> QED
        BY <3>1, <3>2, <3>3 DEF IInv, TypeOK, WriterExcludes
    <2> QED
      BY <2>1, <2>2, <2>3 DEF Next
  <1> QED
    BY <1>1, <1>2, PTL DEF Spec

\* The lock word encodes the holders and excludes readers from a writer, in
\* every state of every behaviour of rwlock.c.
THEOREM WordIsRight == Spec => [](LockWord /\ WriterExcludes)
  <1>1. IInv => LockWord /\ WriterExcludes
    BY DEF IInv
  <1> QED
    BY <1>1, Invariance, PTL

(***************************************************************************)
(* Without escalation to writer, no task is ever at one of its labels.     *)
(***************************************************************************)
NoEscalation ==
  \A t \in Tasks : pc[t] \notin {"esc", "esc_wait", "esc_bts", "esc_check", "esc_sub",
                                 "esc_undo", "missed"}

LEMMA NoEscalationKept ==
  ASSUME Escalators = {}, TypeOK, NoEscalation, [Next]_vars
  PROVE  NoEscalation'
  <1>1. ASSUME NEW t \in Tasks, NEW l \in Label, Goto(t, l),
               l \notin {"esc", "esc_wait", "esc_bts", "esc_check", "esc_sub", "esc_undo",
                         "missed"}
        PROVE  NoEscalation'
    BY <1>1, MoveSets DEF Goto, NoEscalation
  <1>2. ASSUME pc' = pc PROVE NoEscalation'
    BY <1>2 DEF NoEscalation
  <1>3. ASSUME NEW t \in Tasks, AcquireSteps(t) PROVE NoEscalation'
    BY <1>1, <1>3 DEF AcquireSteps, ReaderBts, ReaderAdd, ReaderBtr, WriterWait, WriterBts,
          WriterGot, WriterMissed, WriterUndo, Step, Label
  <1>4. ASSUME NEW t \in Tasks, EscalateSteps(t) PROVE NoEscalation'
    BY <1>1, <1>4 DEF EscalateSteps, EscTest, EscSkip, EscWait, EscBts, EscGot, EscMissed,
          EscSub, EscUndo, DownAdd, DownBtr, Step, Label, NoEscalation
  <1>5. ASSUME NEW t \in Tasks, NEW a \in {"idle", "r_bts", "w_wait", "down", "writing"},
               NEW b \in {"idle", "nolock"}, Enter(t, a, b)
        PROVE  NoEscalation'
    BY <1>1, <1>2, <1>5 DEF Enter, Stop, Label
  <1>6. ASSUME NEW t \in Tasks,
               AcquireReader(t) \/ AcquireWriter(t) \/ EscalateWriter(t) \/ EscalateReader(t)
        PROVE  NoEscalation'
    BY <1>5, <1>6 DEF AcquireReader, AcquireWriter, EscalateWriter, EscalateReader
  <1>7. ASSUME NEW t \in Tasks, Releases(t) PROVE NoEscalation'
    BY <1>1, <1>2, <1>5, <1>7 DEF Releases, ReleaseReader, ReleaseWriter, ReleaseNothing,
          Stop, Label
  <1>8. ASSUME NEW t \in Tasks, Destroy(t) PROVE NoEscalation'
    BY <1>1, <1>8 DEF Destroy, Label
  <1> QED
    BY <1>2, <1>3, <1>4, <1>6, <1>7, <1>8 DEF Next, TaskStep, Create, Shutdown, vars

\* Readers and writers that only acquire, lower to reader and release exclude each
\* other as the header comment of rwlock.c says, for any number of tasks.
THEOREM Exclusion ==
  ASSUME Escalators = {}
  PROVE  Spec => []MutualExclusion
  <1>1. Init => NoEscalation
    BY DEF Init, NoEscalation
  <1>2. IInv /\ NoEscalation /\ [Next]_vars => NoEscalation'
    BY NoEscalationKept DEF IInv
  <1>3. IInv /\ NoEscalation => MutualExclusion
    <2> SUFFICES ASSUME IInv, NoEscalation, NEW t \in InWriter
                 PROVE  InReader = {} /\ InWriter = {t}
      BY DEF MutualExclusion
    <2>1. t \in Tasks /\ pc[t] = "writing" /\ \A u \in InWriter : u \in BitHolders
      BY DEF InWriter, NoEscalation, BitHolders, BitLabels
    <2>2. InWriter = {t}
      BY <2>1 DEF IInv, LockWord
    <2>3. Counted = {}
      BY <2>1 DEF IInv, WriterExcludes
    <2>4. InReader = {}
      BY <2>3 DEF InReader, Counted, CountedLabels
    <2> QED
      BY <2>2, <2>4
  <1> QED
    BY <1>1, <1>2, <1>3, Invariance, PTL DEF Spec

\* Under the same condition the asserts of rwlock_release never fail.
THEOREM AssertsHold ==
  ASSUME Escalators = {}
  PROVE  Spec => []NoFailedAssert
  <1>1. Init => NoEscalation /\ NoFailedAssert
    BY DEF Init, NoEscalation, NoFailedAssert
  <1>2. IInv /\ NoEscalation /\ [Next]_vars => NoEscalation'
    BY NoEscalationKept DEF IInv
  <1>3. IInv /\ NoEscalation /\ NoFailedAssert /\ [Next]_vars => NoFailedAssert'
    <2> SUFFICES ASSUME IInv, NoEscalation, sys # "panic", [Next]_vars
                 PROVE  sys' # "panic"
      BY DEF NoFailedAssert
    <2>1. ASSUME NEW t \in Tasks, ReleaseReader(t) PROVE sys' # "panic"
      <3>1. t \in Counted
        BY <2>1 DEF ReleaseReader, Counted, CountedLabels
      <3>2. locks >= 2 /\ locks \in Nat
        BY <3>1, WordFacts DEF IInv, TypeOK
      <3> QED
        BY <2>1, <3>2 DEF ReleaseReader, Enter, Stop
    <2>2. ASSUME NEW t \in Tasks, ReleaseWriter(t) PROVE sys' # "panic"
      <3>1. pc[t] = "writing"
        BY <2>2 DEF ReleaseWriter, NoEscalation
      <3>2. t \in BitHolders /\ Counted = {}
        BY <3>1 DEF BitHolders, BitLabels, IInv, WriterExcludes
      <3>3. sys = "up" => locks = 1
        BY <3>2, FS_EmptySet DEF IInv, LockWord
      <3> QED
        BY <2>2, <3>3 DEF ReleaseWriter, Enter, Stop
    <2>3. ASSUME NEW t \in Tasks, NEW a, NEW b, Enter(t, a, b) PROVE sys' # "panic"
      BY <2>3 DEF Enter, Stop
    <2>4. ASSUME NEW t \in Tasks, AcquireSteps(t) \/ EscalateSteps(t) PROVE sys' # "panic"
      BY <2>4 DEF AcquireSteps, ReaderBts, ReaderAdd, ReaderBtr, WriterWait, WriterBts,
          WriterGot, WriterMissed, WriterUndo, EscalateSteps, EscTest, EscSkip, EscWait,
          EscBts, EscGot, EscMissed, EscSub, EscUndo, DownAdd, DownBtr, Step
    <2>5. ASSUME NEW t \in Tasks, TaskStep(t) PROVE sys' # "panic"
      BY <2>1, <2>2, <2>3, <2>4, <2>5 DEF TaskStep, Releases, ReleaseNothing, AcquireReader,
          AcquireWriter, EscalateWriter, EscalateReader, Destroy
    <2> QED
      BY <2>5 DEF Next, Create, Shutdown, vars
  <1> QED
    BY <1>1, <1>2, <1>3, Invariance, PTL DEF Spec
=============================================================================
