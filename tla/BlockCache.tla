----------------------------- MODULE BlockCache -----------------------------
(***************************************************************************)
(* The block cache: dm_block_rw of kernel/dm/block.c over the cache of     *)
(* kernel/cache/cache.c and kernel/dm/block_cache.c.  The contents of a    *)
(* block are the number of the write that made them.  The operations of    *)
(* the cache hold c->rwl and are one step each; a read goes through the    *)
(* cache, the device and the cache again, and so takes several.            *)
(***************************************************************************)
EXTENDS Integers, FiniteSets

CONSTANTS Tasks, Blocks,
          Serial,     \* blocks whose users keep reads and writes apart: a condition
          Forced,     \* blocks dm_write_block_cache is called for (exported to modules)
          Failing,    \* blocks whose device may fail
          ReadCache,  \* CONFIG_BLOCK_READ_CACHE
          MaxVer      \* bound: writes of a block

ASSUME BlockCacheAssumption ==
  /\ Serial \subseteq Blocks /\ Forced \subseteq Blocks /\ Failing \subseteq Blocks
  /\ ReadCache \in BOOLEAN /\ MaxVer \in Nat
  /\ IsFiniteSet(Blocks)

VARIABLES disk,     \* the contents of the device
          cached,   \* the blocks that have an element in the hash table
          data,     \* ce_t.data
          dirty,    \* the blocks with ce_t.dirty set
          list,     \* the members of c->dirty_ll
          count,    \* c->count
          ndirty,   \* c->dirty
          pc,       \* where the task is in dm_block_rw
          blk,      \* the block of the call
          freed,    \* the tasks whose ce_t * leads to freed memory
          got,      \* the buffer of a read
          seen,     \* history: the last write of the block when the read began
          snap,     \* history: the last write of each block when the sync began
          latest,   \* history: the last write of each block
          sys       \* "up", or "fault" after a panic, a failed assert or a NULL dereference

cache == <<cached, data, dirty, list, count, ndirty>>
task == <<pc, blk, freed, got, seen, snap>>
vars == <<disk, cache, task, latest, sys>>

Junk == -1
Label == {"idle", "find", "copy", "miss", "fill", "done", "force", "sync", "synced"}
None == [b \in Blocks |-> 0]

Init ==
  /\ disk = None
  /\ cached = {} /\ dirty = {} /\ list = {}
  /\ data = None
  /\ count = 0 /\ ndirty = 0
  /\ pc = [t \in Tasks |-> "idle"]
  /\ blk = [t \in Tasks |-> CHOOSE b \in Blocks : TRUE]
  /\ freed = {}
  /\ got = [t \in Tasks |-> 0]
  /\ seen = [t \in Tasks |-> 0]
  /\ snap = [t \in Tasks |-> None]
  /\ latest = None
  /\ sys = "up"

At(t, l) == sys = "up" /\ pc[t] = l
Goto(t, l) == pc' = [pc EXCEPT ![t] = l]
Outcomes(b) == IF b \in Failing THEN BOOLEAN ELSE {TRUE}
Reading(b) == {t \in Tasks : pc[t] \in {"find", "copy", "miss", "fill", "done"} /\ blk[t] = b}

-----------------------------------------------------------------------------
(***************************************************************************)
(* The elements of the cache, as functions of what they were: a record of  *)
(* the variables they change, so that an operation can be put together     *)
(* from several.                                                           *)
(***************************************************************************)
Now == [cached |-> cached, data |-> data, dirty |-> dirty, list |-> list,
        count |-> count, ndirty |-> ndirty, disk |-> disk, freed |-> freed, ok |-> TRUE]
Becomes(s) ==
  /\ cached' = s.cached /\ data' = s.data /\ dirty' = s.dirty /\ list' = s.list
  /\ count' = s.count /\ ndirty' = s.ndirty /\ disk' = s.disk /\ freed' = s.freed
  /\ sys' = IF s.ok THEN "up" ELSE "fault"

\* set_dirty, with its assert.
\* Mutants: the flag is not compared with what it was; the list is left alone.
SetDirty_Always(s, b, d) ==
  IF d THEN [s EXCEPT !.dirty = @ \cup {b}, !.list = @ \cup {b}, !.ndirty = @ + 1]
  ELSE [s EXCEPT !.dirty = @ \ {b}, !.list = @ \ {b}, !.ndirty = @ - 1]
SetDirty_NoUnlink(s, b, d) ==
  IF d = (b \in s.dirty) THEN s
  ELSE IF d THEN [s EXCEPT !.dirty = @ \cup {b}, !.list = @ \cup {b}, !.ndirty = @ + 1]
  ELSE [s EXCEPT !.dirty = @ \ {b}, !.ndirty = @ - 1]
SetDirty(s, b, d) ==
  IF d = (b \in s.dirty) THEN s
  ELSE IF d THEN [s EXCEPT !.dirty = @ \cup {b}, !.list = @ \cup {b}, !.ndirty = @ + 1]
  ELSE [s EXCEPT !.dirty = @ \ {b}, !.list = @ \ {b}, !.ndirty = @ - 1,
                 !.ok = @ /\ s.ndirty > 0]

\* do_cache_sync_element: the device is written if the element is dirty, and what
\* it returns is not looked at.
\* Mutant: the flag is cleared before the device's function looks at it.
SyncElement_Cleared(s, b, ok) == SetDirty(s, b, FALSE)
SyncElement(s, b, ok) ==
  SetDirty(IF b \in s.dirty /\ ok THEN [s EXCEPT !.disk[b] = s.data[b]] ELSE s, b, FALSE)

\* cache_remove_element: panics on a dirty element, and frees it.
RemoveElement(s, b) ==
  [s EXCEPT !.cached = @ \ {b}, !.count = @ - 1, !.data[b] = 0,
            !.ok = @ /\ b \notin s.dirty /\ s.count > 0,
            !.freed = @ \cup {t \in Tasks : pc[t] \in {"copy", "force"} /\ blk[t] = b}]

\* cache_add_element of a new element, whose dirty flag has been set before.
AddElement(s, b, v, d) ==
  SetDirty([s EXCEPT !.cached = @ \cup {b}, !.count = @ + 1, !.data[b] = v], b, d)

\* Dropping an element: eviction, or the end of its device.
Drop(s, b, ok) == RemoveElement(SyncElement(s, b, ok), b)

(***************************************************************************)
(* do_cache_object: an element that is there is overwritten, its dirty     *)
(* flag with it; for a new one another is evicted when memory is short,    *)
(* which may be at any time.                                               *)
(***************************************************************************)
\* Mutant: the flag of an element that is there is left as it was.
Overwrites_Keeps(s, b, v, d) == [s EXCEPT !.data[b] = v]
Overwrites(s, b, v, d) == SetDirty([s EXCEPT !.data[b] = v], b, d)
CacheObject(b, v, d) ==
  IF b \in cached THEN Becomes(Overwrites(Now, b, v, d))
  ELSE \/ Becomes(AddElement(Now, b, v, d))
       \/ \E q \in cached : \E ok \in Outcomes(q) :
            Becomes(AddElement(Drop(Now, q, ok), b, v, d))

-----------------------------------------------------------------------------
\* dm_block_rw(WRITE): into the cache, and not further.  That nobody reads a Serial
\* block meanwhile is a condition on the callers, not a guard of the code: ext2 meets
\* it for its bitmap blocks (m_node, m_block), the block devices do not.
Write(t, b) ==
  /\ At(t, "idle")
  /\ b \in Serial => Reading(b) = {}
  /\ latest[b] < MaxVer
  /\ latest' = [latest EXCEPT ![b] = @ + 1]
  /\ CacheObject(b, latest[b] + 1, TRUE)
  /\ UNCHANGED <<pc, blk, got, seen, snap>>

\* dm_block_rw(READ): look in the cache,
Read(t, b) ==
  /\ At(t, "idle")
  /\ Goto(t, "find")
  /\ blk' = [blk EXCEPT ![t] = b]
  /\ seen' = [seen EXCEPT ![t] = latest[b]]
  /\ UNCHANGED <<disk, cache, freed, got, snap, latest, sys>>
\* Mutant: only when there is nothing dirty in it,
Find_Clean(t) ==
  /\ At(t, "find")
  /\ Goto(t, IF blk[t] \in cached \ dirty THEN "copy" ELSE "miss")
  /\ UNCHANGED <<disk, cache, blk, freed, got, seen, snap, latest, sys>>
Find(t) ==
  /\ At(t, "find")
  /\ Goto(t, IF blk[t] \in cached THEN "copy" ELSE "miss")
  /\ UNCHANGED <<disk, cache, blk, freed, got, seen, snap, latest, sys>>
\* copy the element, without the lock under which it was found,
Copy(t) ==
  /\ At(t, "copy")
  /\ Goto(t, "done")
  /\ got' = [got EXCEPT ![t] = IF t \in freed THEN Junk ELSE data[blk[t]]]
  /\ freed' = freed \ {t}
  /\ UNCHANGED <<disk, cache, blk, seen, snap, latest, sys>>
\* or read the device, which may fail,
Miss(t) ==
  /\ At(t, "miss")
  /\ \E ok \in Outcomes(blk[t]) :
       IF ok
       THEN /\ Goto(t, IF ReadCache THEN "fill" ELSE "done")
            /\ got' = [got EXCEPT ![t] = disk[blk[t]]]
            /\ UNCHANGED seen
       ELSE Goto(t, "idle") /\ seen' = [seen EXCEPT ![t] = 0] /\ UNCHANGED got
  /\ UNCHANGED <<disk, cache, blk, freed, snap, latest, sys>>
\* and put what was read into the cache, clean.
Fill(t) ==
  /\ At(t, "fill")
  /\ Goto(t, "done")
  /\ CacheObject(blk[t], got[t], FALSE)
  /\ UNCHANGED <<blk, got, seen, snap, latest>>
Return(t) ==
  /\ pc[t] \in {"done", "synced"} /\ sys = "up"
  /\ Goto(t, "idle")
  /\ got' = [got EXCEPT ![t] = 0]
  /\ seen' = [seen EXCEPT ![t] = 0]
  /\ snap' = [snap EXCEPT ![t] = None]
  /\ UNCHANGED <<disk, cache, blk, freed, latest, sys>>

-----------------------------------------------------------------------------
(***************************************************************************)
(* cache_sync: a round of its loop writes the head of the dirty list and   *)
(* gives up after it if the task has a signal; the loop ends when nothing  *)
(* is dirty.                                                               *)
(***************************************************************************)
Sync(t) ==
  /\ At(t, "idle")
  /\ Goto(t, "sync")
  /\ snap' = [snap EXCEPT ![t] = latest]
  /\ UNCHANGED <<disk, cache, blk, freed, got, seen, latest, sys>>
SyncRound(t) ==
  /\ At(t, "sync") /\ ndirty > 0
  /\ IF list = {} THEN sys' = "fault" /\ UNCHANGED <<disk, cache, freed>>
     ELSE \E b \in list : \E ok \in Outcomes(b) : Becomes(SyncElement(Now, b, ok))
  /\ \/ UNCHANGED <<pc, snap>>
     \/ Goto(t, "idle") /\ snap' = [snap EXCEPT ![t] = None]
  /\ UNCHANGED <<blk, got, seen, latest>>
\* Mutant: the last one is not waited for.
SyncEnds_Early(t) ==
  /\ At(t, "sync") /\ ndirty <= 1
  /\ Goto(t, "synced")
  /\ UNCHANGED <<disk, cache, blk, freed, got, seen, snap, latest, sys>>
SyncEnds(t) ==
  /\ At(t, "sync") /\ ndirty = 0
  /\ Goto(t, "synced")
  /\ UNCHANGED <<disk, cache, blk, freed, got, seen, snap, latest, sys>>

\* dm_disconnect_block_cache; every block is on a device of its own.
Disconnect(b) ==
  /\ sys = "up" /\ b \in cached
  /\ \E ok \in Outcomes(b) : Becomes(Drop(Now, b, ok))
  /\ UNCHANGED <<pc, blk, got, seen, snap, latest>>

(***************************************************************************)
(* dm_write_block_cache: the element is found, and dereferenced without    *)
(* being looked at; it is written if it is dirty, and stays dirty.  Freed  *)
(* memory may look dirty or not.                                           *)
(***************************************************************************)
ForceSync(t, b) ==
  /\ At(t, "idle") /\ b \in Forced
  /\ IF b \in cached
     THEN Goto(t, "force") /\ blk' = [blk EXCEPT ![t] = b] /\ UNCHANGED sys
     ELSE sys' = "fault" /\ UNCHANGED <<pc, blk>>
  /\ UNCHANGED <<disk, cache, freed, got, seen, snap, latest>>
ForceWrite(t) ==
  LET b == blk[t]
      v == IF t \in freed THEN {disk[b], Junk} ELSE IF b \in dirty THEN {data[b]} ELSE {disk[b]}
  IN  /\ At(t, "force")
      /\ Goto(t, "idle")
      /\ \E x \in v : \E ok \in Outcomes(b) : disk' = IF ok THEN [disk EXCEPT ![b] = x] ELSE disk
      /\ freed' = freed \ {t}
      /\ UNCHANGED <<cache, blk, got, seen, snap, latest, sys>>

Next ==
  \/ \E t \in Tasks :
       \/ Find(t) \/ Copy(t) \/ Miss(t) \/ Fill(t) \/ Return(t) \/ ForceWrite(t)
       \/ Sync(t) \/ SyncRound(t) \/ SyncEnds(t)
       \/ \E b \in Blocks : Write(t, b) \/ Read(t, b) \/ ForceSync(t, b)
  \/ \E b \in Blocks : Disconnect(b)

Spec == Init /\ [][Next]_vars

-----------------------------------------------------------------------------
\* Every variable has its type.
TypeOK ==
  /\ disk \in [Blocks -> Junk .. MaxVer] /\ data \in [Blocks -> Junk .. MaxVer]
  /\ cached \subseteq Blocks /\ dirty \subseteq Blocks /\ list \subseteq Blocks
  /\ count \in Nat /\ ndirty \in Nat
  /\ pc \in [Tasks -> Label] /\ blk \in [Tasks -> Blocks]
  /\ freed \subseteq Tasks
  /\ got \in [Tasks -> Junk .. MaxVer] /\ seen \in [Tasks -> 0 .. MaxVer]
  /\ snap \in [Tasks -> [Blocks -> 0 .. MaxVer]]
  /\ latest \in [Blocks -> 0 .. MaxVer]
  /\ sys \in {"up", "fault"}

(***************************************************************************)
(* The dirty list, the dirty flags and the two counters agree with the     *)
(* hash table whatever is evicted, overwritten, synced and dropped: no     *)
(* assert of the cache and no panic of cache_remove_element can fail.      *)
(***************************************************************************)
DirtyList ==
  /\ list = dirty /\ dirty \subseteq cached
  /\ ndirty = Cardinality(dirty) /\ count = Cardinality(cached)

(***************************************************************************)
(* The last write of a block is in the cache, or, when the cache has no    *)
(* element for it, on the device: for blocks whose users keep reads and    *)
(* writes apart, on a device that does not fail and that nothing writes    *)
(* behind the cache.                                                       *)
(***************************************************************************)
Safe == (Serial \ Forced) \ Failing
NothingLost ==
  \A b \in Safe : latest[b] = IF b \in cached THEN data[b] ELSE disk[b]

\* A clean element says what is on the device.
CleanIsOnDisk == \A b \in Safe : b \in cached \ dirty => data[b] = disk[b]

(***************************************************************************)
(* A read returns the last write, unless its element was evicted between   *)
(* cache_find_element and memcpy.                                          *)
(***************************************************************************)
ReadsLatest ==
  \A t \in Tasks :
    pc[t] = "done" /\ blk[t] \in Safe /\ got[t] # Junk => got[t] = seen[t] /\ got[t] = latest[blk[t]]

(***************************************************************************)
(* When cache_sync comes to the end of its loop, every write that was      *)
(* there when it began is on its device, whatever was written, evicted,    *)
(* dropped or synced by others meanwhile.                                  *)
(***************************************************************************)
Synced ==
  \A t \in Tasks : pc[t] = "synced" => \A b \in Safe : disk[b] >= snap[t][b]
=============================================================================
