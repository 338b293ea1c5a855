----------------------------- MODULE BlockCache -----------------------------
(***************************************************************************)
(* The block cache of easy-fs (easy-fs/src/block_cache.rs) under the       *)
(* operations of the file system that use it (vfs.rs).                     *)
(*                                                                         *)
(* An operation runs under the lock of the file system, so there is one at *)
(* a time.  It takes blocks one inside another (the block of an inode,     *)
(* then an indirect block, then the next), works on the innermost one and  *)
(* lets go of it first.  Power may fail at any step.                       *)
(***************************************************************************)
EXTENDS Integers, Sequences, FiniteSets

CONSTANTS
  Blocks,            \* the blocks of the device
  Contents,          \* what a block may hold
  BLOCK_CACHE_SIZE,
  MaxHeld            \* the deepest nesting: inode, indirect2, indirect1

ASSUME CacheAssumption ==
  /\ IsFiniteSet(Blocks)
  /\ BLOCK_CACHE_SIZE \in Nat \ {0}
  /\ MaxHeld \in 1 .. BLOCK_CACHE_SIZE

VARIABLES
  disk,   \* the device
  queue,  \* BlockCacheManager.queue: the cached blocks, oldest first
  held,   \* the blocks the operation holds a reference to, innermost last
  op      \* "none", "read", "probe", "update" or "sync"

vars == <<disk, queue, held, op>>

Cached == {queue[i].block_id : i \in DOMAIN queue}
Held == {held[i] : i \in DOMAIN held}
Innermost == held[Len(held)]
Entry(b) == CHOOSE i \in DOMAIN queue : queue[i].block_id = b

(* What an operation finds in block b.                                     *)
View == [b \in Blocks |-> IF b \in Cached THEN queue[Entry(b)].cache ELSE disk[b]]

Init ==
  /\ disk \in [Blocks -> Contents]
  /\ queue = << >>
  /\ held = << >>
  /\ op = "none"

-----------------------------------------------------------------------------
(* drain(idx..=idx): the entries behind the one taken out move down.       *)
Without(q, i) == SubSeq(q, 1, i - 1) \o SubSeq(q, i + 1, Len(q))

(* BlockCache::new reads the block from the device.                        *)
Loaded(b, d) == [block_id |-> b, cache |-> d[b], modified |-> FALSE]

(* BlockCache::sync, which drop calls too: the device after it.            *)
sync(e) == IF e.modified THEN [disk EXCEPT ![e.block_id] = e.cache] ELSE disk

(* Faulty variant: a modified block is no candidate either.                *)
Unheld_clean ==
  {i \in DOMAIN queue : ~queue[i].modified /\ queue[i].block_id \notin Held}

(* A block nobody but the manager refers to: strong_count is 1.            *)
Unheld == {i \in DOMAIN queue : queue[i].block_id \notin Held}

(* Faulty variant: the victim may be in use.                               *)
Victim_oldest == 1

Victim == CHOOSE i \in Unheld : \A j \in Unheld : i <= j

(* Faulty variant: the victim leaves the cache without being written back. *)
Evict_lost(b) ==
  /\ b \notin Cached
  /\ Len(queue) = BLOCK_CACHE_SIZE
  /\ Unheld # {}
  /\ queue' = Append(Without(queue, Victim), Loaded(b, disk))
  /\ UNCHANGED disk

Evict(b) ==
  /\ b \notin Cached
  /\ Len(queue) = BLOCK_CACHE_SIZE
  /\ Unheld # {}
  /\ disk' = sync(queue[Victim])
  /\ queue' = Append(Without(queue, Victim), Loaded(b, disk'))

Load(b) ==
  /\ b \notin Cached
  /\ Len(queue) < BLOCK_CACHE_SIZE
  /\ queue' = Append(queue, Loaded(b, disk))
  /\ UNCHANGED disk

Hit(b) ==
  /\ b \in Cached
  /\ UNCHANGED <<disk, queue>>

(* An operation never asks for a block it holds already, which it would    *)
(* have locked: the blocks of an inode's tree are different ones.          *)
get_block_cache(b) ==
  /\ op \in {"read", "probe", "update"}
  /\ Len(held) < MaxHeld
  /\ b \notin Held
  /\ Hit(b) \/ Load(b) \/ Evict(b)
  /\ held' = Append(held, b)
  /\ UNCHANGED op

-----------------------------------------------------------------------------
(* get_mut and the closure that writes through it.  Inode::create looks a  *)
(* name up through modify and changes nothing ("probe").                   *)
modify(c) ==
  /\ held # << >>
  /\ \/ op = "update"
     \/ op = "probe" /\ c = View[Innermost]
  /\ queue' = [queue EXCEPT ![Entry(Innermost)].cache = c,
                            ![Entry(Innermost)].modified = TRUE]
  /\ UNCHANGED <<disk, held, op>>

(* The guard and the Arc of the innermost block are dropped.               *)
Release ==
  /\ held # << >>
  /\ held' = SubSeq(held, 1, Len(held) - 1)
  /\ UNCHANGED <<disk, queue, op>>

(* Inode::find, ls and read_at read; create of a name that exists probes;  *)
(* create, write_at and clear update.                                      *)
Begin(kind) ==
  /\ op = "none"
  /\ op' = kind
  /\ UNCHANGED <<disk, queue, held>>

(* Inode::find, ls, read_at, and create where the name is there already.   *)
ReturnRead ==
  /\ op \in {"read", "probe"}
  /\ held = << >>
  /\ op' = "none"
  /\ UNCHANGED <<disk, queue, held>>

(* The others end with block_cache_sync_all, which goes through the queue. *)
StartSync ==
  /\ op = "update"
  /\ held = << >>
  /\ op' = "sync"
  /\ UNCHANGED <<disk, queue, held>>

Modified == {i \in DOMAIN queue : queue[i].modified}

SyncNext ==
  /\ op = "sync"
  /\ Modified # {}
  /\ LET i == CHOOSE i \in Modified : \A j \in Modified : i <= j
     IN  /\ disk' = sync(queue[i])
         /\ queue' = [queue EXCEPT ![i].modified = FALSE]
  /\ UNCHANGED <<held, op>>

ReturnUpdate ==
  /\ op = "sync"
  /\ Modified = {}
  /\ op' = "none"
  /\ UNCHANGED <<disk, queue, held>>

PowerLoss ==
  /\ queue' = << >>
  /\ held' = << >>
  /\ op' = "none"
  /\ UNCHANGED disk

Next ==
  \/ \E kind \in {"read", "probe", "update"} : Begin(kind)
  \/ \E b \in Blocks : get_block_cache(b)
  \/ \E c \in Contents : modify(c)
  \/ Release
  \/ ReturnRead
  \/ StartSync
  \/ SyncNext
  \/ ReturnUpdate
  \/ PowerLoss

Spec == Init /\ [][Next]_vars

-----------------------------------------------------------------------------
(***************************************************************************)
(* The cache holds at most one copy of a block and never lets go of one in *)
(* use, and a copy that is not marked modified is what the device holds:   *)
(* two copies, or an unmarked change, would let two parts of an operation  *)
(* work on different contents.                                             *)
(***************************************************************************)
CacheInv ==
  /\ Len(queue) <= BLOCK_CACHE_SIZE
  /\ \A i, j \in DOMAIN queue : queue[i].block_id = queue[j].block_id => i = j
  /\ Held \subseteq Cached
  /\ \A i \in DOMAIN queue : ~queue[i].modified => queue[i].cache = disk[queue[i].block_id]

(***************************************************************************)
(* The panic "Run out of BlockCache!" is not reached: when an operation    *)
(* may ask for one more block, the cache has it, has room, or holds a      *)
(* block that nobody refers to.                                            *)
(***************************************************************************)
NeverRunsOut ==
  (op \in {"read", "probe", "update"} /\ Len(held) < MaxHeld)
    => (Len(queue) < BLOCK_CACHE_SIZE \/ Unheld # {})

(***************************************************************************)
(* The cache cannot be told from a plain store: whatever is loaded,        *)
(* evicted and written back, in whatever order, an operation reads what    *)
(* was written last, and one that has returned loses nothing when the      *)
(* power fails, although only some operations end with a pass over the     *)
(* cache.                                                                  *)
(***************************************************************************)
Store == INSTANCE BlockStore WITH mem <- View, durable <- disk, inside <- held,
                                  busy <- (op # "none")
ImplementsStore == Store!Spec

=============================================================================
