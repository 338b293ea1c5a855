-------------------------- MODULE BlockCacheProofs --------------------------
(***************************************************************************)
(* Proofs about BlockCache: for any device, any size of the cache and any  *)
(* depth of nesting up to it, the cache does not run out, and cannot be    *)
(* told from a plain store.                                                *)
(***************************************************************************)
EXTENDS BlockCache, DataFacts, FiniteSetTheorems

Entries == [block_id : Blocks, cache : Contents, modified : BOOLEAN]
Ops == {"none", "read", "probe", "update", "sync"}

CacheTypes ==
  /\ disk \in [Blocks -> Contents]
  /\ queue \in Seq(Entries)
  /\ held \in Seq(Blocks)
  /\ op \in Ops

(* A block is cached once.                                                 *)
Distinct(q) == \A i, j \in 1 .. Len(q) : q[i].block_id = q[j].block_id => i = j

(* A block is held once, and only inside an operation.                     *)
HeldOnce ==
  /\ \A i, j \in 1 .. Len(held) : held[i] = held[j] => i = j
  /\ Len(held) <= MaxHeld
  /\ op \in {"none", "sync"} => held = << >>

(* Between operations, and in those that write nothing, the device has     *)
(* all there is.                                                           *)
Clean ==
  op \in {"none", "read", "probe"} =>
    \A i \in 1 .. Len(queue) : queue[i].cache = disk[queue[i].block_id]

(***************************************************************************)
(* The inductive invariant.  That an operation which only reads may return *)
(* without a pass over the cache needs Clean.                              *)
(***************************************************************************)
CacheIInv == CacheTypes /\ CacheInv /\ HeldOnce /\ Clean

-----------------------------------------------------------------------------
(* What is left of a queue when one entry is removed.                      *)
LEMMA Removed ==
  ASSUME NEW q \in Seq(Entries), Distinct(q), NEW v \in 1 .. Len(q)
  PROVE  LET r == Without(q, v)
         IN  /\ r \in Seq(Entries) /\ Len(r) = Len(q) - 1 /\ Distinct(r)
             /\ \A i \in 1 .. Len(r) : \E j \in 1 .. Len(q) : j # v /\ r[i] = q[j]
             /\ \A j \in 1 .. Len(q) : j # v => \E i \in 1 .. Len(r) : r[i] = q[j]
<1> DEFINE r == Without(q, v)
<1>0. Len(q) \in Nat
  OBVIOUS
<1>1. /\ r \in Seq(Entries) /\ Len(r) = Len(q) - 1 /\ Len(q) \in Nat
      /\ \A i \in 1 .. Len(q) - 1 : r[i] = IF i < v THEN q[i] ELSE q[i + 1]
  BY <1>0, RemoveAtFacts, Zenon DEF Without
<1> HIDE DEF r
<1>2. \A i \in 1 .. Len(r) : \E j \in 1 .. Len(q) : j # v /\ r[i] = q[j]
  <2> TAKE i \in 1 .. Len(r)
  <2>1. CASE i < v
    BY <1>1, <2>1
  <2>2. CASE ~(i < v)
    <3>1. i + 1 \in 1 .. Len(q) /\ i + 1 # v /\ r[i] = q[i + 1]
      BY <1>1, <2>2
    <3> QED
      BY <3>1
  <2> QED
    BY <2>1, <2>2
<1>3. \A j \in 1 .. Len(q) : j # v => \E i \in 1 .. Len(r) : r[i] = q[j]
  <2> SUFFICES ASSUME NEW j \in 1 .. Len(q), j # v PROVE \E i \in 1 .. Len(r) : r[i] = q[j]
    OBVIOUS
  <2>1. CASE j < v
    BY <1>1, <2>1
  <2>2. CASE ~(j < v)
    <3>1. j - 1 \in 1 .. Len(q) - 1 /\ ~(j - 1 < v) /\ (j - 1) + 1 = j
      BY <1>1, <2>2
    <3>2. r[j - 1] = q[(j - 1) + 1]
      BY <1>1, <3>1
    <3> QED
      BY <1>1, <3>1, <3>2
  <2> QED
    BY <2>1, <2>2
<1>4. Distinct(r)
  <2> SUFFICES ASSUME NEW i \in 1 .. Len(r), NEW j \in 1 .. Len(r), r[i].block_id = r[j].block_id
               PROVE  i = j
    BY DEF Distinct
  <2> DEFINE a == IF i < v THEN i ELSE i + 1
             b == IF j < v THEN j ELSE j + 1
  <2>1. a \in 1 .. Len(q) /\ r[i] = q[a] /\ b \in 1 .. Len(q) /\ r[j] = q[b]
    BY <1>1
  <2>2. a = b => i = j
    BY <1>1
  <2> HIDE DEF a, b
  <2> QED
    BY <2>1, <2>2 DEF Distinct
<1> QED
  BY <1>1, <1>2, <1>3, <1>4 DEF r

(* What is in a queue to which an entry is appended.                       *)
LEMMA Appended ==
  ASSUME NEW q \in Seq(Entries), Distinct(q), NEW e \in Entries,
         \A i \in 1 .. Len(q) : q[i].block_id # e.block_id
  PROVE  LET r == Append(q, e)
         IN  /\ r \in Seq(Entries) /\ Len(r) = Len(q) + 1 /\ Distinct(r)
             /\ \A i \in 1 .. Len(r) : r[i] = e \/ \E j \in 1 .. Len(q) : r[i] = q[j]
             /\ \A j \in 1 .. Len(q) : \E i \in 1 .. Len(r) : r[i] = q[j]
             /\ \E i \in 1 .. Len(r) : r[i] = e
<1> DEFINE r == Append(q, e)
<1>1. /\ r \in Seq(Entries) /\ Len(r) = Len(q) + 1 /\ Len(q) \in Nat /\ r[Len(q) + 1] = e
      /\ \A i \in 1 .. Len(q) : r[i] = q[i]
  BY AppendFacts
<1> HIDE DEF r
<1>2. Distinct(r)
  BY <1>1 DEF Distinct
<1> QED
  BY <1>1, <1>2 DEF r

-----------------------------------------------------------------------------
(***************************************************************************)
(* View, point by point.                                                   *)
(***************************************************************************)
Seen(q, d) ==
  [b \in Blocks |->
     IF b \in {q[i].block_id : i \in DOMAIN q}
     THEN q[CHOOSE i \in DOMAIN q : q[i].block_id = b].cache ELSE d[b]]

LEMMA ViewSeen == View = Seen(queue, disk)
  BY DEF View, Seen, Cached, Entry

LEMMA SeenPoints ==
  ASSUME NEW q \in Seq(Entries), Distinct(q), NEW d \in [Blocks -> Contents]
  PROVE  /\ Seen(q, d) \in [Blocks -> Contents]
         /\ \A i \in 1 .. Len(q) : Seen(q, d)[q[i].block_id] = q[i].cache
         /\ \A b \in Blocks : (\A i \in 1 .. Len(q) : q[i].block_id # b) => Seen(q, d)[b] = d[b]
<1>1. DOMAIN q = 1 .. Len(q) /\ \A i \in 1 .. Len(q) : q[i] \in Entries
  OBVIOUS
<1>2. ASSUME NEW i \in 1 .. Len(q) PROVE Seen(q, d)[q[i].block_id] = q[i].cache
  <2>1. q[i].block_id \in Blocks
    BY <1>1 DEF Entries
  <2>2. (CHOOSE j \in DOMAIN q : q[j].block_id = q[i].block_id) = i
    BY <1>1 DEF Distinct
  <2> QED
    BY <1>1, <2>1, <2>2 DEF Seen
<1>3. ASSUME NEW b \in Blocks, \A i \in 1 .. Len(q) : q[i].block_id # b
      PROVE  Seen(q, d)[b] = d[b]
  BY <1>1, <1>3 DEF Seen
<1>4. ASSUME NEW b \in Blocks PROVE Seen(q, d)[b] \in Contents
  <2>1. CASE \E i \in 1 .. Len(q) : q[i].block_id = b
    BY <1>1, <1>2, <2>1 DEF Entries
  <2>2. CASE \A i \in 1 .. Len(q) : q[i].block_id # b
    BY <1>3, <2>2
  <2> QED
    BY <2>1, <2>2
<1>5. Seen(q, d) = [b \in Blocks |-> Seen(q, d)[b]]
  BY DEF Seen
<1> QED
  BY <1>2, <1>3, <1>4, <1>5

-----------------------------------------------------------------------------
(***************************************************************************)
(* The cache does not run out: each of its entries would be held, and more *)
(* entries than held blocks cannot all be different.                       *)
(***************************************************************************)
LEMMA SomeUnheld ==
  ASSUME CacheIInv, Len(held) < MaxHeld, Len(queue) = BLOCK_CACHE_SIZE
  PROVE  Unheld # {}
<1> SUFFICES ASSUME Unheld = {} PROVE FALSE
  OBVIOUS
<1> DEFINE S == 1 .. Len(queue)
           T == 1 .. Len(held)
           f == [i \in S |-> CHOOSE j \in T : held[j] = queue[i].block_id]
<1>1. /\ DOMAIN queue = S /\ Len(queue) \in Nat /\ Len(held) \in Nat
      /\ Len(held) < Len(queue)
  BY CacheAssumption DEF CacheIInv, CacheTypes
<1>2. \A i \in S : \E j \in T : held[j] = queue[i].block_id
  BY <1>1 DEF Unheld, Held
<1>3. f \in [S -> T] /\ \A i \in S : held[f[i]] = queue[i].block_id
  BY <1>2, Zenon
<1>4. /\ IsFiniteSet(S) /\ IsFiniteSet(T)
      /\ Cardinality(T) < Cardinality(S)
  <2>1. \A n \in Nat : IsFiniteSet(1 .. n) /\ Cardinality(1 .. n) = IF 1 > n THEN 0 ELSE n - 1 + 1
    BY 1 \in Int, Nat \subseteq Int, FS_Interval, Zenon
  <2>2. \A n \in Nat : IsFiniteSet(1 .. n) /\ Cardinality(1 .. n) = n
    BY <2>1
  <2> QED
    BY <1>1, <2>2
<1> HIDE DEF f, S, T
<1>5. \E x, y \in S : x # y /\ f[x] = f[y]
  BY <1>3, <1>4, FS_PigeonHole
<1> USE DEF S
<1> QED
  BY <1>1, <1>3, <1>5 DEF CacheIInv, CacheInv

LEMMA NotOut == CacheIInv => NeverRunsOut
<1>1. CacheIInv => Len(queue) \in Nat /\ BLOCK_CACHE_SIZE \in Nat /\ Len(queue) <= BLOCK_CACHE_SIZE
  BY CacheAssumption DEF CacheIInv, CacheInv, CacheTypes
<1>2. ASSUME CacheIInv, Len(held) < MaxHeld PROVE Len(queue) < BLOCK_CACHE_SIZE \/ Unheld # {}
  <2>1. CASE Len(queue) = BLOCK_CACHE_SIZE
    BY <1>2, <2>1, SomeUnheld
  <2> QED
    BY <1>1, <1>2, <2>1
<1> QED
  BY <1>2 DEF NeverRunsOut

(* The victim is an entry that nobody holds.                               *)
LEMMA VictimUnheld ==
  ASSUME CacheIInv, Unheld # {}
  PROVE  /\ Victim \in 1 .. Len(queue)
         /\ \A i \in 1 .. Len(held) : held[i] # queue[Victim].block_id
<1>1. Unheld \in SUBSET Nat /\ Unheld \subseteq 1 .. Len(queue)
  BY DEF Unheld, CacheIInv, CacheTypes
<1>2. \E i \in Unheld : \A j \in Unheld : i <= j
  BY <1>1, LeastNatural
<1>3. Victim \in Unheld
  BY <1>2 DEF Victim
<1> QED
  BY <1>1, <1>3 DEF Unheld, Held

(* The entry of a block that is cached.                                    *)
LEMMA EntryOf ==
  ASSUME CacheTypes, NEW b \in Cached
  PROVE  Entry(b) \in 1 .. Len(queue) /\ queue[Entry(b)].block_id = b
<1>1. DOMAIN queue = 1 .. Len(queue)
  BY DEF CacheTypes
<1> QED
  BY <1>1 DEF Entry, Cached

(* Initially nothing is cached and nothing held.                           *)
LEMMA InitCache == Init => CacheIInv
<1> SUFFICES ASSUME Init PROVE CacheIInv
  OBVIOUS
<1>1. Len(queue) = 0 /\ Len(held) = 0
  BY DEF Init
<1>2. CacheTypes /\ HeldOnce /\ Clean
  BY <1>1, CacheAssumption DEF Init, CacheTypes, Ops, HeldOnce, Clean
<1>3. CacheInv
  BY <1>1, CacheAssumption DEF Init, CacheInv, Held
<1> QED
  BY <1>2, <1>3 DEF CacheIInv

-----------------------------------------------------------------------------
(* The parts of the invariant about the queue, with plain indices.         *)
Coherent(q, d, hs) ==
  /\ q \in Seq(Entries) /\ Len(q) <= BLOCK_CACHE_SIZE /\ Distinct(q)
  /\ d \in [Blocks -> Contents]
  /\ \A i \in 1 .. Len(hs) : \E j \in 1 .. Len(q) : q[j].block_id = hs[i]
  /\ \A i \in 1 .. Len(q) : ~q[i].modified => q[i].cache = d[q[i].block_id]

LEMMA InvCoherent ==
  CacheIInv <=> /\ Coherent(queue, disk, held) /\ held \in Seq(Blocks) /\ op \in Ops
                /\ HeldOnce /\ Clean
<1>1. ASSUME queue \in Seq(Entries), held \in Seq(Blocks)
      PROVE  /\ DOMAIN queue = 1 .. Len(queue)
             /\ Held \subseteq Cached <=>
                  \A i \in 1 .. Len(held) : \E j \in 1 .. Len(queue) : queue[j].block_id = held[i]
  <2>1. DOMAIN queue = 1 .. Len(queue) /\ DOMAIN held = 1 .. Len(held)
    BY <1>1
  <2> QED
    BY <2>1, Zenon DEF Held, Cached
<1> QED
  BY <1>1 DEF CacheIInv, CacheTypes, CacheInv, Coherent, Distinct

LEMMA InvCoherentNext ==
  (/\ Coherent(queue', disk', held') /\ held' \in Seq(Blocks) /\ op' \in Ops
   /\ HeldOnce' /\ Clean') => CacheIInv'
<1>1. ASSUME queue' \in Seq(Entries), held' \in Seq(Blocks)
      PROVE  /\ DOMAIN queue' = 1 .. Len(queue')
             /\ Held' \subseteq Cached' <=>
                  \A i \in 1 .. Len(held') : \E j \in 1 .. Len(queue') :
                     queue'[j].block_id = held'[i]
  <2>1. DOMAIN queue' = 1 .. Len(queue') /\ DOMAIN held' = 1 .. Len(held')
    BY <1>1
  <2> QED
    BY <2>1, Zenon DEF Held, Cached
<1> QED
  BY <1>1 DEF CacheIInv, CacheTypes, CacheInv, Coherent, Distinct

(* What is enough for an operation to see m.                               *)
LEMMA SeenIs ==
  ASSUME NEW q \in Seq(Entries), Distinct(q), NEW d \in [Blocks -> Contents],
         NEW m \in [Blocks -> Contents],
         \A i \in 1 .. Len(q) : m[q[i].block_id] = q[i].cache,
         \A x \in Blocks : (\A i \in 1 .. Len(q) : q[i].block_id # x) => m[x] = d[x]
  PROVE  Seen(q, d) = m
<1>1. /\ Seen(q, d) \in [Blocks -> Contents]
      /\ \A i \in 1 .. Len(q) : Seen(q, d)[q[i].block_id] = q[i].cache
      /\ \A x \in Blocks : (\A i \in 1 .. Len(q) : q[i].block_id # x) => Seen(q, d)[x] = d[x]
  BY SeenPoints
<1>2. ASSUME NEW x \in Blocks PROVE Seen(q, d)[x] = m[x]
  <2>1. CASE \E i \in 1 .. Len(q) : q[i].block_id = x
    BY <1>1, <2>1
  <2>2. CASE \A i \in 1 .. Len(q) : q[i].block_id # x
    BY <1>1, <2>2
  <2> QED
    BY <2>1, <2>2
<1> QED
  BY <1>1, <1>2

(* What loading a block, and evicting another, do to the queue.            *)
LEMMA LoadStep ==
  ASSUME CacheIInv, NEW b \in Blocks, Load(b)
  PROVE  /\ Coherent(queue', disk', held) /\ disk' = disk
         /\ \E j \in 1 .. Len(queue') : queue'[j].block_id = b
         /\ Clean /\ op' = op => Clean'
         /\ Seen(queue', disk') = Seen(queue, disk)
<1>1. /\ Coherent(queue, disk, held) /\ DOMAIN queue = 1 .. Len(queue) /\ Len(queue) \in Nat
      /\ \A i \in 1 .. Len(queue) : queue[i] \in Entries
  BY InvCoherent DEF Coherent
<1>2. /\ disk' = disk /\ Len(queue) < BLOCK_CACHE_SIZE
      /\ queue' = Append(queue, Loaded(b, disk))
      /\ \A i \in 1 .. Len(queue) : queue[i].block_id # b
  BY <1>1 DEF Load, Cached
<1> DEFINE e == Loaded(b, disk)
<1>3. e \in Entries /\ e.block_id = b /\ e.cache = disk[b] /\ e.modified = FALSE
  BY <1>1 DEF Loaded, Entries, Coherent
<1> HIDE DEF e
<1>4. /\ queue' \in Seq(Entries) /\ Len(queue') = Len(queue) + 1 /\ Distinct(queue')
      /\ \A i \in 1 .. Len(queue') : queue'[i] = e \/ \E j \in 1 .. Len(queue) : queue'[i] = queue[j]
      /\ \A j \in 1 .. Len(queue) : \E i \in 1 .. Len(queue') : queue'[i] = queue[j]
      /\ \E i \in 1 .. Len(queue') : queue'[i] = e
  BY <1>1, <1>2, <1>3, Appended DEF Coherent, e
<1>5. Coherent(queue', disk', held)
  BY <1>1, <1>2, <1>3, <1>4, CacheAssumption DEF Coherent
<1>6. Clean /\ op' = op => Clean'
  BY <1>2, <1>3, <1>4 DEF Clean
<1>7. Seen(queue', disk') = Seen(queue, disk)
  <2>1. /\ Seen(queue, disk) \in [Blocks -> Contents]
        /\ \A i \in 1 .. Len(queue) : Seen(queue, disk)[queue[i].block_id] = queue[i].cache
        /\ \A x \in Blocks : (\A i \in 1 .. Len(queue) : queue[i].block_id # x)
                               => Seen(queue, disk)[x] = disk[x]
    BY <1>1, SeenPoints DEF Coherent
  <2>2. Seen(queue, disk)[b] = disk[b]
    BY <1>2, <2>1
  <2>3. ASSUME NEW i \in 1 .. Len(queue')
        PROVE  Seen(queue, disk)[queue'[i].block_id] = queue'[i].cache
    BY <1>3, <1>4, <2>1, <2>2
  <2>4. ASSUME NEW x \in Blocks, \A i \in 1 .. Len(queue') : queue'[i].block_id # x
        PROVE  Seen(queue, disk)[x] = disk'[x]
    <3>1. \A j \in 1 .. Len(queue) : queue[j].block_id # x
      BY <1>4, <2>4
    <3> QED
      BY <1>2, <2>1, <3>1
  <2> HIDE DEF Seen
  <2> QED
    BY <1>5, <2>1, <2>3, <2>4, SeenIs DEF Coherent
<1> QED
  BY <1>2, <1>3, <1>4, <1>5, <1>6, <1>7

LEMMA EvictStep ==
  ASSUME CacheIInv, NEW b \in Blocks, Evict(b)
  PROVE  /\ Coherent(queue', disk', held)
         /\ \E v \in Blocks : disk' = [disk EXCEPT ![v] = Seen(queue, disk)[v]]
         /\ \E j \in 1 .. Len(queue') : queue'[j].block_id = b
         /\ Clean /\ op' = op => Clean'
         /\ Seen(queue', disk') = Seen(queue, disk)
<1> DEFINE v == Victim
           w == queue[v]
           r == Without(queue, v)
           e == Loaded(b, disk')
<1>1. /\ Coherent(queue, disk, held) /\ DOMAIN queue = 1 .. Len(queue) /\ Len(queue) \in Nat
      /\ \A i \in 1 .. Len(queue) : queue[i] \in Entries
  BY InvCoherent DEF Coherent
<1>2. /\ v \in 1 .. Len(queue) /\ w \in Entries
      /\ \A i \in 1 .. Len(held) : held[i] # w.block_id
  BY <1>1, VictimUnheld DEF Evict
<1>3. /\ disk' = sync(w) /\ Len(queue) = BLOCK_CACHE_SIZE
      /\ queue' = Append(r, e)
      /\ \A i \in 1 .. Len(queue) : queue[i].block_id # b
  BY <1>1 DEF Evict, Cached
<1> HIDE DEF v
<1>4. disk' = [disk EXCEPT ![w.block_id] = w.cache]
  <2>1. CASE w.modified
    BY <1>3, <2>1 DEF sync
  <2>2. CASE ~w.modified
    <3>1. w.cache = disk[w.block_id]
      BY <1>1, <1>2, <2>2 DEF Coherent
    <3>2. disk' = disk /\ disk \in [Blocks -> Contents]
      BY <1>1, <1>3, <2>2 DEF sync, Coherent
    <3>3. disk = [disk EXCEPT ![w.block_id] = disk[w.block_id]]
      BY <3>2
    <3> QED
      BY <3>1, <3>2, <3>3
  <2> QED
    BY <2>1, <2>2
<1>5. /\ disk' \in [Blocks -> Contents]
      /\ disk'[w.block_id] = w.cache
      /\ \A x \in Blocks : x # w.block_id => disk'[x] = disk[x]
  <2>1. w.block_id \in Blocks /\ w.cache \in Contents /\ disk \in [Blocks -> Contents]
    BY <1>1, <1>2 DEF Coherent, Entries
  <2> HIDE DEF w
  <2> QED
    BY <1>4, <2>1
<1>6. /\ r \in Seq(Entries) /\ Len(r) = Len(queue) - 1 /\ Distinct(r)
      /\ \A i \in 1 .. Len(r) : \E j \in 1 .. Len(queue) : j # v /\ r[i] = queue[j]
      /\ \A j \in 1 .. Len(queue) : j # v => \E i \in 1 .. Len(r) : r[i] = queue[j]
  BY <1>1, <1>2, Removed, Zenon DEF Coherent
<1>7. e \in Entries /\ e.block_id = b /\ e.cache = disk'[b] /\ e.modified = FALSE
  BY <1>5 DEF Loaded, Entries
<1> HIDE DEF e, r
<1>8. /\ queue' \in Seq(Entries) /\ Len(queue') = Len(queue) /\ Distinct(queue')
      /\ \A i \in 1 .. Len(queue') : queue'[i] = e \/ \E j \in 1 .. Len(r) : queue'[i] = r[j]
      /\ \A j \in 1 .. Len(r) : \E i \in 1 .. Len(queue') : queue'[i] = r[j]
      /\ \E i \in 1 .. Len(queue') : queue'[i] = e
  <2>1. \A i \in 1 .. Len(r) : r[i].block_id # e.block_id
    BY <1>3, <1>6, <1>7
  <2> DEFINE s == Append(r, e)
  <2>2. /\ s \in Seq(Entries) /\ Len(s) = Len(r) + 1 /\ Distinct(s)
        /\ \A i \in 1 .. Len(s) : s[i] = e \/ \E j \in 1 .. Len(r) : s[i] = r[j]
        /\ \A j \in 1 .. Len(r) : \E i \in 1 .. Len(s) : s[i] = r[j]
        /\ \E i \in 1 .. Len(s) : s[i] = e
    <3>1. r \in Seq(Entries) /\ Distinct(r) /\ e \in Entries
      BY <1>6, <1>7
    <3> QED
      BY <2>1, <3>1, Appended
  <2>3. queue' = s
    BY <1>3
  <2> HIDE DEF s
  <2>4. Len(s) = Len(queue)
    BY <1>1, <1>6, <2>2
  <2> QED
    BY <2>2, <2>3, <2>4
<1>9. \A j \in 1 .. Len(queue) : j # v => queue[j].block_id # w.block_id
  BY <1>1, <1>2 DEF Coherent, Distinct
<1>10. /\ \A i \in 1 .. Len(queue') : queue'[i] = e \/ \E j \in 1 .. Len(queue) : j # v /\ queue'[i] = queue[j]
       /\ \A j \in 1 .. Len(queue) : j # v => \E i \in 1 .. Len(queue') : queue'[i] = queue[j]
  <2>1. ASSUME NEW i \in 1 .. Len(queue')
        PROVE  queue'[i] = e \/ \E j \in 1 .. Len(queue) : j # v /\ queue'[i] = queue[j]
    <3>1. ASSUME NEW k \in 1 .. Len(r), queue'[i] = r[k]
          PROVE  \E j \in 1 .. Len(queue) : j # v /\ queue'[i] = queue[j]
      BY <1>6, <3>1
    <3> QED
      BY <1>8, <3>1
  <2>2. ASSUME NEW j \in 1 .. Len(queue), j # v
        PROVE  \E i \in 1 .. Len(queue') : queue'[i] = queue[j]
    <3>1. PICK k \in 1 .. Len(r) : r[k] = queue[j]
      BY <1>6, <2>2
    <3>2. PICK i \in 1 .. Len(queue') : queue'[i] = r[k]
      BY <1>8
    <3> QED
      BY <3>1, <3>2
  <2> QED
    BY <2>1, <2>2
<1>11. \A j \in 1 .. Len(queue) : j # v => disk'[queue[j].block_id] = disk[queue[j].block_id]
  BY <1>1, <1>5, <1>9 DEF Entries
<1> HIDE DEF w
<1>12. Coherent(queue', disk', held)
  <2>1. \A i \in 1 .. Len(held) : \E j \in 1 .. Len(queue') : queue'[j].block_id = held[i]
    <3> TAKE i \in 1 .. Len(held)
    <3>1. PICK j \in 1 .. Len(queue) : queue[j].block_id = held[i]
      BY <1>1 DEF Coherent
    <3>2. j # v
      BY <1>2, <3>1 DEF w
    <3> QED
      BY <1>10, <3>1, <3>2
  <2>2. ASSUME NEW i \in 1 .. Len(queue'), ~queue'[i].modified
        PROVE  queue'[i].cache = disk'[queue'[i].block_id]
    <3>1. CASE queue'[i] = e
      BY <1>7, <3>1
    <3>2. ASSUME NEW j \in 1 .. Len(queue), j # v, queue'[i] = queue[j]
          PROVE  queue'[i].cache = disk'[queue'[i].block_id]
      BY <1>1, <1>11, <2>2, <3>2 DEF Coherent
    <3> QED
      BY <1>10, <3>1, <3>2
  <2>3. Len(queue') <= BLOCK_CACHE_SIZE
    BY <1>1, <1>3, <1>8
  <2> QED
    BY <1>5, <1>8, <2>1, <2>2, <2>3 DEF Coherent
<1>13. Clean /\ op' = op => Clean'
  <2> SUFFICES ASSUME Clean, op \in {"none", "read", "probe"}, NEW i \in 1 .. Len(queue')
               PROVE  queue'[i].cache = disk'[queue'[i].block_id]
    BY DEF Clean
  <2>1. CASE queue'[i] = e
    BY <1>7, <2>1
  <2>2. ASSUME NEW j \in 1 .. Len(queue), j # v, queue'[i] = queue[j]
        PROVE  queue'[i].cache = disk'[queue'[i].block_id]
    BY <1>11, <2>2 DEF Clean
  <2> QED
    BY <1>10, <2>1, <2>2
<1>14. /\ Seen(queue, disk) \in [Blocks -> Contents]
       /\ \A i \in 1 .. Len(queue) : Seen(queue, disk)[queue[i].block_id] = queue[i].cache
       /\ \A x \in Blocks : (\A i \in 1 .. Len(queue) : queue[i].block_id # x)
                              => Seen(queue, disk)[x] = disk[x]
  BY <1>1, SeenPoints DEF Coherent
<1> HIDE DEF Seen
<1>15. w.block_id \in Blocks /\ Seen(queue, disk)[w.block_id] = w.cache
  BY <1>2, <1>14 DEF w, Entries
<1>16. Seen(queue', disk') = Seen(queue, disk)
  <2>1. b # w.block_id /\ Seen(queue, disk)[b] = disk'[b]
    <3>1. b # w.block_id
      BY <1>2, <1>3 DEF w
    <3> QED
      BY <1>3, <1>5, <1>14, <3>1
  <2>2. ASSUME NEW i \in 1 .. Len(queue')
        PROVE  Seen(queue, disk)[queue'[i].block_id] = queue'[i].cache
    BY <1>7, <1>10, <1>14, <2>1
  <2>3. ASSUME NEW x \in Blocks, \A i \in 1 .. Len(queue') : queue'[i].block_id # x
        PROVE  Seen(queue, disk)[x] = disk'[x]
    <3>1. CASE x = w.block_id
      BY <1>5, <1>15, <3>1
    <3>2. CASE x # w.block_id
      <4>1. \A j \in 1 .. Len(queue) : queue[j].block_id # x
        BY <1>10, <2>3, <3>2 DEF w
      <4> QED
        BY <1>5, <1>14, <3>2, <4>1
    <3> QED
      BY <3>1, <3>2
  <2> QED
    BY <1>12, <1>14, <2>2, <2>3, SeenIs DEF Coherent
<1>17. \E x \in Blocks : disk' = [disk EXCEPT ![x] = Seen(queue, disk)[x]]
  BY <1>4, <1>15, Zenon
<1> QED
  BY <1>7, <1>8, <1>12, <1>13, <1>16, <1>17, Zenon

LEMMA HitStep ==
  ASSUME CacheIInv, NEW b \in Blocks, Hit(b)
  PROVE  /\ Coherent(queue', disk', held) /\ disk' = disk
         /\ \E j \in 1 .. Len(queue') : queue'[j].block_id = b
         /\ Clean /\ op' = op => Clean'
         /\ Seen(queue', disk') = Seen(queue, disk)
<1>1. Coherent(queue, disk, held) /\ queue' = queue /\ disk' = disk
  BY InvCoherent DEF Hit
<1>2. \E j \in 1 .. Len(queue) : queue[j].block_id = b
  BY EntryOf DEF CacheIInv, Hit
<1> QED
  BY <1>1, <1>2 DEF Clean

-----------------------------------------------------------------------------
(* Each step keeps the invariant and is a step of the store.               *)
LEMMA ViewSeenNext == View' = Seen(queue', disk')
  BY DEF View, Seen, Cached, Entry

LEMMA GetStep ==
  ASSUME CacheIInv, NEW b \in Blocks, get_block_cache(b)
  PROVE  CacheIInv' /\ Store!Take(b)
<1>1. /\ Coherent(queue', disk', held)
      /\ \E j \in 1 .. Len(queue') : queue'[j].block_id = b
      /\ Clean /\ op' = op => Clean'
      /\ Seen(queue', disk') = Seen(queue, disk)
      /\ disk' = disk \/ \E v \in Blocks : disk' = [disk EXCEPT ![v] = Seen(queue, disk)[v]]
  <2>1. CASE Hit(b)
    BY <2>1, HitStep
  <2>2. CASE Load(b)
    BY <2>2, LoadStep
  <2>3. CASE Evict(b)
    BY <2>3, EvictStep
  <2> QED
    BY <2>1, <2>2, <2>3 DEF get_block_cache
<1>2. /\ held \in Seq(Blocks) /\ op \in Ops /\ HeldOnce /\ Clean
  BY DEF CacheIInv, CacheTypes
<1>3. /\ op \in {"read", "probe", "update"} /\ Len(held) < MaxHeld
      /\ held' = Append(held, b) /\ op' = op
  BY DEF get_block_cache
<1>4. /\ held' \in Seq(Blocks) /\ Len(held') = Len(held) + 1 /\ held'[Len(held) + 1] = b
      /\ Len(held) \in Nat
      /\ \A i \in 1 .. Len(held) : held'[i] = held[i] /\ held[i] # b
  <2>1. DOMAIN held = 1 .. Len(held)
    BY <1>2
  <2> QED
    BY <1>2, <1>3, <2>1, AppendFacts DEF get_block_cache, Held
<1>5. HeldOnce'
  <2>1. \A i, j \in 1 .. Len(held') : held'[i] = held'[j] => i = j
    BY <1>2, <1>4 DEF HeldOnce
  <2>2. Len(held') <= MaxHeld
    BY <1>3, <1>4, CacheAssumption
  <2> QED
    BY <1>3, <2>1, <2>2 DEF HeldOnce
<1>6. Coherent(queue', disk', held')
  <2>1. ASSUME NEW i \in 1 .. Len(held')
        PROVE  \E j \in 1 .. Len(queue') : queue'[j].block_id = held'[i]
    <3>1. CASE i = Len(held) + 1
      BY <1>1, <1>4, <3>1
    <3>2. CASE i \in 1 .. Len(held)
      BY <1>1, <1>4, <3>2 DEF Coherent
    <3> QED
      BY <1>4, <3>1, <3>2
  <2> QED
    BY <1>1, <2>1 DEF Coherent
<1>7. CacheIInv'
  BY <1>1, <1>2, <1>3, <1>4, <1>5, <1>6, InvCoherentNext
<1>8. Store!Take(b)
  <2>1. View' = View /\ (disk' = disk \/ \E v \in Blocks : disk' = [disk EXCEPT ![v] = View[v]])
    BY <1>1, ViewSeen, ViewSeenNext
  <2>2. op # "none" /\ op' # "none"
    BY <1>3
  <2> QED
    BY <1>3, <2>1, <2>2 DEF Store!Take
<1> QED
  BY <1>7, <1>8

LEMMA ModifyStep ==
  ASSUME CacheIInv, NEW c \in Contents, modify(c)
  PROVE  CacheIInv' /\ Store!Write(c)
<1> DEFINE b == Innermost
           k == Entry(b)
           e == [queue[k] EXCEPT !.cache = c, !.modified = TRUE]
<1>1. /\ Coherent(queue, disk, held) /\ DOMAIN queue = 1 .. Len(queue) /\ Len(queue) \in Nat
      /\ \A i \in 1 .. Len(queue) : queue[i] \in Entries
  BY InvCoherent DEF Coherent
<1>2. held \in Seq(Blocks) /\ held # << >> /\ op \in Ops /\ HeldOnce /\ Clean
  BY DEF CacheIInv, CacheTypes, modify
<1>3. b \in Blocks /\ b \in Cached
  <2>1. Len(held) \in Nat \ {0} /\ b \in Blocks /\ b = held[Len(held)]
    BY <1>2, FrontFacts DEF Innermost
  <2>2. \E j \in 1 .. Len(queue) : queue[j].block_id = b
    BY <1>1, <2>1 DEF Coherent
  <2> QED
    BY <1>1, <2>1, <2>2 DEF Cached
<1>4. k \in 1 .. Len(queue) /\ queue[k].block_id = b
  BY <1>3, EntryOf DEF CacheIInv
<1>5. disk' = disk /\ held' = held /\ op' = op
  BY DEF modify
<1>6. /\ op = "update" \/ (op = "probe" /\ c = View[b])
      /\ queue' = [queue EXCEPT ![k].cache = c, ![k].modified = TRUE]
  BY DEF modify
<1> HIDE DEF k, b
<1>7. e \in Entries /\ e.block_id = b /\ e.cache = c /\ e.modified = TRUE
  BY <1>1, <1>4, Zenon DEF Entries
<1>8. queue' = [queue EXCEPT ![k] = e]
  BY <1>1, <1>4, <1>6, Zenon
<1> HIDE DEF e
<1>9. /\ queue' \in Seq(Entries) /\ Len(queue') = Len(queue) /\ queue'[k] = e
      /\ \A i \in 1 .. Len(queue) : i # k => queue'[i] = queue[i]
      /\ \A i \in 1 .. Len(queue) : queue'[i].block_id = queue[i].block_id
  <2>1. queue' \in Seq(Entries) /\ Len(queue') = Len(queue)
    BY <1>1, <1>4, <1>7, <1>8 DEF Coherent
  <2>2. queue'[k] = e /\ \A i \in 1 .. Len(queue) : i # k => queue'[i] = queue[i]
    BY <1>1, <1>4, <1>8
  <2> QED
    BY <1>4, <1>7, <2>1, <2>2
<1>10. Coherent(queue', disk', held')
  <2>1. Distinct(queue')
    BY <1>1, <1>9 DEF Coherent, Distinct
  <2>2. \A i \in 1 .. Len(held') : \E j \in 1 .. Len(queue') : queue'[j].block_id = held'[i]
    BY <1>1, <1>5, <1>9 DEF Coherent
  <2>3. \A i \in 1 .. Len(queue') : ~queue'[i].modified => queue'[i].cache = disk'[queue'[i].block_id]
    BY <1>1, <1>5, <1>7, <1>9 DEF Coherent
  <2> QED
    BY <1>1, <1>5, <1>9, <2>1, <2>2, <2>3 DEF Coherent
<1>11. /\ View \in [Blocks -> Contents]
       /\ \A i \in 1 .. Len(queue) : View[queue[i].block_id] = queue[i].cache
       /\ \A x \in Blocks : (\A i \in 1 .. Len(queue) : queue[i].block_id # x) => View[x] = disk[x]
  BY <1>1, ViewSeen, SeenPoints DEF Coherent
<1>12. Clean'
  <2> SUFFICES ASSUME op = "probe", NEW i \in 1 .. Len(queue)
               PROVE  queue'[i].cache = disk[queue'[i].block_id]
    BY <1>5, <1>6, <1>9 DEF Clean
  <2>1. CASE i = k
    <3>1. c = queue[k].cache
      BY <1>4, <1>6, <1>11
    <3>2. queue[k].cache = disk[queue[k].block_id]
      BY <1>2, <1>4 DEF Clean
    <3> QED
      BY <1>4, <1>7, <1>9, <2>1, <3>1, <3>2
  <2>2. CASE i # k
    BY <1>2, <1>9, <2>2 DEF Clean
  <2> QED
    BY <2>1, <2>2
<1>13. CacheIInv'
  <2>1. HeldOnce'
    BY <1>2, <1>5 DEF HeldOnce
  <2> QED
    BY <1>2, <1>5, <1>10, <1>12, <2>1, InvCoherentNext
<1>14. View' = [View EXCEPT ![b] = c]
  <2> DEFINE m == [View EXCEPT ![b] = c]
  <2>1. /\ m \in [Blocks -> Contents] /\ m[b] = c
        /\ \A x \in Blocks : x # b => m[x] = View[x]
    BY <1>3, <1>11
  <2> HIDE DEF m
  <2>2. ASSUME NEW i \in 1 .. Len(queue') PROVE m[queue'[i].block_id] = queue'[i].cache
    <3>1. CASE i = k
      BY <1>7, <1>9, <2>1, <3>1
    <3>2. CASE i # k
      <4>1. queue[i].block_id # b /\ queue[i].block_id \in Blocks
        BY <1>1, <1>4, <1>9, <3>2 DEF Coherent, Distinct, Entries
      <4> QED
        BY <1>9, <1>11, <2>1, <3>2, <4>1
    <3> QED
      BY <3>1, <3>2
  <2>3. ASSUME NEW x \in Blocks, \A i \in 1 .. Len(queue') : queue'[i].block_id # x
        PROVE  m[x] = disk'[x]
    <3>1. x # b /\ \A i \in 1 .. Len(queue) : queue[i].block_id # x
      BY <1>4, <1>9, <2>3
    <3> QED
      BY <1>5, <1>11, <2>1, <3>1
  <2>4. Seen(queue', disk') = m
    BY <1>10, <2>1, <2>2, <2>3, SeenIs DEF Coherent
  <2> QED
    BY <2>4, ViewSeenNext DEF m
<1>15. Store!Write(c)
  BY <1>2, <1>5, <1>14 DEF Store!Write, Innermost, b
<1> QED
  BY <1>13, <1>15

LEMMA ReleaseStep == CacheIInv /\ Release => CacheIInv' /\ Store!Leave
<1> SUFFICES ASSUME CacheIInv, Release PROVE CacheIInv' /\ Store!Leave
  OBVIOUS
<1>1. Coherent(queue, disk, held) /\ held \in Seq(Blocks) /\ op \in Ops /\ HeldOnce /\ Clean
  BY InvCoherent
<1>2. held # << >> /\ held' = SubSeq(held, 1, Len(held) - 1) /\ disk' = disk /\ queue' = queue /\ op' = op
  BY DEF Release
<1>3. /\ Len(held) \in Nat \ {0} /\ held' \in Seq(Blocks) /\ Len(held') = Len(held) - 1
      /\ \A i \in 1 .. Len(held) - 1 : held'[i] = held[i]
  BY <1>1, <1>2, FrontFacts
<1>4. HeldOnce'
  <2>1. \A i, j \in 1 .. Len(held') : held'[i] = held'[j] => i = j
    BY <1>1, <1>3 DEF HeldOnce
  <2>2. Len(held') <= MaxHeld
    BY <1>1, <1>3, CacheAssumption DEF HeldOnce
  <2> QED
    BY <1>1, <1>2, <2>1, <2>2 DEF HeldOnce
<1>5. Coherent(queue', disk', held')
  <2>1. \A i \in 1 .. Len(held') : \E j \in 1 .. Len(queue') : queue'[j].block_id = held'[i]
    <3> TAKE i \in 1 .. Len(held')
    <3>1. i \in 1 .. Len(held) /\ held'[i] = held[i]
      BY <1>3
    <3> QED
      BY <1>1, <1>2, <3>1, Zenon DEF Coherent
  <2> QED
    BY <1>1, <1>2, <2>1 DEF Coherent
<1>6. View' = View /\ Clean'
  BY <1>1, <1>2, ViewSeen, ViewSeenNext DEF Clean
<1> QED
  BY <1>1, <1>2, <1>3, <1>4, <1>5, <1>6, InvCoherentNext DEF Store!Leave

(* With nothing left to write back, an operation sees the device.          *)
LEMMA AllWritten ==
  ASSUME CacheIInv, \A i \in 1 .. Len(queue) : queue[i].cache = disk[queue[i].block_id]
  PROVE  View = disk
<1>1. queue \in Seq(Entries) /\ Distinct(queue) /\ disk \in [Blocks -> Contents]
  BY InvCoherent DEF Coherent
<1>2. Seen(queue, disk) = disk
  BY <1>1, SeenIs
<1> QED
  BY <1>2, ViewSeen

(* The steps that change nothing but op: an operation begins, or goes over *)
(* to its pass over the cache, or returns.                                 *)
LEMMA TurnStep ==
  ASSUME CacheIInv, disk' = disk, queue' = queue, held' = held, op' \in Ops,
         op' \in {"none", "sync"} => held = << >>,
         op' \in {"none", "read", "probe"} =>
           \A i \in 1 .. Len(queue) : queue[i].cache = disk[queue[i].block_id]
  PROVE  CacheIInv' /\ View' = View
<1>1. Coherent(queue, disk, held) /\ held \in Seq(Blocks) /\ HeldOnce
  BY InvCoherent
<1>2. HeldOnce' /\ Clean' /\ Coherent(queue', disk', held')
  BY <1>1 DEF HeldOnce, Clean
<1>3. View' = View
  BY ViewSeen, ViewSeenNext
<1> QED
  BY <1>1, <1>2, <1>3, InvCoherentNext

LEMMA BeginStep ==
  ASSUME CacheIInv, NEW kind \in {"read", "probe", "update"}, Begin(kind)
  PROVE  CacheIInv' /\ Store!Begin
<1>1. /\ op = "none" /\ op' = kind /\ disk' = disk /\ queue' = queue /\ held' = held
      /\ Clean
  BY DEF Begin, CacheIInv
<1>2. CacheIInv' /\ View' = View
  BY <1>1, TurnStep DEF Ops, Clean
<1> QED
  BY <1>1, <1>2 DEF Store!Begin

LEMMA ReturnReadStep == CacheIInv /\ ReturnRead => CacheIInv' /\ Store!Return
<1> SUFFICES ASSUME CacheIInv, ReturnRead PROVE CacheIInv' /\ Store!Return
  OBVIOUS
<1>1. /\ op \in {"read", "probe"} /\ op' = "none" /\ held = << >>
      /\ disk' = disk /\ queue' = queue /\ held' = held
      /\ \A i \in 1 .. Len(queue) : queue[i].cache = disk[queue[i].block_id]
  BY DEF ReturnRead, CacheIInv, Clean
<1>2. CacheIInv' /\ View' = View
  BY <1>1, TurnStep DEF Ops
<1>3. View = disk
  BY <1>1, AllWritten
<1> QED
  BY <1>1, <1>2, <1>3 DEF Store!Return

LEMMA StartSyncStep == CacheIInv /\ StartSync => CacheIInv' /\ UNCHANGED Store!storeVars
<1> SUFFICES ASSUME CacheIInv, StartSync PROVE CacheIInv' /\ UNCHANGED Store!storeVars
  OBVIOUS
<1>1. /\ op = "update" /\ op' = "sync" /\ held = << >>
      /\ disk' = disk /\ queue' = queue /\ held' = held
  BY DEF StartSync
<1>2. CacheIInv' /\ View' = View
  BY <1>1, TurnStep DEF Ops
<1> QED
  BY <1>1, <1>2 DEF Store!storeVars

LEMMA ReturnUpdateStep == CacheIInv /\ ReturnUpdate => CacheIInv' /\ Store!Return
<1> SUFFICES ASSUME CacheIInv, ReturnUpdate PROVE CacheIInv' /\ Store!Return
  OBVIOUS
<1>1. /\ op = "sync" /\ op' = "none" /\ held = << >>
      /\ disk' = disk /\ queue' = queue /\ held' = held
  BY DEF ReturnUpdate, CacheIInv, HeldOnce
<1>2. \A i \in 1 .. Len(queue) : queue[i].cache = disk[queue[i].block_id]
  <2>1. DOMAIN queue = 1 .. Len(queue) /\ Coherent(queue, disk, held)
    BY InvCoherent DEF Coherent
  <2> QED
    BY <2>1 DEF ReturnUpdate, Modified, Coherent
<1>3. CacheIInv' /\ View' = View
  BY <1>1, <1>2, TurnStep DEF Ops
<1>4. View = disk
  BY <1>2, AllWritten
<1> QED
  BY <1>1, <1>3, <1>4 DEF Store!Return

LEMMA PowerLossStep == CacheIInv /\ PowerLoss => CacheIInv' /\ Store!PowerLoss
<1> SUFFICES ASSUME CacheIInv, PowerLoss PROVE CacheIInv' /\ Store!PowerLoss
  OBVIOUS
<1>1. queue' = << >> /\ held' = << >> /\ op' = "none" /\ disk' = disk /\ disk \in [Blocks -> Contents]
  BY DEF PowerLoss, CacheIInv, CacheTypes
<1>2. Len(queue') = 0 /\ Len(held') = 0 /\ queue' \in Seq(Entries) /\ held' \in Seq(Blocks)
  BY <1>1
<1>3. Coherent(queue', disk', held') /\ HeldOnce' /\ Clean'
  BY <1>1, <1>2, CacheAssumption DEF Coherent, Distinct, HeldOnce, Clean
<1>4. CacheIInv'
  BY <1>1, <1>2, <1>3, InvCoherentNext DEF Ops
<1>5. Seen(queue', disk') = disk'
  <2>1. \A i \in 1 .. Len(queue') : disk'[queue'[i].block_id] = queue'[i].cache
    BY <1>2
  <2>2. Distinct(queue') /\ disk' \in [Blocks -> Contents]
    BY <1>1, <1>3 DEF Coherent
  <2> HIDE DEF Seen
  <2> QED
    BY <1>2, <2>1, <2>2, SeenIs, Zenon
<1> QED
  BY <1>1, <1>4, <1>5, ViewSeenNext DEF Store!PowerLoss

LEMMA SyncStep == CacheIInv /\ SyncNext => CacheIInv' /\ \E b \in Blocks : Store!WriteBack(b)
<1> SUFFICES ASSUME CacheIInv, SyncNext PROVE CacheIInv' /\ \E b \in Blocks : Store!WriteBack(b)
  OBVIOUS
<1> DEFINE k == CHOOSE i \in Modified : \A j \in Modified : i <= j
           w == queue[k]
           e == [w EXCEPT !.modified = FALSE]
<1>1. /\ Coherent(queue, disk, held) /\ DOMAIN queue = 1 .. Len(queue) /\ Len(queue) \in Nat
      /\ \A i \in 1 .. Len(queue) : queue[i] \in Entries
  BY InvCoherent DEF Coherent
<1>2. held \in Seq(Blocks) /\ op \in Ops /\ HeldOnce
  BY DEF CacheIInv, CacheTypes
<1>3. k \in Modified
  <2>1. Modified \in SUBSET Nat /\ Modified # {}
    BY <1>1 DEF Modified, SyncNext
  <2>2. \E i \in Modified : \A j \in Modified : i <= j
    BY <2>1, LeastNatural
  <2> QED
    BY <2>2
<1>4. /\ op = "sync" /\ op' = op /\ held' = held
      /\ disk' = sync(w) /\ queue' = [queue EXCEPT ![k].modified = FALSE]
  BY DEF SyncNext
<1> HIDE DEF k
<1>5. k \in 1 .. Len(queue) /\ w \in Entries /\ w.modified
  BY <1>1, <1>3 DEF Modified
<1>6. e \in Entries /\ e.block_id = w.block_id /\ e.cache = w.cache /\ e.modified = FALSE
  BY <1>5, Zenon DEF Entries
<1>7. queue' = [queue EXCEPT ![k] = e]
  BY <1>1, <1>4, <1>5
<1>8. disk' = [disk EXCEPT ![w.block_id] = w.cache] /\ w.block_id \in Blocks /\ w.cache \in Contents
  BY <1>4, <1>5 DEF sync, Entries
<1>9. queue[k] = w
  OBVIOUS
<1> HIDE DEF e, w
<1>10. /\ disk' \in [Blocks -> Contents] /\ disk'[w.block_id] = w.cache
       /\ \A x \in Blocks : x # w.block_id => disk'[x] = disk[x]
  <2>1. disk \in [Blocks -> Contents]
    BY <1>1 DEF Coherent
  <2> QED
    BY <1>8, <2>1
<1>11. /\ queue' \in Seq(Entries) /\ Len(queue') = Len(queue) /\ queue'[k] = e
       /\ \A i \in 1 .. Len(queue) : i # k => queue'[i] = queue[i]
       /\ \A i \in 1 .. Len(queue) : queue'[i].block_id = queue[i].block_id
                                     /\ queue'[i].cache = queue[i].cache
  <2>1. queue' \in Seq(Entries) /\ Len(queue') = Len(queue)
    BY <1>1, <1>5, <1>6, <1>7 DEF Coherent
  <2>2. queue'[k] = e /\ \A i \in 1 .. Len(queue) : i # k => queue'[i] = queue[i]
    BY <1>1, <1>5, <1>7
  <2> QED
    BY <1>6, <1>9, <2>1, <2>2
<1>12. \A i \in 1 .. Len(queue) : i # k => queue[i].block_id # w.block_id /\ queue[i].block_id \in Blocks
  BY <1>1, <1>5, <1>9 DEF Coherent, Distinct, Entries
<1>13. Coherent(queue', disk', held')
  <2>1. Distinct(queue')
    BY <1>1, <1>11 DEF Coherent, Distinct
  <2>2. \A i \in 1 .. Len(held') : \E j \in 1 .. Len(queue') : queue'[j].block_id = held'[i]
    BY <1>1, <1>4, <1>11 DEF Coherent
  <2>3. ASSUME NEW i \in 1 .. Len(queue'), ~queue'[i].modified
        PROVE  queue'[i].cache = disk'[queue'[i].block_id]
    <3>1. CASE i = k
      BY <1>6, <1>10, <1>11, <3>1
    <3>2. CASE i # k
      BY <1>1, <1>10, <1>11, <1>12, <2>3, <3>2 DEF Coherent
    <3> QED
      BY <3>1, <3>2
  <2> QED
    BY <1>1, <1>10, <1>11, <2>1, <2>2, <2>3 DEF Coherent
<1>14. CacheIInv'
  <2>1. HeldOnce' /\ Clean'
    BY <1>2, <1>4 DEF HeldOnce, Clean
  <2> QED
    BY <1>2, <1>4, <1>13, <2>1, InvCoherentNext
<1>15. /\ View \in [Blocks -> Contents]
       /\ \A i \in 1 .. Len(queue) : View[queue[i].block_id] = queue[i].cache
       /\ \A x \in Blocks : (\A i \in 1 .. Len(queue) : queue[i].block_id # x) => View[x] = disk[x]
  BY <1>1, ViewSeen, SeenPoints DEF Coherent
<1>16. View' = View
  <2>1. \A i \in 1 .. Len(queue') : View[queue'[i].block_id] = queue'[i].cache
    BY <1>11, <1>15
  <2>2. ASSUME NEW x \in Blocks, \A i \in 1 .. Len(queue') : queue'[i].block_id # x
        PROVE  View[x] = disk'[x]
    <3>1. x # w.block_id /\ \A i \in 1 .. Len(queue) : queue[i].block_id # x
      BY <1>5, <1>9, <1>11, <2>2
    <3> QED
      BY <1>10, <1>15, <3>1
  <2>3. Seen(queue', disk') = View
    BY <1>13, <1>15, <2>1, <2>2, SeenIs DEF Coherent
  <2> QED
    BY <2>3, ViewSeenNext
<1>17. Store!WriteBack(w.block_id)
  <2>1. View[w.block_id] = w.cache
    BY <1>5, <1>9, <1>15
  <2> QED
    BY <1>4, <1>8, <1>16, <2>1 DEF Store!WriteBack
<1> QED
  BY <1>8, <1>14, <1>17

LEMMA NextCache ==
  CacheIInv /\ [Next]_vars => CacheIInv' /\ [Store!Next]_(Store!storeVars)
<1> SUFFICES ASSUME CacheIInv, [Next]_vars
             PROVE  CacheIInv' /\ (Store!Next \/ UNCHANGED Store!storeVars)
  OBVIOUS
<1>1. ASSUME NEW kind \in {"read", "probe", "update"}, Begin(kind)
      PROVE  CacheIInv' /\ Store!Next
  BY <1>1, BeginStep DEF Store!Next
<1>2. ASSUME NEW b \in Blocks, get_block_cache(b) PROVE CacheIInv' /\ Store!Next
  BY <1>2, GetStep DEF Store!Next
<1>3. ASSUME NEW c \in Contents, modify(c) PROVE CacheIInv' /\ Store!Next
  BY <1>3, ModifyStep DEF Store!Next
<1>4. CASE Release
  BY <1>4, ReleaseStep DEF Store!Next
<1>5. CASE ReturnRead
  BY <1>5, ReturnReadStep DEF Store!Next
<1>6. CASE StartSync
  BY <1>6, StartSyncStep
<1>7. CASE SyncNext
  BY <1>7, SyncStep DEF Store!Next
<1>8. CASE ReturnUpdate
  BY <1>8, ReturnUpdateStep DEF Store!Next
<1>9. CASE PowerLoss
  BY <1>9, PowerLossStep DEF Store!Next
<1>10. CASE UNCHANGED vars
  <2>1. disk' = disk /\ queue' = queue /\ held' = held /\ op' = op
    BY <1>10 DEF vars
  <2>2. CacheIInv' /\ View' = View
    BY <2>1, TurnStep DEF CacheIInv, CacheTypes, HeldOnce, Clean
  <2> QED
    BY <2>1, <2>2 DEF Store!storeVars
<1> QED
  BY <1>1, <1>2, <1>3, <1>4, <1>5, <1>6, <1>7, <1>8, <1>9, <1>10 DEF Next

-----------------------------------------------------------------------------
(***************************************************************************)
(* At every step of every operation, the cache has one copy of a block at  *)
(* most, none of the blocks in use is evicted, and a copy that is not      *)
(* marked modified is what the device holds.                               *)
(***************************************************************************)
THEOREM CacheSafe == Spec => []CacheInv
<1>1. CacheIInv => CacheInv
  BY DEF CacheIInv
<1> QED
  BY <1>1, InitCache, NextCache, PTL DEF Spec

(***************************************************************************)
(* get_cache never panics with "Run out of BlockCache!", however large the *)
(* device, as long as an operation nests no deeper than the cache is long. *)
(***************************************************************************)
THEOREM NoPanic == Spec => []NeverRunsOut
  BY InitCache, NextCache, NotOut, PTL DEF Spec

(***************************************************************************)
(* The cache implements the plain store: nothing an operation reads, and   *)
(* nothing a loss of power leaves, depends on what get_cache evicts.       *)
(***************************************************************************)
THEOREM CacheImplementsStore == Spec => ImplementsStore
<1>1. Init => Store!Init
  <2> SUFFICES ASSUME Init PROVE Store!Init
    OBVIOUS
  <2>1. disk \in [Blocks -> Contents] /\ held = << >> /\ op = "none" /\ Len(queue) = 0
    BY DEF Init
  <2>2. View = disk
    BY <2>1, InitCache, AllWritten
  <2> QED
    BY <2>1, <2>2 DEF Store!Init
<1> QED
  BY <1>1, InitCache, NextCache, PTL DEF Spec, ImplementsStore, Store!Spec

=============================================================================
