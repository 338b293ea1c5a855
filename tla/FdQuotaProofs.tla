--------------------------- MODULE FdQuotaProofs ---------------------------
(***************************************************************************)
(* Proofs about descriptor tables and quotas, for every limit and every    *)
(* number of processes.                                                    *)
(***************************************************************************)
EXTENDS FdQuota, DataFacts, FiniteSetTheorems, TLAPS

(***************************************************************************)
(* alloc_fd finds a free descriptor, and never one above the number of     *)
(* open descriptors.                                                       *)
(***************************************************************************)
LEMMA AllocFree ==
  ASSUME NEW t, Table(t)
  PROVE  /\ alloc_fd(t) \in 0 .. Cardinality(DOMAIN t)
         /\ alloc_fd(t) \in Nat
         /\ alloc_fd(t) \notin DOMAIN t
<1> DEFINE D == DOMAIN t
           n == Cardinality(D)
           free == (0 .. n) \ D
<1>1. IsFiniteSet(D) /\ n \in Nat
  BY FS_CardinalityType DEF Table
<1>2. free # {}
  <2>1. SUFFICES ASSUME 0 .. n \subseteq D PROVE FALSE
    OBVIOUS
  <2>2. Cardinality(0 .. n) = n + 1
    BY <1>1, FS_Interval
  <2>3. Cardinality(0 .. n) <= n
    BY <1>1, <2>1, FS_Subset
  <2> QED BY <1>1, <2>2, <2>3
<1>3. free \in SUBSET Nat
  BY <1>1
<1>4. PICK x \in free : \A y \in free : x <= y
  BY <1>2, <1>3, LeastNatural
<1>5. x \in 0 .. n /\ x \notin D /\ 0 .. x - 1 \subseteq D
  BY <1>1, <1>4
<1> QED BY <1>1, <1>5 DEF alloc_fd

-----------------------------------------------------------------------------
(* What adding a descriptor at a free number does to a table.              *)
LEMMA InstallFacts ==
  ASSUME NEW t, Table(t), NEW fd \in Nat, fd \notin DOMAIN t, NEW file \in Files
  PROVE  LET u == Install(t, fd, file)
         IN  /\ Table(u)
             /\ DOMAIN u = DOMAIN t \cup {fd}
             /\ Cardinality(DOMAIN u) = Cardinality(DOMAIN t) + 1
             /\ PipeFds(u) = IF file = "pipe" THEN PipeFds(t) \cup {fd} ELSE PipeFds(t)
             /\ Cardinality(PipeFds(u)) =
                  Cardinality(PipeFds(t)) + (IF file = "pipe" THEN 1 ELSE 0)
<1> DEFINE u == Install(t, fd, file)
<1>1. DOMAIN u = DOMAIN t \cup {fd} /\ u[fd] = file /\ \A i \in DOMAIN t : u[i] = t[i]
  BY DEF Install
<1>2. IsFiniteSet(DOMAIN u) /\ Cardinality(DOMAIN u) = Cardinality(DOMAIN t) + 1
  BY <1>1, FS_AddElement DEF Table
<1>3. u \in [DOMAIN u -> Files]
  BY <1>1 DEF Install, Table
<1>4. Table(u)
  BY <1>1, <1>2, <1>3 DEF Table
<1>5. PipeFds(u) = IF file = "pipe" THEN PipeFds(t) \cup {fd} ELSE PipeFds(t)
  BY <1>1 DEF PipeFds
<1>6. IsFiniteSet(PipeFds(t)) /\ fd \notin PipeFds(t) /\ Cardinality(PipeFds(t)) \in Nat
  BY FS_Subset, FS_CardinalityType DEF Table, PipeFds
<1>7. Cardinality(PipeFds(t) \cup {fd}) = Cardinality(PipeFds(t)) + 1
  BY <1>6, FS_AddElement
<1> QED BY <1>1, <1>2, <1>4, <1>5, <1>6, <1>7

(* What closing a descriptor does to a table.                              *)
LEMMA TakeFacts ==
  ASSUME NEW t, Table(t), NEW fd \in DOMAIN t
  PROVE  LET u == Take(t, fd)
         IN  /\ Table(u)
             /\ DOMAIN u = DOMAIN t \ {fd}
             /\ Cardinality(DOMAIN u) = Cardinality(DOMAIN t) - 1
             /\ Cardinality(DOMAIN t) \in Nat \ {0}
             /\ PipeFds(u) = PipeFds(t) \ {fd}
             /\ Cardinality(PipeFds(u)) =
                  Cardinality(PipeFds(t)) - (IF fd \in PipeFds(t) THEN 1 ELSE 0)
             /\ Cardinality(PipeFds(u)) \in Nat /\ Cardinality(PipeFds(t)) \in Nat
<1> DEFINE u == Take(t, fd)
<1>1. DOMAIN u = DOMAIN t \ {fd} /\ \A i \in DOMAIN u : u[i] = t[i]
  BY DEF Take
<1>2. /\ IsFiniteSet(DOMAIN u) /\ Cardinality(DOMAIN u) = Cardinality(DOMAIN t) - 1
      /\ Cardinality(DOMAIN t) \in Nat
  BY <1>1, FS_RemoveElement, FS_CardinalityType DEF Table
<1>3. Cardinality(DOMAIN t) # 0
  BY FS_EmptySet DEF Table
<1>4. u \in [DOMAIN u -> Files]
  BY <1>1 DEF Take, Table
<1>5. Table(u)
  BY <1>1, <1>2, <1>4 DEF Table
<1>6. PipeFds(u) = PipeFds(t) \ {fd}
  BY <1>1 DEF PipeFds
<1>7. IsFiniteSet(PipeFds(t)) /\ IsFiniteSet(PipeFds(u))
  BY <1>2, FS_Subset DEF Table, PipeFds
<1>8. /\ Cardinality(PipeFds(t) \ {fd}) =
           IF fd \in PipeFds(t) THEN Cardinality(PipeFds(t)) - 1 ELSE Cardinality(PipeFds(t))
      /\ Cardinality(PipeFds(u)) \in Nat /\ Cardinality(PipeFds(t)) \in Nat
  BY <1>7, FS_RemoveElement, FS_CardinalityType
<1> QED BY <1>1, <1>2, <1>3, <1>5, <1>6, <1>8

-----------------------------------------------------------------------------
(* A table and a quota that agree and respect the limits: what every       *)
(* system call has to preserve for its caller.                             *)
Good(t, q) == Table(t) /\ q \in QuotaState /\ Exact(t, q) /\ Limited(t)

(* A granted plain descriptor.                                             *)
LEMMA FileGood ==
  ASSUME NEW t, NEW q, Good(t, q), reserve_files(q, 1).ok
  PROVE  Good(Install(t, alloc_fd(t), "file"), reserve_files(q, 1).quota)
<1> DEFINE fd == alloc_fd(t)
           u == Install(t, fd, "file")
           r == reserve_files(q, 1).quota
<1>0. Table(t) /\ q \in QuotaState /\ Exact(t, q) /\ Limited(t)
  BY DEF Good
<1>1. fd \in 0 .. Cardinality(DOMAIN t) /\ fd \in Nat /\ fd \notin DOMAIN t
  BY <1>0, AllocFree
<1>2. /\ q.open_files + 1 <= MAX_OPEN_FILES
      /\ r = [q EXCEPT !.open_files = @ + 1]
  <2>1. ~(q.open_files + 1 > MAX_OPEN_FILES)
    BY DEF reserve_files, Refused, Granted
  <2>2. r = [q EXCEPT !.open_files = @ + 1]
    BY <2>1 DEF reserve_files, Granted
  <2> QED BY <1>0, <2>1, <2>2, QuotaAssumption DEF QuotaState
<1>3. /\ r \in QuotaState /\ r.open_files = q.open_files + 1
      /\ r.open_pipes = q.open_pipes /\ r.pipe_fd_mask = q.pipe_fd_mask
  BY <1>0, <1>2 DEF QuotaState
<1> HIDE DEF fd, u, r
<1>4. /\ Table(u) /\ DOMAIN u = DOMAIN t \cup {fd}
      /\ Cardinality(DOMAIN u) = Cardinality(DOMAIN t) + 1
      /\ PipeFds(u) = PipeFds(t)
      /\ Cardinality(PipeFds(u)) = Cardinality(PipeFds(t)) + 0
  BY <1>0, <1>1, InstallFacts, "file" \in Files, "file" # "pipe" DEF Files, u
<1>5. Exact(u, r)
  BY <1>0, <1>3, <1>4 DEF Exact
<1>6. Limited(u)
  BY <1>0, <1>1, <1>2, <1>4, QuotaAssumption DEF Limited, Exact, QuotaState
<1> QED BY <1>3, <1>4, <1>5, <1>6 DEF Good, u, r, fd

(* A granted pipe endpoint that is registered in the mask.                 *)
LEMMA EndpointGood ==
  ASSUME NEW t, NEW q, Good(t, q), reserve_pipe_fds(q, 1).ok
  PROVE  Good(Install(t, alloc_fd(t), "pipe"),
              register_pipe_fd(reserve_pipe_fds(q, 1).quota, alloc_fd(t)))
<1> DEFINE fd == alloc_fd(t)
           u == Install(t, fd, "pipe")
           g == reserve_pipe_fds(q, 1).quota
           r == register_pipe_fd(g, fd)
<1>0. Table(t) /\ q \in QuotaState /\ Exact(t, q) /\ Limited(t)
  BY DEF Good
<1>1. fd \in 0 .. Cardinality(DOMAIN t) /\ fd \in Nat /\ fd \notin DOMAIN t
  BY <1>0, AllocFree
<1>2. /\ q.open_files + 1 <= MAX_OPEN_FILES
      /\ q.open_pipes + 1 <= MAX_OPEN_PIPE_FDS
      /\ g = Charge(q, q.open_files + 1, q.open_pipes + 1)
  <2>1. /\ ~(q.open_files + 1 > MAX_OPEN_FILES)
        /\ ~(q.open_pipes + 1 > MAX_OPEN_PIPE_FDS)
    BY DEF reserve_pipe_fds, Refused, Granted
  <2>2. g = Charge(q, q.open_files + 1, q.open_pipes + 1)
    BY <2>1 DEF reserve_pipe_fds, Granted
  <2> QED BY <1>0, <2>1, <2>2, QuotaAssumption DEF QuotaState
<1>3. fd < MAX_OPEN_FILES /\ fd < U64_BITS
  BY <1>0, <1>1, <1>2, QuotaAssumption DEF Exact, QuotaState
<1>4. /\ r \in QuotaState /\ r.open_files = q.open_files + 1
      /\ r.open_pipes = q.open_pipes + 1 /\ r.pipe_fd_mask = q.pipe_fd_mask \cup {fd}
  <2> HIDE DEF g
  <2>1. g \in QuotaState /\ g.open_files = q.open_files + 1
        /\ g.open_pipes = q.open_pipes + 1 /\ g.pipe_fd_mask = q.pipe_fd_mask
    BY <1>0, <1>2 DEF QuotaState, Charge
  <2>2. r = [g EXCEPT !.pipe_fd_mask = @ \cup {fd}]
    BY <1>3 DEF register_pipe_fd
  <2>3. g.pipe_fd_mask \cup {fd} \subseteq 0 .. U64_BITS - 1
    BY <1>1, <1>3, <2>1, QuotaAssumption DEF QuotaState
  <2> HIDE DEF r, fd
  <2> QED BY <2>1, <2>2, <2>3 DEF QuotaState
<1> HIDE DEF fd, u, r, g
<1>5. /\ Table(u) /\ DOMAIN u = DOMAIN t \cup {fd}
      /\ Cardinality(DOMAIN u) = Cardinality(DOMAIN t) + 1
      /\ PipeFds(u) = PipeFds(t) \cup {fd}
      /\ Cardinality(PipeFds(u)) = Cardinality(PipeFds(t)) + 1
  BY <1>0, <1>1, InstallFacts, "pipe" \in Files DEF Files, u
<1>6. Exact(u, r)
  BY <1>0, <1>4, <1>5 DEF Exact
<1>7. Limited(u)
  BY <1>0, <1>1, <1>2, <1>3, <1>5, QuotaAssumption DEF Limited, Exact, QuotaState
<1> QED BY <1>4, <1>5, <1>6, <1>7 DEF Good, u, r, g, fd

(* A closed descriptor.                                                    *)
LEMMA CloseGood ==
  ASSUME NEW t, NEW q, Good(t, q), NEW fd \in DOMAIN t
  PROVE  Good(Take(t, fd), release_fd(q, fd))
<1> DEFINE u == Take(t, fd)
           r == release_fd(q, fd)
<1>0. Table(t) /\ q \in QuotaState /\ Exact(t, q) /\ Limited(t)
  BY DEF Good
<1>1. /\ Table(u) /\ DOMAIN u = DOMAIN t \ {fd}
      /\ Cardinality(DOMAIN u) = Cardinality(DOMAIN t) - 1
      /\ Cardinality(DOMAIN t) \in Nat \ {0}
      /\ PipeFds(u) = PipeFds(t) \ {fd}
      /\ Cardinality(PipeFds(u)) = Cardinality(PipeFds(t)) - (IF fd \in PipeFds(t) THEN 1 ELSE 0)
      /\ Cardinality(PipeFds(u)) \in Nat /\ Cardinality(PipeFds(t)) \in Nat
  BY <1>0, TakeFacts
<1>2. fd < U64_BITS /\ (is_pipe_fd(q, fd) <=> fd \in PipeFds(t))
  BY <1>0, QuotaAssumption DEF is_pipe_fd, Exact, Limited
<1>3. /\ r.open_files = Cardinality(DOMAIN u)
      /\ r.open_pipes = Cardinality(PipeFds(u))
      /\ r.pipe_fd_mask = PipeFds(u)
  BY <1>0, <1>1, <1>2 DEF release_fd, saturating_sub, Exact
<1>4. r \in QuotaState
  <2>1. r = [open_files |-> Cardinality(DOMAIN u), open_pipes |-> Cardinality(PipeFds(u)),
             pipe_fd_mask |-> PipeFds(u)]
    BY <1>3 DEF release_fd
  <2>2. PipeFds(u) \subseteq 0 .. U64_BITS - 1
    BY <1>0, <1>1 DEF Exact, QuotaState
  <2> HIDE DEF r, u
  <2> QED BY <1>1, <2>1, <2>2 DEF QuotaState
<1> HIDE DEF r, u
<1>5. Limited(u)
  BY <1>0, <1>1, QuotaAssumption DEF Limited
<1> QED BY <1>1, <1>3, <1>4, <1>5 DEF Good, Exact, u, r

(* A granted pair of endpoints is two endpoints granted one by one.        *)
LEMMA PairGood ==
  ASSUME NEW t, NEW q, Good(t, q), reserve_pipe_fds(q, 2).ok
  PROVE  LET made == WithPipe(t)
         IN  Good(made.table,
                  register_pipe_fd(register_pipe_fd(reserve_pipe_fds(q, 2).quota,
                                                    made.read_fd), made.write_fd))
<1> DEFINE a == alloc_fd(t)
           half == Install(t, a, "pipe")
           b == alloc_fd(half)
           q1 == register_pipe_fd(reserve_pipe_fds(q, 1).quota, a)
           q2 == register_pipe_fd(reserve_pipe_fds(q1, 1).quota, b)
<1>0. q \in QuotaState /\ MAX_OPEN_FILES \in Nat /\ MAX_OPEN_PIPE_FDS \in Nat
  BY QuotaAssumption DEF Good
<1>1. /\ q.open_files + 2 <= MAX_OPEN_FILES
      /\ q.open_pipes + 2 <= MAX_OPEN_PIPE_FDS
      /\ reserve_pipe_fds(q, 2).quota = Charge(q, q.open_files + 2, q.open_pipes + 2)
  <2>1. /\ ~(q.open_files + 2 > MAX_OPEN_FILES)
        /\ ~(q.open_pipes + 2 > MAX_OPEN_PIPE_FDS)
    BY DEF reserve_pipe_fds, Refused, Granted
  <2>2. reserve_pipe_fds(q, 2).quota = Charge(q, q.open_files + 2, q.open_pipes + 2)
    BY <2>1 DEF reserve_pipe_fds, Granted
  <2> QED BY <1>0, <2>1, <2>2 DEF QuotaState
<1>2. /\ reserve_pipe_fds(q, 1).ok
      /\ reserve_pipe_fds(q, 1).quota = Charge(q, q.open_files + 1, q.open_pipes + 1)
  <2>1. /\ ~(q.open_files + 1 > MAX_OPEN_FILES)
        /\ ~(q.open_pipes + 1 > MAX_OPEN_PIPE_FDS)
    BY <1>0, <1>1 DEF QuotaState
  <2> QED BY <2>1 DEF reserve_pipe_fds, Granted
<1>3. Good(half, q1)
  BY <1>2, EndpointGood
<1>4. /\ q1 \in QuotaState /\ q1.open_files = q.open_files + 1
      /\ q1.open_pipes = q.open_pipes + 1
      /\ q1.pipe_fd_mask = IF a < U64_BITS THEN q.pipe_fd_mask \cup {a} ELSE q.pipe_fd_mask
  <2>1. q1 \in QuotaState
    BY <1>3 DEF Good
  <2> HIDE DEF a
  <2>2. q1 = [open_files |-> q.open_files + 1, open_pipes |-> q.open_pipes + 1,
              pipe_fd_mask |-> IF a < U64_BITS THEN q.pipe_fd_mask \cup {a}
                                               ELSE q.pipe_fd_mask]
    BY <1>2 DEF register_pipe_fd, Charge
  <2> HIDE DEF q1
  <2> QED BY <2>1, <2>2
<1> HIDE DEF q1
<1>5. /\ reserve_pipe_fds(q1, 1).ok
      /\ reserve_pipe_fds(q1, 1).quota = Charge(q1, q1.open_files + 1, q1.open_pipes + 1)
  <2>1. /\ ~(q1.open_files + 1 > MAX_OPEN_FILES)
        /\ ~(q1.open_pipes + 1 > MAX_OPEN_PIPE_FDS)
    BY <1>0, <1>1, <1>4 DEF QuotaState
  <2> QED BY <2>1 DEF reserve_pipe_fds, Granted
<1>6. Good(Install(half, b, "pipe"), q2)
  BY <1>3, <1>5, EndpointGood
<1>7. q2 = register_pipe_fd(register_pipe_fd(reserve_pipe_fds(q, 2).quota, a), b)
  <2> DEFINE q0 == register_pipe_fd(Charge(q, q.open_files + 2, q.open_pipes + 2), a)
  <2>1. q0 = Charge(q1, q1.open_files + 1, q1.open_pipes + 1)
    <3> HIDE DEF a
    <3>1. q0 = [open_files |-> q.open_files + 2, open_pipes |-> q.open_pipes + 2,
                pipe_fd_mask |-> IF a < U64_BITS THEN q.pipe_fd_mask \cup {a}
                                                 ELSE q.pipe_fd_mask]
      BY DEF register_pipe_fd, Charge
    <3>2. q.open_files + 2 = q1.open_files + 1 /\ q.open_pipes + 2 = q1.open_pipes + 1
      BY <1>0, <1>4 DEF QuotaState
    <3> HIDE DEF q0
    <3> QED BY <1>4, <3>1, <3>2 DEF Charge
  <2> HIDE DEF q0
  <2>2. q2 = register_pipe_fd(q0, b)
    BY <1>5, <2>1
  <2>3. q0 = register_pipe_fd(reserve_pipe_fds(q, 2).quota, a)
    BY <1>1 DEF q0
  <2> QED BY <2>2, <2>3
<1> QED BY <1>6, <1>7 DEF WithPipe

(* A pair of endpoints that is taken back leaves no trace.                 *)
LEMMA UndoneFree ==
  ASSUME NEW t, NEW q, Good(t, q), reserve_pipe_fds(q, 2).ok
  PROVE  LET made == WithPipe(t)
         IN  /\ Take(Take(made.table, made.read_fd), made.write_fd) = t
             /\ release_pipe_fds(reserve_pipe_fds(q, 2).quota, 2) = q
<1> DEFINE a == alloc_fd(t)
           half == Install(t, a, "pipe")
           b == alloc_fd(half)
           both == Install(half, b, "pipe")
<1>0. Table(t) /\ q \in QuotaState
  BY DEF Good
<1>1. a \in Nat /\ a \notin DOMAIN t
  BY <1>0, AllocFree
<1> HIDE DEF a
<1>2. Table(half) /\ DOMAIN half = DOMAIN t \cup {a}
  BY <1>0, <1>1, InstallFacts, "pipe" \in Files DEF Files
<1>3. b \notin DOMAIN half
  BY <1>2, AllocFree
<1> HIDE DEF b
<1>4. Take(Take(both, a), b) = [i \in DOMAIN t |-> t[i]]
  BY <1>1, <1>2, <1>3 DEF Take, Install
<1>5. t = [i \in DOMAIN t |-> t[i]]
  BY <1>0 DEF Table
<1>6. release_pipe_fds(reserve_pipe_fds(q, 2).quota, 2) = q
  <2>1. /\ ~(q.open_files + 2 > MAX_OPEN_FILES)
        /\ ~(q.open_pipes + 2 > MAX_OPEN_PIPE_FDS)
    BY DEF reserve_pipe_fds, Refused, Granted
  <2>2. reserve_pipe_fds(q, 2).quota = Charge(q, q.open_files + 2, q.open_pipes + 2)
    BY <2>1 DEF reserve_pipe_fds, Granted
  <2> QED BY <1>0, <2>2 DEF release_pipe_fds, saturating_sub, QuotaState, Charge
<1> QED BY <1>4, <1>5, <1>6 DEF WithPipe, a, b

-----------------------------------------------------------------------------
(* A live process has a good table and quota.                              *)
LEMMA LiveGood ==
  ASSUME QuotaInv, NEW p \in Procs, status[p] = "live"
  PROVE  Good(fd_table[p], quota[p])
BY DEF QuotaInv, FdTypeOK, QuotaExact, WithinLimits, Good

(* A step that gives one process a table and a quota that are good if the  *)
(* process is live keeps the invariant.                                    *)
LEMMA SetKeeps ==
  ASSUME QuotaInv, NEW p \in Procs, NEW t, NEW q, SetProc(p, t, q),
         Table(t), q \in QuotaState,
         NEW s \in {"free", "live", "zombie"}, status' = [status EXCEPT ![p] = s],
         s = "live" => Good(t, q),
         next_pipe_id' \in 1 .. MaxPipeId,
         disk' \in {"absent", "empty", "data"},
         failed' \in BOOLEAN
  PROVE  QuotaInv'
<1>1. /\ DOMAIN fd_table = Procs /\ quota \in [Procs -> QuotaState]
      /\ status \in [Procs -> {"free", "live", "zombie"}]
      /\ fd_table' = [fd_table EXCEPT ![p] = t]
      /\ quota' = [quota EXCEPT ![p] = q]
  <2>1. fd_table = [o \in Procs |-> fd_table[o]]
    BY DEF QuotaInv, FdTypeOK
  <2>2. DOMAIN fd_table = Procs
    BY <2>1
  <2> QED BY <2>2 DEF QuotaInv, FdTypeOK, SetProc
<1>2. /\ fd_table' = [o \in Procs |-> fd_table'[o]]
      /\ fd_table'[p] = t /\ \A o \in Procs \ {p} : fd_table'[o] = fd_table[o]
  BY <1>1
<1>3. /\ quota' \in [Procs -> QuotaState]
      /\ quota'[p] = q /\ \A o \in Procs \ {p} : quota'[o] = quota[o]
  BY <1>1
<1>4. /\ status' \in [Procs -> {"free", "live", "zombie"}]
      /\ status'[p] = s /\ \A o \in Procs \ {p} : status'[o] = status[o]
  BY <1>1
<1>5. \A o \in Procs : Table(fd_table'[o])
  BY <1>2 DEF QuotaInv, FdTypeOK
<1>6. FdTypeOK'
  BY <1>2, <1>3, <1>4, <1>5 DEF FdTypeOK
<1>7. QuotaExact'
  BY <1>2, <1>3, <1>4 DEF QuotaInv, QuotaExact, Good
<1>8. WithinLimits'
  BY <1>2, <1>4 DEF QuotaInv, WithinLimits, Good
<1> QED BY <1>6, <1>7, <1>8 DEF QuotaInv

(* The same for a system call, which leaves its caller live.               *)
LEMMA CallKeeps ==
  ASSUME QuotaInv, NEW p \in Procs, status[p] = "live", status' = status,
         NEW t, NEW q, SetProc(p, t, q), Good(t, q),
         next_pipe_id' \in 1 .. MaxPipeId,
         disk' \in {"absent", "empty", "data"},
         failed' \in BOOLEAN
  PROVE  QuotaInv'
<1>1. status' = [status EXCEPT ![p] = "live"]
  BY DEF QuotaInv, FdTypeOK
<1>2. Table(t) /\ q \in QuotaState
  BY DEF Good
<1> QED BY <1>1, <1>2, SetKeeps

(* A call that changes no table, no quota and no status.                   *)
LEMMA IdleKeeps ==
  ASSUME QuotaInv, UNCHANGED <<status, fd_table, quota>>,
         next_pipe_id' \in 1 .. MaxPipeId,
         disk' \in {"absent", "empty", "data"},
         failed' \in BOOLEAN
  PROVE  QuotaInv'
BY DEF QuotaInv, FdTypeOK, QuotaExact, WithinLimits

-----------------------------------------------------------------------------
(* The counters that are shared by all processes stay in range.            *)
LEMMA SharedType ==
  ASSUME QuotaInv
  PROVE  /\ next_pipe_id \in 1 .. MaxPipeId
         /\ disk \in {"absent", "empty", "data"}
         /\ next_pipe_id < MaxPipeId => next_pipe_id + 1 \in 1 .. MaxPipeId
BY QuotaAssumption DEF QuotaInv, FdTypeOK

(* A refused reservation leaves the quota as it was.                       *)
LEMMA RefusedFree ==
  ASSUME NEW q
  PROVE  /\ \A n : ~reserve_files(q, n).ok => reserve_files(q, n).quota = q
         /\ \A n : ~reserve_pipe_fds(q, n).ok => reserve_pipe_fds(q, n).quota = q
         /\ \A fd : ~reserve_dup_fd(q, fd).ok => reserve_dup_fd(q, fd).quota = q
BY DEF reserve_files, reserve_pipe_fds, reserve_dup_fd, Refused, Granted

(* sys_open.                                                               *)
LEMMA OpenKeeps ==
  ASSUME QuotaInv, NEW p \in Procs, NEW flags, sys_open(p, flags)
  PROVE  QuotaInv'
<1> DEFINE t == fd_table[p]
           r == reserve_files(quota[p], 1)
<1>1. /\ status[p] = "live" /\ UNCHANGED <<status, next_pipe_id>>
      /\ next_pipe_id' \in 1 .. MaxPipeId
      /\ disk' \in {"absent", "empty", "data"}
      /\ failed' \in BOOLEAN
  <2>1. status[p] = "live" /\ UNCHANGED <<status, next_pipe_id>>
        /\ (UNCHANGED disk \/ disk' = disk \/ disk' = "empty")
        /\ (failed' = TRUE \/ failed' = ~r.ok)
    BY DEF sys_open
  <2> QED BY <2>1, SharedType
<1>2. Good(t, quota[p])
  BY <1>1, LiveGood
<1>3. CASE UNCHANGED <<fd_table, quota>>
  BY <1>1, <1>3, IdleKeeps
<1>4. CASE r.ok /\ SetProc(p, Install(t, alloc_fd(t), "file"), r.quota)
  <2>1. Good(Install(t, alloc_fd(t), "file"), r.quota)
    BY <1>2, <1>4, FileGood
  <2> QED BY <1>1, <1>4, <2>1, CallKeeps
<1>5. CASE ~r.ok /\ SetProc(p, t, r.quota)
  <2>1. Good(t, r.quota)
    BY <1>2, <1>5, RefusedFree
  <2> QED BY <1>1, <1>5, <2>1, CallKeeps
<1> QED BY <1>3, <1>4, <1>5 DEF sys_open

(* sys_close.                                                              *)
LEMMA CloseKeeps ==
  ASSUME QuotaInv, NEW p \in Procs, NEW fd, sys_close(p, fd)
  PROVE  QuotaInv'
<1>1. /\ status[p] = "live" /\ UNCHANGED <<status, next_pipe_id, disk>>
      /\ next_pipe_id' \in 1 .. MaxPipeId
      /\ disk' \in {"absent", "empty", "data"}
      /\ failed' \in BOOLEAN
  BY SharedType DEF sys_close
<1>2. CASE UNCHANGED <<fd_table, quota>>
  BY <1>1, <1>2, IdleKeeps
<1>3. CASE /\ fd \in DOMAIN fd_table[p]
           /\ SetProc(p, Take(fd_table[p], fd), release_fd(quota[p], fd))
  <2>1. Good(Take(fd_table[p], fd), release_fd(quota[p], fd))
    BY <1>1, <1>3, LiveGood, CloseGood
  <2> QED BY <1>1, <1>3, <2>1, CallKeeps
<1> QED BY <1>2, <1>3 DEF sys_close

(* Giving a process the table and the quota it has changes nothing.        *)
LEMMA SetSame ==
  ASSUME QuotaInv, NEW p \in Procs, SetProc(p, fd_table[p], quota[p])
  PROVE  UNCHANGED <<fd_table, quota>>
<1>1. fd_table = [o \in Procs |-> fd_table[o]] /\ quota \in [Procs -> QuotaState]
  BY DEF QuotaInv, FdTypeOK
<1> QED BY <1>1 DEF SetProc

(* sys_pipe: a call that fails leaves table and quota as they were.        *)
LEMMA PipeFailureFree ==
  ASSUME QuotaInv, NEW p \in Procs, NEW copied \in BOOLEAN, sys_pipe(p, copied), failed'
  PROVE  UNCHANGED <<fd_table, quota>>
<1> DEFINE r == reserve_pipe_fds(quota[p], 2)
<1>1. Good(fd_table[p], quota[p])
  BY LiveGood DEF sys_pipe
<1>2. SetProc(p, fd_table[p], quota[p]) => UNCHANGED <<fd_table, quota>>
  BY SetSame
<1>3. CASE PipeRefused(p)
  BY <1>2, <1>3, RefusedFree DEF PipeRefused
<1>4. CASE PipeIdExhausted(p)
  <2>1. r.ok /\ SetProc(p, fd_table[p], release_pipe_fds(r.quota, 2))
    BY <1>4 DEF PipeIdExhausted
  <2>2. release_pipe_fds(r.quota, 2) = quota[p]
    BY <1>1, <2>1, UndoneFree
  <2> QED BY <1>2, <2>1, <2>2
<1>5. CASE PipeMade(p, copied)
  <2>1. r.ok /\ PipeUndone(p)
    BY <1>5 DEF PipeMade
  <2>2. /\ Take(Take(WithPipe(fd_table[p]).table, WithPipe(fd_table[p]).read_fd),
                WithPipe(fd_table[p]).write_fd) = fd_table[p]
        /\ release_pipe_fds(r.quota, 2) = quota[p]
    BY <1>1, <2>1, UndoneFree
  <2> QED BY <1>2, <2>1, <2>2 DEF PipeUndone
<1> QED BY <1>3, <1>4, <1>5 DEF sys_pipe

LEMMA PipeKeeps ==
  ASSUME QuotaInv, NEW p \in Procs, NEW copied \in BOOLEAN, sys_pipe(p, copied)
  PROVE  QuotaInv'
<1>1. /\ status[p] = "live" /\ UNCHANGED <<status, disk>>
      /\ next_pipe_id' \in 1 .. MaxPipeId
      /\ disk' \in {"absent", "empty", "data"}
      /\ failed' \in BOOLEAN
  <2>1. /\ status[p] = "live" /\ UNCHANGED <<status, disk>>
        /\ failed' = TRUE \/ failed' = ~copied
        /\ \/ UNCHANGED next_pipe_id
           \/ next_pipe_id < MaxPipeId /\ next_pipe_id' = next_pipe_id + 1
    BY DEF sys_pipe, PipeRefused, PipeIdExhausted, PipeMade
  <2> QED BY <2>1, SharedType
<1>2. CASE failed'
  BY <1>1, <1>2, PipeFailureFree, IdleKeeps
<1>3. CASE ~failed'
  <2>1. reserve_pipe_fds(quota[p], 2).ok /\ PipeCommitted(p)
    BY <1>3 DEF sys_pipe, PipeRefused, PipeIdExhausted, PipeMade
  <2>2. Good(fd_table[p], quota[p])
    BY <1>1, LiveGood
  <2> DEFINE t == WithPipe(fd_table[p]).table
             q == register_pipe_fd(register_pipe_fd(reserve_pipe_fds(quota[p], 2).quota,
                    WithPipe(fd_table[p]).read_fd), WithPipe(fd_table[p]).write_fd)
  <2>3. Good(t, q)
    BY <2>1, <2>2, PairGood
  <2>4. SetProc(p, t, q)
    BY <2>1 DEF PipeCommitted
  <2> HIDE DEF t, q
  <2> QED BY <1>1, <2>3, <2>4, CallKeeps
<1> QED BY <1>2, <1>3

(* sys_dup.                                                                *)
LEMMA DupKeeps ==
  ASSUME QuotaInv, NEW p \in Procs, NEW fd, sys_dup(p, fd)
  PROVE  QuotaInv'
<1> DEFINE t == fd_table[p]
           q == quota[p]
           r == reserve_dup_fd(q, fd)
<1>1. /\ status[p] = "live" /\ UNCHANGED <<status, next_pipe_id, disk>>
      /\ next_pipe_id' \in 1 .. MaxPipeId
      /\ disk' \in {"absent", "empty", "data"}
      /\ failed' \in BOOLEAN
  <2>1. status[p] = "live" /\ UNCHANGED <<status, next_pipe_id, disk>>
        /\ (failed' = TRUE \/ failed' = ~r.ok)
    BY DEF sys_dup
  <2> QED BY <2>1, SharedType
<1>2. Good(t, q)
  BY <1>1, LiveGood
<1>3. CASE UNCHANGED <<fd_table, quota>>
  BY <1>1, <1>3, IdleKeeps
<1>4. CASE ~r.ok /\ SetProc(p, t, r.quota)
  <2>1. Good(t, r.quota)
    BY <1>2, <1>4, RefusedFree
  <2> QED BY <1>1, <1>4, <2>1, CallKeeps
<1>5. CASE /\ fd \in DOMAIN t /\ r.ok
           /\ SetProc(p, Install(t, alloc_fd(t), t[fd]),
                      IF is_pipe_fd(q, fd) THEN register_pipe_fd(r.quota, alloc_fd(t))
                                           ELSE r.quota)
  <2>1. is_pipe_fd(q, fd) <=> t[fd] = "pipe"
    BY <1>2, <1>5, QuotaAssumption DEF is_pipe_fd, Good, Exact, Limited, PipeFds
  <2>2. t[fd] \in {"file", "pipe"}
    BY <1>2, <1>5 DEF Good, Table, Files
  <2>3. CASE t[fd] = "pipe"
    <3>1. r = reserve_pipe_fds(q, 1)
      BY <2>1, <2>3 DEF reserve_dup_fd
    <3>2. Good(Install(t, alloc_fd(t), "pipe"), register_pipe_fd(r.quota, alloc_fd(t)))
      BY <1>2, <1>5, <3>1, EndpointGood
    <3>3. SetProc(p, Install(t, alloc_fd(t), "pipe"), register_pipe_fd(r.quota, alloc_fd(t)))
      BY <1>5, <2>1, <2>3
    <3> QED BY <1>1, <3>2, <3>3, CallKeeps
  <2>4. CASE t[fd] = "file"
    <3>1. r = reserve_files(q, 1)
      BY <2>1, <2>4 DEF reserve_dup_fd
    <3>2. Good(Install(t, alloc_fd(t), "file"), r.quota)
      BY <1>2, <1>5, <3>1, FileGood
    <3>3. SetProc(p, Install(t, alloc_fd(t), "file"), r.quota)
      BY <1>5, <2>1, <2>4
    <3> QED BY <1>1, <3>2, <3>3, CallKeeps
  <2> QED BY <2>2, <2>3, <2>4
<1> QED BY <1>3, <1>4, <1>5 DEF sys_dup

(* An empty table is a table, and so is the quota of a new process.        *)
LEMMA EmptyTable == Table(NoFds) /\ initial \in QuotaState
<1>1. DOMAIN NoFds = {} /\ NoFds \in [DOMAIN NoFds -> Files]
  BY DEF NoFds, Files
<1> QED BY <1>1, FS_EmptySet DEF Table, initial, QuotaState

(* fork, exit and reap.                                                    *)
LEMMA LifecycleKeeps ==
  ASSUME QuotaInv, NEW p \in Procs, NEW child \in Procs,
         fork(p, child) \/ exit(p) \/ reap(p)
  PROVE  QuotaInv'
<1>1. /\ next_pipe_id' \in 1 .. MaxPipeId
      /\ disk' \in {"absent", "empty", "data"}
      /\ failed' \in BOOLEAN
  BY SharedType DEF fork, exit, reap
<1>2. Table(fd_table[p]) /\ quota[p] \in QuotaState
  BY DEF QuotaInv, FdTypeOK
<1>3. CASE fork(p, child)
  <2>1. Good(fd_table[p], quota[p])
    BY <1>3, LiveGood DEF fork
  <2>2. /\ SetProc(child, fd_table[p], quota[p])
        /\ status' = [status EXCEPT ![child] = "live"]
    BY <1>3 DEF fork
  <2> QED BY <1>1, <1>2, <2>1, <2>2, SetKeeps
<1>4. CASE exit(p)
  <2>1. SetProc(p, NoFds, quota[p]) /\ status' = [status EXCEPT ![p] = "zombie"]
    BY <1>4 DEF exit
  <2> QED BY <1>1, <1>2, <2>1, EmptyTable, SetKeeps
<1>5. CASE reap(p)
  <2>1. SetProc(p, NoFds, initial) /\ status' = [status EXCEPT ![p] = "free"]
    BY <1>5 DEF reap
  <2> QED BY <1>1, <2>1, EmptyTable, SetKeeps
<1> QED BY <1>3, <1>4, <1>5

-----------------------------------------------------------------------------
LEMMA InitQuotaInv == Init => QuotaInv
<1> SUFFICES ASSUME Init PROVE QuotaInv
  OBVIOUS
<1> DEFINE std == [fd \in 0 .. 2 |-> "file"]
<1>0. IsFiniteSet(0 .. 2) /\ Cardinality(0 .. 2) = 3
  <2>1. Cardinality(0 .. 2) = IF 0 > 2 THEN 0 ELSE 2 - 0 + 1
    BY FS_Interval, 0 \in Int, 2 \in Int
  <2>2. IsFiniteSet(0 .. 2)
    BY FS_Interval, 0 \in Int, 2 \in Int
  <2> QED BY <2>1, <2>2
<1>1. /\ DOMAIN std = 0 .. 2 /\ std \in [DOMAIN std -> Files]
      /\ IsFiniteSet(0 .. 2) /\ Cardinality(0 .. 2) = 3
  BY <1>0 DEF Files
<1>2. Table(std)
  BY <1>1 DEF Table
<1>3. PipeFds(std) = {}
  BY DEF PipeFds
<1>4. Good(std, initial)
  BY <1>1, <1>2, <1>3, EmptyTable, FS_EmptySet, QuotaAssumption
     DEF Good, Exact, Limited, initial
<1> HIDE DEF std
<1>5. /\ fd_table = [p \in Procs |-> IF p = Initproc THEN std ELSE NoFds]
      /\ quota = [p \in Procs |-> initial]
      /\ status = [p \in Procs |-> IF p = Initproc THEN "live" ELSE "free"]
  BY DEF Init, std
<1>6. \A p \in Procs : Table(fd_table[p])
  BY <1>2, <1>5, EmptyTable
<1>7. /\ fd_table = [p \in Procs |-> fd_table[p]]
      /\ quota \in [Procs -> QuotaState]
      /\ status \in [Procs -> {"free", "live", "zombie"}]
  BY <1>5, EmptyTable
<1>8. FdTypeOK
  <2>1. /\ next_pipe_id \in 1 .. MaxPipeId
        /\ disk \in {"absent", "empty", "data"}
        /\ failed \in BOOLEAN
    <3>1. next_pipe_id = 1 /\ disk \in {"absent", "data"} /\ failed = FALSE
      BY DEF Init
    <3>2. 1 \in 1 .. MaxPipeId
      BY QuotaAssumption
    <3> QED BY <3>1, <3>2
  <2> QED BY <1>6, <1>7, <2>1 DEF FdTypeOK
<1>9. \A p \in Procs : status[p] = "live" => Good(fd_table[p], quota[p])
  BY <1>4, <1>5
<1> QED BY <1>8, <1>9 DEF QuotaInv, QuotaExact, WithinLimits, Good

LEMMA NextQuotaInv == QuotaInv /\ [Next]_vars => QuotaInv'
<1> SUFFICES ASSUME QuotaInv, [Next]_vars PROVE QuotaInv'
  OBVIOUS
<1>1. CASE UNCHANGED vars
  BY <1>1 DEF vars, QuotaInv, FdTypeOK, QuotaExact, WithinLimits
<1>2. CASE Next
  <2>1. PICK p \in Procs :
          \/ \E flags \in {"invalid", "RDONLY", "TRUNC", "CREATE"} : sys_open(p, flags)
          \/ \E fd \in 0 .. MAX_OPEN_FILES : sys_close(p, fd) \/ sys_dup(p, fd)
          \/ \E copied \in BOOLEAN : sys_pipe(p, copied)
          \/ \E child \in Procs : fork(p, child)
          \/ exit(p)
          \/ reap(p)
    BY <1>2 DEF Next
  <2>2. CASE \E flags \in {"invalid", "RDONLY", "TRUNC", "CREATE"} : sys_open(p, flags)
    BY <2>2, OpenKeeps
  <2>3. CASE \E fd \in 0 .. MAX_OPEN_FILES : sys_close(p, fd) \/ sys_dup(p, fd)
    BY <2>3, CloseKeeps, DupKeeps
  <2>4. CASE \E copied \in BOOLEAN : sys_pipe(p, copied)
    BY <2>4, PipeKeeps
  <2>5. CASE (\E child \in Procs : fork(p, child)) \/ exit(p) \/ reap(p)
    BY <2>5, LifecycleKeeps
  <2> QED BY <2>1, <2>2, <2>3, <2>4, <2>5
<1> QED BY <1>1, <1>2

(***************************************************************************)
(* For every limit and any number of processes, the quota of a live        *)
(* process is exactly what its table holds, and no limit is passed.        *)
(***************************************************************************)
THEOREM QuotaInvariance == Spec => []QuotaInv
BY InitQuotaInv, NextQuotaInv, PTL DEF Spec

(***************************************************************************)
(* A system call that returns an error leaves every descriptor and every   *)
(* quota as it found them, whichever of its steps failed.                  *)
(***************************************************************************)
THEOREM FailuresAreFree == Spec => FailedCallsAreFree
<1>1. QuotaInv /\ [Next]_vars => [failed' => UNCHANGED <<fd_table, quota>>]_vars
  <2> SUFFICES ASSUME QuotaInv, [Next]_vars
               PROVE  [failed' => UNCHANGED <<fd_table, quota>>]_vars
    OBVIOUS
  <2>1. CASE UNCHANGED vars
    BY <2>1
  <2>2. CASE Next /\ failed'
    <3>1. PICK p \in Procs :
            \/ \E flags \in {"invalid", "RDONLY", "TRUNC", "CREATE"} : sys_open(p, flags)
            \/ \E fd \in 0 .. MAX_OPEN_FILES : sys_close(p, fd) \/ sys_dup(p, fd)
            \/ \E copied \in BOOLEAN : sys_pipe(p, copied)
            \/ \E child \in Procs : fork(p, child)
            \/ exit(p)
            \/ reap(p)
      BY <2>2 DEF Next
    <3>2. ASSUME NEW flags, sys_open(p, flags) PROVE UNCHANGED <<fd_table, quota>>
      <4>1. CASE UNCHANGED <<fd_table, quota>>
        BY <4>1
      <4>2. CASE /\ ~reserve_files(quota[p], 1).ok
                 /\ SetProc(p, fd_table[p], reserve_files(quota[p], 1).quota)
        BY <4>2, RefusedFree, SetSame
      <4> QED BY <2>2, <3>2, <4>1, <4>2 DEF sys_open
    <3>3. ASSUME NEW fd, sys_close(p, fd) PROVE UNCHANGED <<fd_table, quota>>
      BY <2>2, <3>3 DEF sys_close
    <3>4. ASSUME NEW fd, sys_dup(p, fd) PROVE UNCHANGED <<fd_table, quota>>
      <4>1. CASE UNCHANGED <<fd_table, quota>>
        BY <4>1
      <4>2. CASE /\ ~reserve_dup_fd(quota[p], fd).ok
                 /\ SetProc(p, fd_table[p], reserve_dup_fd(quota[p], fd).quota)
        BY <4>2, RefusedFree, SetSame
      <4> QED BY <2>2, <3>4, <4>1, <4>2 DEF sys_dup
    <3>5. ASSUME NEW copied \in BOOLEAN, sys_pipe(p, copied)
          PROVE  UNCHANGED <<fd_table, quota>>
      BY <2>2, <3>5, PipeFailureFree
    <3>6. ~(\E child \in Procs : fork(p, child)) /\ ~exit(p) /\ ~reap(p)
      BY <2>2 DEF fork, exit, reap
    <3> QED BY <3>1, <3>2, <3>3, <3>4, <3>5, <3>6
  <2> QED BY <2>1, <2>2
<1> QED BY <1>1, InitQuotaInv, NextQuotaInv, PTL DEF Spec, FailedCallsAreFree
=============================================================================
