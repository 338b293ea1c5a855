------------------------------ MODULE FdQuota ------------------------------
(***************************************************************************)
(* Descriptor tables and per-process quotas (os/src/security/quota.rs,     *)
(* the descriptor calls of os/src/syscall/fs.rs, and what fork and exit of *)
(* os/src/task do to them).                                                *)
(*                                                                         *)
(* A descriptor table is a function from the open descriptors to what they *)
(* refer to: the free slots of the vector, trailing ones included, are the *)
(* numbers outside its domain.  The system calls hold no quota across a    *)
(* point where another process runs, so each is one step.                  *)
(***************************************************************************)
EXTENDS Integers, FiniteSets

CONSTANTS
  Procs,               \* process slots
  Initproc,            \* the first process, which never exits
  MAX_OPEN_FILES,      \* descriptors per process (32)
  MAX_OPEN_PIPE_FDS,   \* pipe endpoints per process (16)
  U64_BITS,            \* width of pipe_fd_mask
  MaxPipeId            \* the last value of NEXT_PIPE_ID

ASSUME QuotaAssumption ==
  /\ Initproc \in Procs
  /\ MAX_OPEN_FILES \in Nat /\ MAX_OPEN_FILES >= 3
  /\ MAX_OPEN_PIPE_FDS \in Nat
  /\ U64_BITS \in Nat /\ MAX_OPEN_FILES <= U64_BITS
  /\ MaxPipeId \in Nat \ {0}

VARIABLES
  status,        \* "free", "live" or "zombie"
  fd_table,      \* per process: open descriptor -> "file" or "pipe"
  quota,         \* per process: QuotaState
  next_pipe_id,
  disk,          \* a file in the root directory: "absent", "empty" or "data"
  failed         \* whether the last system call returned an error

vars == <<status, fd_table, quota, next_pipe_id, disk, failed>>

NoFds == [fd \in {} |-> "file"]

(***************************************************************************)
(* QuotaState: the counters and the set of descriptors in pipe_fd_mask.    *)
(***************************************************************************)
initial == [open_files |-> 3, open_pipes |-> 0, pipe_fd_mask |-> {}]

Init ==
  /\ status = [p \in Procs |-> IF p = Initproc THEN "live" ELSE "free"]
  /\ fd_table = [p \in Procs |-> IF p = Initproc THEN [fd \in 0 .. 2 |-> "file"]
                                                 ELSE NoFds]
  /\ quota = [p \in Procs |-> initial]
  /\ next_pipe_id = 1
  /\ disk \in {"absent", "data"}
  /\ failed = FALSE

-----------------------------------------------------------------------------
(***************************************************************************)
(* The methods of QuotaState.  A reservation gives the new quota and       *)
(* whether it was granted.                                                 *)
(***************************************************************************)
Granted(q) == [ok |-> TRUE, quota |-> q]
Refused(q) == [ok |-> FALSE, quota |-> q]

(* The quota with both counters set and the same mask.                     *)
Charge(q, files, pipes) ==
  [open_files |-> files, open_pipes |-> pipes, pipe_fd_mask |-> q.pipe_fd_mask]

(* Faulty variant: one descriptor too many.                                *)
reserve_files_off_by_one(q, amount) ==
  IF q.open_files + amount > MAX_OPEN_FILES + 1 THEN Refused(q)
  ELSE Granted([q EXCEPT !.open_files = @ + amount])

reserve_files(q, amount) ==
  IF q.open_files + amount > MAX_OPEN_FILES THEN Refused(q)
  ELSE Granted([q EXCEPT !.open_files = @ + amount])

reserve_pipe_fds(q, amount) ==
  IF q.open_files + amount > MAX_OPEN_FILES THEN Refused(q)
  ELSE IF q.open_pipes + amount > MAX_OPEN_PIPE_FDS THEN Refused(q)
  ELSE Granted(Charge(q, q.open_files + amount, q.open_pipes + amount))

saturating_sub(a, b) == IF a >= b THEN a - b ELSE 0

release_pipe_fds(q, amount) ==
  Charge(q, saturating_sub(q.open_files, amount), saturating_sub(q.open_pipes, amount))

register_pipe_fd(q, fd) ==
  [q EXCEPT !.pipe_fd_mask = IF fd < U64_BITS THEN @ \cup {fd} ELSE @]

is_pipe_fd(q, fd) == fd < U64_BITS /\ fd \in q.pipe_fd_mask

reserve_dup_fd(q, source_fd) ==
  IF is_pipe_fd(q, source_fd) THEN reserve_pipe_fds(q, 1) ELSE reserve_files(q, 1)

(* Faulty variant: the mask keeps the descriptor that was closed.          *)
release_fd_keep_mask(q, fd) ==
  [q EXCEPT !.open_files = saturating_sub(@, 1),
            !.open_pipes = IF is_pipe_fd(q, fd) THEN saturating_sub(@, 1) ELSE @]

release_fd(q, fd) ==
  [open_files   |-> saturating_sub(q.open_files, 1),
   open_pipes   |-> IF is_pipe_fd(q, fd) THEN saturating_sub(q.open_pipes, 1)
                                         ELSE q.open_pipes,
   pipe_fd_mask |-> q.pipe_fd_mask \ {fd}]

-----------------------------------------------------------------------------
(***************************************************************************)
(* Descriptor tables.  alloc_fd takes the lowest free number.              *)
(***************************************************************************)
alloc_fd(table) ==
  CHOOSE fd \in 0 .. Cardinality(DOMAIN table) :
    /\ fd \notin DOMAIN table
    /\ 0 .. fd - 1 \subseteq DOMAIN table

Install(table, fd, file) ==
  [i \in DOMAIN table \cup {fd} |-> IF i = fd THEN file ELSE table[i]]

Take(table, fd) == [i \in DOMAIN table \ {fd} |-> table[i]]

SetProc(p, table, q) ==
  /\ fd_table' = [fd_table EXCEPT ![p] = table]
  /\ quota' = [quota EXCEPT ![p] = q]

(***************************************************************************)
(* sys_open.  open_file has created or truncated the file before the quota *)
(* is asked.                                                               *)
(***************************************************************************)
sys_open(p, flags) ==
  LET granted == reserve_files(quota[p], 1)
      found   == flags # "invalid" /\ (disk # "absent" \/ flags = "CREATE")
  IN  /\ status[p] = "live"
      /\ \/ /\ ~found
            /\ failed' = TRUE
            /\ UNCHANGED <<fd_table, quota, disk>>
         \/ /\ found
            /\ disk' = IF flags = "RDONLY" THEN disk ELSE "empty"
            /\ failed' = ~granted.ok
            /\ SetProc(p, IF granted.ok
                          THEN Install(fd_table[p], alloc_fd(fd_table[p]), "file")
                          ELSE fd_table[p],
                       granted.quota)
      /\ UNCHANGED <<status, next_pipe_id>>

sys_close(p, fd) ==
  /\ status[p] = "live"
  /\ \/ /\ fd \notin DOMAIN fd_table[p]
        /\ failed' = TRUE
        /\ UNCHANGED <<fd_table, quota>>
     \/ /\ fd \in DOMAIN fd_table[p]
        /\ failed' = FALSE
        /\ SetProc(p, Take(fd_table[p], fd), release_fd(quota[p], fd))
  /\ UNCHANGED <<status, next_pipe_id, disk>>

(***************************************************************************)
(* sys_pipe: preflight reserves both endpoints; a failing make_pipe or a   *)
(* failing copy of the two numbers to the user gives everything back.      *)
(***************************************************************************)
PipeRefused(p) ==
  /\ ~reserve_pipe_fds(quota[p], 2).ok
  /\ failed' = TRUE
  /\ SetProc(p, fd_table[p], reserve_pipe_fds(quota[p], 2).quota)
  /\ UNCHANGED next_pipe_id

PipeIdExhausted(p) ==
  LET granted == reserve_pipe_fds(quota[p], 2)
  IN  /\ granted.ok
      /\ next_pipe_id = MaxPipeId
      /\ failed' = TRUE
      /\ SetProc(p, fd_table[p], release_pipe_fds(granted.quota, 2))
      /\ UNCHANGED next_pipe_id

(* The table with both endpoints, and their numbers.                       *)
WithPipe(table) ==
  LET read_fd  == alloc_fd(table)
      half     == Install(table, read_fd, "pipe")
      write_fd == alloc_fd(half)
  IN  [read_fd |-> read_fd, write_fd |-> write_fd,
       table   |-> Install(half, write_fd, "pipe")]

PipeCommitted(p) ==
  LET made == WithPipe(fd_table[p])
  IN  SetProc(p, made.table,
              register_pipe_fd(register_pipe_fd(reserve_pipe_fds(quota[p], 2).quota,
                                                made.read_fd), made.write_fd))

(* Faulty variant: the reservation is not given back when the copy fails.  *)
PipeUndone_no_rollback(p) ==
  LET made == WithPipe(fd_table[p])
  IN  SetProc(p, Take(Take(made.table, made.read_fd), made.write_fd),
              reserve_pipe_fds(quota[p], 2).quota)

PipeUndone(p) ==
  LET made == WithPipe(fd_table[p])
  IN  SetProc(p, Take(Take(made.table, made.read_fd), made.write_fd),
              release_pipe_fds(reserve_pipe_fds(quota[p], 2).quota, 2))

(* Faulty variant: the next identifier is not checked for overflow.        *)
PipeMade_unchecked_id(p, copied) ==
  /\ reserve_pipe_fds(quota[p], 2).ok
  /\ next_pipe_id' = next_pipe_id + 1
  /\ failed' = ~copied
  /\ IF copied THEN PipeCommitted(p) ELSE PipeUndone(p)

PipeMade(p, copied) ==
  /\ reserve_pipe_fds(quota[p], 2).ok
  /\ next_pipe_id < MaxPipeId
  /\ next_pipe_id' = next_pipe_id + 1
  /\ failed' = ~copied
  /\ IF copied THEN PipeCommitted(p) ELSE PipeUndone(p)

sys_pipe(p, copied) ==
  /\ status[p] = "live"
  /\ PipeRefused(p) \/ PipeIdExhausted(p) \/ PipeMade(p, copied)
  /\ UNCHANGED <<status, disk>>

sys_dup(p, fd) ==
  LET granted == reserve_dup_fd(quota[p], fd)
      new_fd  == alloc_fd(fd_table[p])
  IN  /\ status[p] = "live"
      /\ \/ /\ fd \notin DOMAIN fd_table[p]
            /\ failed' = TRUE
            /\ UNCHANGED <<fd_table, quota>>
         \/ /\ fd \in DOMAIN fd_table[p]
            /\ failed' = ~granted.ok
            /\ IF ~granted.ok THEN SetProc(p, fd_table[p], granted.quota)
               ELSE SetProc(p, Install(fd_table[p], new_fd, fd_table[p][fd]),
                            IF is_pipe_fd(quota[p], fd)
                            THEN register_pipe_fd(granted.quota, new_fd)
                            ELSE granted.quota)
      /\ UNCHANGED <<status, next_pipe_id, disk>>

(***************************************************************************)
(* fork copies the table and the quota; exec touches neither.  exit clears *)
(* the table, and the quota stays in the zombie until waitpid drops it.    *)
(***************************************************************************)
fork(p, child) ==
  /\ status[p] = "live"
  /\ status[child] = "free"
  /\ status' = [status EXCEPT ![child] = "live"]
  /\ SetProc(child, fd_table[p], quota[p])
  /\ failed' = FALSE
  /\ UNCHANGED <<next_pipe_id, disk>>

exit(p) ==
  /\ status[p] = "live"
  /\ p # Initproc
  /\ status' = [status EXCEPT ![p] = "zombie"]
  /\ SetProc(p, NoFds, quota[p])
  /\ failed' = FALSE
  /\ UNCHANGED <<next_pipe_id, disk>>

reap(p) ==
  /\ status[p] = "zombie"
  /\ status' = [status EXCEPT ![p] = "free"]
  /\ SetProc(p, NoFds, initial)
  /\ failed' = FALSE
  /\ UNCHANGED <<next_pipe_id, disk>>

Next ==
  \E p \in Procs :
    \/ \E flags \in {"invalid", "RDONLY", "TRUNC", "CREATE"} : sys_open(p, flags)
    \/ \E fd \in 0 .. MAX_OPEN_FILES : sys_close(p, fd) \/ sys_dup(p, fd)
    \/ \E copied \in BOOLEAN : sys_pipe(p, copied)
    \/ \E child \in Procs : fork(p, child)
    \/ exit(p)
    \/ reap(p)

Spec == Init /\ [][Next]_vars

-----------------------------------------------------------------------------
(***************************************************************************)
(* Type invariant.                                                         *)
(***************************************************************************)
QuotaState ==
  [open_files : Nat, open_pipes : Nat, pipe_fd_mask : SUBSET (0 .. U64_BITS - 1)]

Files == {"file", "pipe"}

Table(t) ==
  /\ DOMAIN t \in SUBSET Nat
  /\ IsFiniteSet(DOMAIN t)
  /\ t \in [DOMAIN t -> Files]

FdTypeOK ==
  /\ status \in [Procs -> {"free", "live", "zombie"}]
  /\ fd_table = [p \in Procs |-> fd_table[p]]
  /\ \A p \in Procs : Table(fd_table[p])
  /\ quota \in [Procs -> QuotaState]
  /\ next_pipe_id \in 1 .. MaxPipeId
  /\ disk \in {"absent", "empty", "data"}
  /\ failed \in BOOLEAN

(* The descriptors of a table that are pipe endpoints, and a quota that    *)
(* says exactly what a table holds.                                        *)
PipeFds(table) == {fd \in DOMAIN table : table[fd] = "pipe"}

Exact(table, q) ==
  /\ q.open_files = Cardinality(DOMAIN table)
  /\ q.open_pipes = Cardinality(PipeFds(table))
  /\ q.pipe_fd_mask = PipeFds(table)

(***************************************************************************)
(* The counters of a live process say exactly what its table holds, and    *)
(* the mask names exactly the pipe endpoints, after any mix of opens,      *)
(* closes, dups, failed pipes, forks and descriptor reuse.  Otherwise      *)
(* capacity leaks away, or a limit can be passed.                          *)
(***************************************************************************)
QuotaExact == \A p \in Procs : status[p] = "live" => Exact(fd_table[p], quota[p])

Limited(table) ==
  /\ DOMAIN table \subseteq 0 .. MAX_OPEN_FILES - 1
  /\ Cardinality(PipeFds(table)) <= MAX_OPEN_PIPE_FDS

(***************************************************************************)
(* No process holds more than its limits, and every descriptor number is   *)
(* below MAX_OPEN_FILES, which keeps it inside the 64-bit mask.            *)
(***************************************************************************)
WithinLimits == \A p \in Procs : status[p] = "live" => Limited(fd_table[p])

(***************************************************************************)
(* The quota of a live process is exactly what its table holds, and no     *)
(* limit is passed, whatever calls failed half way before.                 *)
(***************************************************************************)
QuotaInv == FdTypeOK /\ QuotaExact /\ WithinLimits

(***************************************************************************)
(* A system call that returns an error, at whatever step it failed, leaves *)
(* every descriptor and every quota as it found them.                      *)
(***************************************************************************)
FailedCallsAreFree == [][failed' => UNCHANGED <<fd_table, quota>>]_vars

(***************************************************************************)
(* A call refused for lack of descriptors leaves the files of the system   *)
(* alone (docs/ROADMAP.md: exhaustion may only affect the calling          *)
(* process).                                                               *)
(***************************************************************************)
ExhaustionIsLocal == [][failed' => disk' = disk]_vars

=============================================================================
