--------------------------- MODULE AuditSyscalls ---------------------------
(***************************************************************************)
(* The audit entry points of the kernel: the recording of IPC outcomes     *)
(* (security::complete, audit::record) and the two control calls           *)
(* sys_audit_read (602) and sys_ipc_stat (603) of os/src/syscall/          *)
(* security.rs.  A system call runs to its end without being preempted, so *)
(* each is one step on the ring.                                           *)
(*                                                                         *)
(* The user buffer of a call is abstracted to fit, the number of whole     *)
(* records that the mapped and writable range at its address can take; it  *)
(* is 0 for a null pointer and for a range that overflows.                 *)
(***************************************************************************)
EXTENDS AuditRing

CONSTANTS
  IpcOperations,   \* the operations that pass security::preflight and complete
  IpcErrnos        \* how they end, 0 for success

EPERM  == 1
EFAULT == 14
EINVAL == 22

ASSUME SyscallAssumption ==
  /\ {0, EPERM, EFAULT, EINVAL} \subseteq Errnos
  /\ IpcErrnos \subseteq Errnos
  /\ Bodies = IpcOperations \cup {"audit_read", "ipc_stat"}

(***************************************************************************)
(* audit::record.  A successful AuditRead is not recorded.                 *)
(***************************************************************************)
record(operation, errno) ==
  IF operation = "AuditRead" /\ errno = 0 THEN UNCHANGED ringVars
  ELSE push(errno, operation)

(***************************************************************************)
(* finish_control_call: a failure is recorded once, a success never.       *)
(***************************************************************************)
finish_control_call(operation, errno) ==
  \/ errno = 0 /\ UNCHANGED ringVars
  \/ errno # 0 /\ push(errno, operation)

(***************************************************************************)
(* AuditBatch::record_at: the gap mark is only ever on the first record.   *)
(***************************************************************************)
record_at(batch, i) ==
  [sequence |-> batch.events[i].sequence,
   gap      |-> i = 1 /\ batch.gap_before]

(***************************************************************************)
(* read_records: the outcome of sys_audit_read, with what it left in the   *)
(* user buffer.  A copy that faults leaves the records before it there.    *)
(***************************************************************************)
read_records(privileged, capacity, after_sequence, fit) ==
  LET batch   == snapshot(after_sequence, capacity)
      count   == Len(batch.events)
      copied  == Minimum(count, fit)
      errno   == IF ~privileged THEN EPERM ELSE IF fit < count THEN EFAULT ELSE 0
  IN  [errno   |-> IF privileged /\ capacity = 0 THEN 0 ELSE errno,
       records |-> IF privileged /\ capacity # 0
                   THEN [i \in 1 .. copied |-> record_at(batch, i)]
                   ELSE << >>]

(***************************************************************************)
(* read_stats: the outcome of sys_ipc_stat.  valid says that flags is zero *)
(* and the buffer is declared large enough; it is tested before the        *)
(* address.                                                                *)
(***************************************************************************)
read_stats(privileged, valid, fit) ==
  IF ~privileged THEN EPERM ELSE IF ~valid THEN EINVAL ELSE IF fit = 0 THEN EFAULT ELSE 0

(***************************************************************************)
(* The calls of every process but the reader that AuditCtl follows: IPC    *)
(* operations that finish, and control calls that succeed or fail in the   *)
(* different ways, of which only the failures touch the ring.              *)
(***************************************************************************)
IpcCompletes ==
  \E operation \in IpcOperations, errno \in IpcErrnos : record(operation, errno)

sys_audit_read ==
  \E privileged \in BOOLEAN, capacity \in {0, AUDIT_READ_MAX_RECORDS + 1} :
    finish_control_call("audit_read", read_records(privileged, capacity, 0, 1).errno)

sys_ipc_stat ==
  \E valid \in BOOLEAN, fit \in {0, 1} :
    finish_control_call("ipc_stat", read_stats(TRUE, valid, fit))

=============================================================================
