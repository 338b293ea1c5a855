---------------------------- MODULE Credentials ----------------------------
(***************************************************************************)
(* Who may signal whom: the credentials of os/src/security/credentials.rs, *)
(* the policy of os/src/security/policy.rs, and sys_setuid, sys_getuid and *)
(* sys_kill of os/src/syscall/process.rs, on the processes of Tasks.       *)
(*                                                                         *)
(* A pending signal is kept with the uid and the pid of the process that   *)
(* sent it; the kernel itself does not keep them.                          *)
(***************************************************************************)
EXTENDS Tasks

CONSTANTS
  Uids,      \* bound: the uids used, 0 among them
  Signums    \* bound: the signal numbers used

ASSUME CredentialsAssumption == 0 \in Uids /\ Uids \subseteq Nat

EPERM == 1
ESRCH == 3
EAGAIN == 11
EINVAL == 22
ROOT_UID == 0
AllCapabilities == {"KILL", "AUDIT_READ", "IPC_ADMIN"}

VARIABLES
  uid,           \* per task
  capabilities,  \* per task
  signals,       \* per task: pending signals with their senders
  audit,         \* the errnos this step recorded, in a sequence
  ret            \* what this step returned, 0 if it is not a system call below

vars == <<taskVars, uid, capabilities, signals, audit, ret>>

Pending(t) == {s.signum : s \in signals[t]}

CredInit ==
  /\ Init
  /\ uid = [t \in Tasks |-> ROOT_UID]
  /\ capabilities = [t \in Tasks |-> IF t = INITPROC THEN AllCapabilities ELSE {}]
  /\ signals = [t \in Tasks |-> {}]
  /\ audit = << >>
  /\ ret = 0

-----------------------------------------------------------------------------
(***************************************************************************)
(* policy::authorize_signal.                                               *)
(***************************************************************************)
(* Faulty variant: a root target is open to every sender.                  *)
authorize_signal_to_root(sender, target) ==
  \/ pid[sender] = pid[target]
  \/ uid[sender] = uid[target]
  \/ uid[target] = ROOT_UID
  \/ "KILL" \in capabilities[sender]

authorize_signal(sender, target) ==
  \/ pid[sender] = pid[target]
  \/ uid[sender] = uid[target]
  \/ uid[sender] = ROOT_UID
  \/ "KILL" \in capabilities[sender]

(* The outcome of a signal request is recorded and returned.               *)
Finish(errno) == audit' = <<errno>> /\ ret' = -errno

(***************************************************************************)
(* sys_kill.  A bad signal number and an unknown pid are refused before    *)
(* the request exists and are not recorded.                                *)
(***************************************************************************)
KillRefused(p, signum) ==
  /\ signum \notin 0 .. 31 \/ p \notin DOMAIN PID2TCB
  /\ ret' = IF signum \notin 0 .. 31 THEN -EINVAL ELSE -ESRCH
  /\ audit' = << >>
  /\ UNCHANGED signals

KillRequest(target, signum) ==
  IF ~authorize_signal(current, target)
  THEN Finish(EPERM) /\ UNCHANGED signals
  ELSE IF signum \in Pending(target)
  THEN Finish(EAGAIN) /\ UNCHANGED signals
  ELSE /\ Finish(0)
       /\ signals' = [signals EXCEPT ![target] =
                        @ \union {[signum |-> signum, uid |-> uid[current], pid |-> pid[current]]}]

sys_kill(p, signum) ==
  /\ current # NoTask
  /\ \/ KillRefused(p, signum)
     \/ /\ signum \in 0 .. 31
        /\ p \in DOMAIN PID2TCB
        /\ KillRequest(PID2TCB[p], signum)
  /\ UNCHANGED <<taskVars, uid, capabilities>>

(***************************************************************************)
(* sys_setuid.  An argument that does not fit a Uid is refused.            *)
(***************************************************************************)
(* Faulty variant: the capabilities stay when root is dropped.             *)
SetUid_keep_caps(u) ==
  /\ uid' = [uid EXCEPT ![current] = u]
  /\ ret' = 0
  /\ UNCHANGED capabilities

SetUid(u) ==
  /\ uid' = [uid EXCEPT ![current] = u]
  /\ capabilities' = [capabilities EXCEPT ![current] = IF u # ROOT_UID THEN {} ELSE @]
  /\ ret' = 0

SetUidRefused(errno) == ret' = -errno /\ UNCHANGED <<uid, capabilities>>

is_root(t) == uid[t] = ROOT_UID

sys_setuid(u, fits) ==
  /\ current # NoTask
  /\ \/ ~is_root(current) /\ SetUidRefused(EPERM)
     \/ is_root(current) /\ ~fits /\ SetUidRefused(EINVAL)
     \/ is_root(current) /\ fits /\ SetUid(u)
  /\ audit' = << >>
  /\ UNCHANGED <<taskVars, signals>>

-----------------------------------------------------------------------------
(* fork_from: a child has the credentials of its parent, and no signals.   *)
(* Faulty variant: the child starts with the credentials of INITPROC.      *)
fork_from_initial(child) ==
  /\ uid' = [uid EXCEPT ![child] = ROOT_UID]
  /\ capabilities' = [capabilities EXCEPT ![child] = AllCapabilities]

fork_from(child) ==
  /\ uid' = [uid EXCEPT ![child] = uid[current]]
  /\ capabilities' = [capabilities EXCEPT ![child] = capabilities[current]]

(* Nothing recorded, nothing returned.                                     *)
Silent == audit' = << >> /\ ret' = 0

Fork(child) ==
  /\ sys_fork(child)
  /\ fork_from(child)
  /\ Silent
  /\ UNCHANGED signals

(* The signals of a task go with it when it is freed; uid 0 stands for a   *)
(* block that is not in use.                                               *)
Forgotten(t) == IF task_status'[t] = "Free" THEN {} ELSE signals[t]

Waitpid ==
  /\ \E arg \in {-1} \union Pids : sys_waitpid(arg)
  /\ signals' = [t \in Tasks |-> Forgotten(t)]
  /\ uid' = [t \in Tasks |-> IF task_status'[t] = "Free" THEN ROOT_UID ELSE uid[t]]
  /\ capabilities' = [t \in Tasks |-> IF task_status'[t] = "Free" THEN {} ELSE capabilities[t]]
  /\ Silent

Schedule ==
  /\ run_tasks \/ suspend_current_and_run_next \/ exit_current_and_run_next \/ Shutdown
  /\ Silent
  /\ UNCHANGED <<uid, capabilities, signals>>

CredNext ==
  \/ Schedule
  \/ \E child \in Tasks : Fork(child)
  \/ Waitpid
  \/ \E p \in Pids, signum \in Signums : sys_kill(p, signum)
  \/ \E u \in Uids, fits \in BOOLEAN : sys_setuid(u, fits)
  \/ halted /\ UNCHANGED vars

CredSpec == CredInit /\ [][CredNext]_vars

-----------------------------------------------------------------------------
(***************************************************************************)
(* Capabilities are root's alone, through every fork and setuid: the rules *)
(* of the policy that ask for a capability open nothing to other users.    *)
(***************************************************************************)
CapabilitiesAreRoots ==
  \A t \in Tasks : Exists(t) => (is_root(t) <=> capabilities[t] = AllCapabilities)
                                /\ (~is_root(t) => capabilities[t] = {})

(***************************************************************************)
(* A pending signal was sent by the process itself, by root, or by a       *)
(* process with the uid the target has now, even if the target changed its *)
(* uid while the signal waited.                                            *)
(***************************************************************************)
NoForeignSignal ==
  \A t \in Tasks : \A s \in signals[t] :
    s.pid = pid[t] \/ s.uid \in {ROOT_UID, uid[t]}

(***************************************************************************)
(* Root is not regained: a process that is root was root before the step,  *)
(* or was just forked by one that is.  A process that gave root up, and    *)
(* all it forks from then on, can never get it back.                       *)
(***************************************************************************)
RootIsNotRegained ==
  [][\A t \in Tasks :
       (Exists(t) /\ is_root(t))' =>
         \/ Exists(t) /\ is_root(t)
         \/ ~Exists(t) /\ is_root(parent'[t])]_vars

=============================================================================
