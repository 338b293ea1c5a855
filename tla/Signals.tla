------------------------------ MODULE Signals ------------------------------
(***************************************************************************)
(* The delivery of signals to one process: check_pending_signals,          *)
(* handle_signals and the end of trap_handler, with the system calls that  *)
(* change what they look at (sigaction, sigprocmask, sigreturn, kill,      *)
(* fork, exec).  Who may send is the subject of Credentials.               *)
(*                                                                         *)
(* Other processes run, and send, only while this one is suspended.  The   *)
(* user program is an activation number: 0 is the program itself, n + 1 a  *)
(* handler that interrupted activation n.                                  *)
(***************************************************************************)
EXTENDS Integers, FiniteSets, FiniteSetsExt

CONSTANTS
  Sigs,          \* bound: the signal numbers used
  Handled,       \* bound: the signals programs call sigaction for
  Masks,         \* bound: the masks programs use
  MaxNesting     \* bound: nothing is sent at this depth of activations

SIGDEF == 0
SIGILL == 4
SIGKILL == 9
SIGSEGV == 11
SIGCONT == 18
SIGSTOP == 19

KernelSignals == {SIGDEF, SIGKILL, SIGSTOP, SIGCONT}


ErrorSignals == {2, SIGILL, 6, 8, SIGKILL, SIGSEGV}

ASSUME SignalsAssumption ==
  /\ Sigs \subseteq 0 .. 31
  /\ Handled \subseteq Sigs
  /\ Masks \subseteq SUBSET (0 .. 31)
  /\ MaxNesting \in Nat

NoContext == -1      \* trap_ctx_backup is None
NotHandling == -1    \* handling_sig

VARIABLES
  inner,   \* the signal part of TaskControlBlockInner, and the trap context
  where,   \* where the process is, see Places
  careful  \* the programs block all they handle in every handler, and do not
           \* fork inside one

vars == <<inner, where, careful>>

(* "fresh": forked and never run; "first": in user mode for the first      *)
(* time; "user": in user mode after a trap; "trap": suspended by a trap;   *)
(* "stopped": suspended in handle_signals; "exited"; "panic": the kernel   *)
(* is down.                                                                *)
Places == {"fresh", "first", "user", "trap", "stopped", "exited", "panic"}
InUserMode == where \in {"first", "user"}
Suspended == where \in {"fresh", "trap", "stopped"}

DefaultAction == [handler |-> FALSE, mask |-> {3, 5}]

Init ==
  /\ inner = [signals |-> {}, signal_mask |-> {}, handling_sig |-> NotHandling,
              signal_actions |-> [s \in Sigs |-> DefaultAction],
              killed |-> FALSE, frozen |-> FALSE,
              trap_ctx |-> 0, trap_ctx_backup |-> NoContext]
  /\ where = "first"
  /\ careful \in BOOLEAN

-----------------------------------------------------------------------------
(***************************************************************************)
(* check_pending_signals goes through the pending signals in ascending     *)
(* order: those that are neither masked nor blocked by the handler that is *)
(* running.  A kernel signal is handled and the loop goes on; the first    *)
(* user signal ends it, with or without a handler.                         *)
(***************************************************************************)
(* Faulty variant: the mask of the handler that is running is not asked.   *)
Deliverable_no_handler_mask(t) == t.signals \ t.signal_mask

Deliverable(t) ==
  {s \in t.signals \ t.signal_mask :
     t.handling_sig = NotHandling \/ s \notin t.signal_actions[t.handling_sig].mask}

UserSignals(t) == Deliverable(t) \ KernelSignals

KernelFirst(t) ==
  {k \in Deliverable(t) \intersect KernelSignals : \A u \in UserSignals(t) : k < u}


call_kernel_signal_handler(t) ==
  LET ks == KernelFirst(t)
  IN  [t EXCEPT !.frozen = SIGSTOP \in ks \/ (@ /\ SIGCONT \notin ks),
                !.killed = @ \/ ks \intersect {SIGKILL, SIGDEF} # {},
                !.signals = @ \ (ks \intersect {SIGSTOP, SIGCONT})]

call_user_signal_handler(t, s) ==
  IF ~t.signal_actions[s].handler THEN t
  ELSE [t EXCEPT !.handling_sig = s,
                 !.signals = @ \ {s},
                 !.trap_ctx_backup = t.trap_ctx,
                 !.trap_ctx = @ + 1]

check_pending_signals(t) ==
  LET k == call_kernel_signal_handler(t)
  IN  IF UserSignals(t) = {} THEN k
      ELSE call_user_signal_handler(k, Min(UserSignals(t)))

(***************************************************************************)
(* handle_signals and check_signals_error_of_current: the way from the     *)
(* kernel back to user mode.                                               *)
(***************************************************************************)
(* Faulty variant: a stopped process leaves the loop.                      *)
Stays_never(t) == FALSE

Stays(t) == t.frozen /\ ~t.killed

(* Faulty variant: masked signals are not fatal.                           *)
check_error_unmasked(t) == (t.signals \ t.signal_mask) \intersect ErrorSignals # {}

check_error(t) == t.signals \intersect ErrorSignals # {}

ReturnToUser(t) ==
  LET h == check_pending_signals(t)
  IN  /\ inner' = h
      /\ where' = IF Stays(h) THEN "stopped"
                  ELSE IF check_error(h) THEN "exited"
                  ELSE "user"
      /\ UNCHANGED careful

(* The scheduler comes back to a process that was suspended.  A new one    *)
(* starts in trap_return and does not pass handle_signals.                 *)
Resume ==
  \/ where \in {"trap", "stopped"} /\ ReturnToUser(inner)
  \/ where = "fresh" /\ where' = "first" /\ UNCHANGED <<inner, careful>>

(* The timer interrupt, or sys_yield.                                      *)
Suspend == InUserMode /\ where' = "trap" /\ UNCHANGED <<inner, careful>>

(* A process that is in user mode enters the kernel, changes its state to  *)
(* t and returns.                                                          *)
Call(t) == InUserMode /\ ReturnToUser(t)

-----------------------------------------------------------------------------
Within == inner.trap_ctx < MaxNesting

(* A signal that is pending already is refused with EAGAIN.                *)
Sent(s) == [inner EXCEPT !.signals = @ \union {s}]

(* sys_kill by another process, and by the process itself.                 *)
Receive(s) ==
  /\ Within
  /\ Suspended
  /\ s \notin inner.signals
  /\ inner' = Sent(s)
  /\ UNCHANGED <<where, careful>>

SendSelf(s) == Within /\ Call(Sent(s))

(* current_add_signal, for a fault or an illegal instruction.              *)
Fault(s) == Within /\ Call(Sent(s))

sys_sigprocmask(mask) == Call([inner EXCEPT !.signal_mask = mask])

check_sigaction_error(s) == s \in {SIGKILL, SIGSTOP}

sys_sigaction(s, handler, mask) ==
  /\ ~check_sigaction_error(s)
  /\ careful => Handled \subseteq mask
  /\ Call([inner EXCEPT !.signal_actions[s] = [handler |-> handler, mask |-> mask]])

(* Without a saved context unwrap takes the kernel down.                   *)
sys_sigreturn ==
  IF inner.trap_ctx_backup = NoContext
  THEN InUserMode /\ where' = "panic" /\ UNCHANGED <<inner, careful>>
  ELSE Call([inner EXCEPT !.handling_sig = NotHandling,
                          !.trap_ctx = inner.trap_ctx_backup])

(* The new program starts; nothing else about signals is changed.          *)
exec == Call([inner EXCEPT !.trap_ctx = 0])

(* The process followed from here on is the child; a parent with SIGKILL   *)
(* pending is followed to its end.                                         *)
fork ==
  /\ InUserMode
  /\ SIGKILL \notin inner.signals
  /\ careful => inner.trap_ctx = 0
  /\ inner' = [inner EXCEPT !.signals = {}, !.handling_sig = NotHandling,
                            !.killed = FALSE, !.frozen = FALSE,
                            !.trap_ctx_backup = NoContext]
  /\ where' = "fresh"
  /\ UNCHANGED careful

sys_exit == InUserMode /\ where' = "exited" /\ UNCHANGED <<inner, careful>>

Next ==
  \/ Resume
  \/ Suspend
  \/ \E s \in Sigs : Receive(s) \/ SendSelf(s)
  \/ \E s \in {SIGSEGV, SIGILL} \intersect Sigs : Fault(s)
  \/ \E mask \in Masks : sys_sigprocmask(mask)
  \/ \E s \in Handled, handler \in BOOLEAN, mask \in Masks : sys_sigaction(s, handler, mask)
  \/ sys_sigreturn
  \/ exec
  \/ fork
  \/ sys_exit

(* The ready queue comes round to every suspended process, and the timer   *)
(* interrupts every running one.                                           *)
Spec == Init /\ [][Next]_vars /\ WF_vars(Resume) /\ WF_vars(Suspend)

-----------------------------------------------------------------------------
(***************************************************************************)
(* A process never runs in user mode with a fatal signal pending, masked   *)
(* or not, whatever it did with masks, handlers and exec.  Only a child    *)
(* that was signalled before it first ran gets as far as its first trap.   *)
(***************************************************************************)
NoFatalInUserMode == where = "user" => inner.signals \intersect ErrorSignals = {}

(***************************************************************************)
(* A process that was stopped does not run before it was continued, unless *)
(* SIGDEF marked it killed.                                                *)
(***************************************************************************)
StoppedDoesNotRun == InUserMode /\ inner.frozen => inner.killed

(***************************************************************************)
(* A handler can return: sigreturn finds the saved context it unwraps.     *)
(***************************************************************************)
HandlerCanReturn == inner.trap_ctx > 0 => inner.trap_ctx_backup # NoContext

(***************************************************************************)
(* The context that sigreturn of a handler finds is the one the handler    *)
(* interrupted.                                                            *)
(***************************************************************************)
ReturnsToInterrupted ==
  (inner.trap_ctx > 0 /\ inner.trap_ctx_backup # NoContext)
    => inner.trap_ctx_backup = inner.trap_ctx - 1

(***************************************************************************)
(* The one saved context is enough for careful programs: over any sequence *)
(* of signals, masks, exec and fork, sigreturn goes back to what the       *)
(* handler interrupted.                                                    *)
(***************************************************************************)
CarefulHandlersReturn == careful => HandlerCanReturn /\ ReturnsToInterrupted

(* What keeps check_pending_signals from a kernel signal: a mask, or a     *)
(* user signal with a smaller number that ends its loop first.             *)
Hidden(k) == k \in inner.signals \ KernelFirst(inner)



=============================================================================
