------------------------- MODULE ShellSignalsProofs -------------------------
(***************************************************************************)
(* Proofs about the two components of what runs in a user process: about   *)
(* Signals, for any set of signals and masks, any handlers and any depth   *)
(* of nesting; and about Shell, for pipelines of any length, any programs  *)
(* and any quota of descriptors.                                           *)
(***************************************************************************)
EXTENDS Signals, Shell, DataFacts, FiniteSetTheorems

(* The provers a leaf is tried with, unless it names one.                   *)
USE SMTT(30), ZenonT(30)

Actions == [handler : BOOLEAN, mask : SUBSET (0 .. 31)]

InnerType ==
  [signals : SUBSET Sigs, signal_mask : SUBSET (0 .. 31),
   handling_sig : Sigs \union {NotHandling}, signal_actions : [Sigs -> Actions],
   killed : BOOLEAN, frozen : BOOLEAN,
   trap_ctx : Nat, trap_ctx_backup : Nat \union {NoContext}]

(* What careful programs keep: whoever has a handler blocks in it all that *)
(* has one; there is one handler at a time, over the program itself, whose *)
(* context is saved as long as a handler is marked as running.             *)
OneHandler(t) ==
  /\ \A s \in Sigs : t.signal_actions[s].handler => s \in Handled /\ Handled \subseteq t.signal_actions[s].mask
  /\ t.handling_sig # NotHandling =>
       Handled \subseteq t.signal_actions[t.handling_sig].mask /\ t.trap_ctx_backup = 0
  /\ t.handling_sig = NotHandling => t.trap_ctx = 0
  /\ t.trap_ctx \in {0, 1} /\ t.trap_ctx_backup \in {NoContext, 0}

(***************************************************************************)
(* The inductive invariant.  exec leaves handling_sig as it was, so a      *)
(* handler marked as running need not be what runs; and a process that has *)
(* not trapped yet was never stopped.                                      *)
(***************************************************************************)
SignalsIInv ==
  /\ inner \in InnerType /\ careful \in BOOLEAN
  /\ careful => OneHandler(inner)
  /\ where \in {"fresh", "first"} => ~inner.frozen
  /\ NoFatalInUserMode
  /\ StoppedDoesNotRun

LEMMA InitSignals == Init => SignalsIInv
<1> SUFFICES ASSUME Init PROVE SignalsIInv
  OBVIOUS
<1>1. DefaultAction \in Actions /\ DefaultAction.handler = FALSE
  BY DEF DefaultAction, Actions
<1>2. inner = [signals |-> {}, signal_mask |-> {}, handling_sig |-> NotHandling,
              signal_actions |-> [s \in Sigs |-> DefaultAction],
              killed |-> FALSE, frozen |-> FALSE,
              trap_ctx |-> 0, trap_ctx_backup |-> NoContext]
  BY DEF Init
<1>3. [s \in Sigs |-> DefaultAction] \in [Sigs -> Actions]
  BY <1>1
<1>4. inner \in InnerType
  BY <1>2, <1>3 DEF InnerType
<1>5. OneHandler(inner)
  BY <1>1, <1>2 DEF OneHandler
<1>6. where = "first" /\ careful \in BOOLEAN /\ ~inner.frozen
  BY <1>2 DEF Init
<1> QED
  BY <1>4, <1>5, <1>6 DEF SignalsIInv, NoFatalInUserMode, StoppedDoesNotRun

(* The kernel signals change nothing a handler depends on.                 *)
LEMMA KernelHandled ==
  ASSUME NEW t \in InnerType
  PROVE  LET h == call_kernel_signal_handler(t)
         IN  /\ h \in InnerType
             /\ h.signal_actions = t.signal_actions /\ h.handling_sig = t.handling_sig
             /\ h.trap_ctx = t.trap_ctx /\ h.trap_ctx_backup = t.trap_ctx_backup
BY ZenonT(40) DEF call_kernel_signal_handler, InnerType

(* The user signal that is looked at is one that may be delivered.         *)
LEMMA FirstUser ==
  ASSUME NEW t \in InnerType, UserSignals(t) # {}
  PROVE  Min(UserSignals(t)) \in Deliverable(t) /\ Min(UserSignals(t)) \in Sigs
<1>1. UserSignals(t) \subseteq Deliverable(t) /\ Deliverable(t) \subseteq Sigs
  BY DEF UserSignals, Deliverable, InnerType
<1>2. ASSUME NEW x \in UserSignals(t) PROVE x \in Nat
  <2>1. x \in 0 .. 31
    BY <1>1, SignalsAssumption, Zenon
  <2> QED
    BY <2>1
<1>3. \E x \in UserSignals(t) : \A y \in UserSignals(t) : x <= y
  <2>1. UserSignals(t) \in SUBSET Nat
    BY <1>2
  <2> QED
    BY <2>1, LeastNatural
<1>4. Min(UserSignals(t)) \in UserSignals(t)
  BY <1>3 DEF Min
<1> QED
  BY <1>1, <1>4

(* check_pending_signals keeps the invariant of careful programs: while a  *)
(* handler is marked as running no other one is entered.                   *)
LEMMA PendingChecked ==
  ASSUME NEW t \in InnerType
  PROVE  /\ check_pending_signals(t) \in InnerType
         /\ OneHandler(t) => OneHandler(check_pending_signals(t))
<1> DEFINE h == call_kernel_signal_handler(t)
           s == Min(UserSignals(t))
<1>1. /\ h \in InnerType
      /\ h.signal_actions = t.signal_actions /\ h.handling_sig = t.handling_sig
      /\ h.trap_ctx = t.trap_ctx /\ h.trap_ctx_backup = t.trap_ctx_backup
  BY KernelHandled
<1>2. OneHandler(t) => OneHandler(h)
  BY <1>1 DEF OneHandler
<1> HIDE DEF h
<1>3. CASE UserSignals(t) = {}
  BY <1>1, <1>2, <1>3 DEF check_pending_signals, h
<1>4. CASE UserSignals(t) # {} /\ ~t.signal_actions[s].handler
  <2>1. check_pending_signals(t) = h
    BY <1>1, <1>4 DEF check_pending_signals, call_user_signal_handler, h
  <2> QED
    BY <1>1, <1>2, <2>1
<1>5. CASE UserSignals(t) # {} /\ t.signal_actions[s].handler
  <2>1. s \in Deliverable(t) /\ s \in Sigs
    BY <1>5, FirstUser
  <2> HIDE DEF s
  <2> DEFINE u == [h EXCEPT !.handling_sig = s, !.signals = @ \ {s},
                            !.trap_ctx_backup = h.trap_ctx, !.trap_ctx = @ + 1]
  <2>2. check_pending_signals(t) = u
    BY <1>1, <1>5 DEF check_pending_signals, call_user_signal_handler, h, s
  <2>3. /\ u \in InnerType
        /\ u.signal_actions = t.signal_actions /\ u.handling_sig = s
        /\ u.trap_ctx = t.trap_ctx + 1 /\ u.trap_ctx_backup = t.trap_ctx
    <3>1. h.trap_ctx \in Nat /\ h.trap_ctx + 1 \in Nat /\ h.signals \ {s} \in SUBSET Sigs
      BY <1>1 DEF InnerType
    <3>2. u = [h EXCEPT !.handling_sig = s, !.signals = h.signals \ {s},
                        !.trap_ctx_backup = h.trap_ctx, !.trap_ctx = h.trap_ctx + 1]
      BY <1>1 DEF InnerType
    <3>3. u \in InnerType
      BY <1>1, <2>1, <3>1, <3>2, Zenon DEF InnerType
    <3>4. u.handling_sig = s /\ u.trap_ctx_backup = h.trap_ctx
      BY <1>1, <3>2 DEF InnerType
    <3>5. u.trap_ctx = h.trap_ctx + 1 /\ u.signal_actions = h.signal_actions
      BY <1>1, <3>2 DEF InnerType
    <3> QED
      BY <1>1, <3>3, <3>4, <3>5
  <2> HIDE DEF u
  <2>4. ASSUME OneHandler(t) PROVE OneHandler(u)
    <3>1. s \in Handled /\ Handled \subseteq t.signal_actions[s].mask
      BY <1>5, <2>1, <2>4 DEF OneHandler
    <3>2. t.handling_sig = NotHandling
      BY <2>1, <2>4, <3>1 DEF OneHandler, Deliverable
    <3>3. t.trap_ctx = 0 /\ s # NotHandling
      BY <2>1, <2>4, <3>2, SignalsAssumption DEF OneHandler, NotHandling
    <3> QED
      BY <2>3, <2>4, <3>1, <3>3 DEF OneHandler
  <2> QED
    BY <2>2, <2>3, <2>4
<1> QED
  BY <1>3, <1>4, <1>5

(* The way back to user mode.                                              *)
LEMMA ReturnStep ==
  ASSUME SignalsIInv, NEW t \in InnerType, careful => OneHandler(t), ReturnToUser(t)
  PROVE  SignalsIInv'
<1> DEFINE h == check_pending_signals(t)
<1>1. h \in InnerType /\ (careful => OneHandler(h))
  BY PendingChecked
<1>2. /\ inner' = h /\ careful' = careful
      /\ where' = IF Stays(h) THEN "stopped" ELSE IF check_error(h) THEN "exited" ELSE "user"
  BY DEF ReturnToUser
<1> HIDE DEF h
<1>3. inner' \in InnerType /\ careful' \in BOOLEAN /\ (careful' => OneHandler(inner)')
  BY <1>1, <1>2 DEF SignalsIInv, OneHandler
<1>4. where' \in {"stopped", "exited", "user"} /\ (where' = "user" => ~Stays(h) /\ ~check_error(h))
  BY <1>2
<1>5. NoFatalInUserMode'
  BY <1>2, <1>4 DEF NoFatalInUserMode, check_error
<1>6. StoppedDoesNotRun'
  BY <1>2, <1>4 DEF StoppedDoesNotRun, Stays, InUserMode
<1> QED
  BY <1>3, <1>4, <1>5, <1>6 DEF SignalsIInv

(* What the system calls put into the process before they return.          *)
LEMMA CallStep ==
  ASSUME SignalsIInv, NEW t, Call(t), t \in InnerType, careful => OneHandler(t)
  PROVE  SignalsIInv'
BY ReturnStep DEF Call

LEMMA SentFacts ==
  ASSUME SignalsIInv, NEW s \in Sigs
  PROVE  /\ Sent(s) \in InnerType /\ (careful => OneHandler(Sent(s)))
         /\ Sent(s).frozen = inner.frozen
BY DEF Sent, SignalsIInv, InnerType, OneHandler

LEMMA MaskStep ==
  ASSUME SignalsIInv, NEW mask \in Masks, sys_sigprocmask(mask)
  PROVE  SignalsIInv'
<1> DEFINE t == [inner EXCEPT !.signal_mask = mask]
<1>1. t \in InnerType /\ (careful => OneHandler(t))
  BY SignalsAssumption DEF SignalsIInv, InnerType, OneHandler
<1> QED
  BY <1>1, CallStep DEF sys_sigprocmask

LEMMA ActionStep ==
  ASSUME SignalsIInv, NEW s \in Handled, NEW handler \in BOOLEAN, NEW mask \in Masks,
         sys_sigaction(s, handler, mask)
  PROVE  SignalsIInv'
<1> DEFINE a == [handler |-> handler, mask |-> mask]
           t == [inner EXCEPT !.signal_actions[s] = a]
<1>1. a \in Actions /\ s \in Sigs /\ a.handler = handler /\ a.mask = mask
  BY SignalsAssumption DEF Actions
<1>2. (careful => Handled \subseteq mask) /\ Call(t)
  BY DEF sys_sigaction
<1> HIDE DEF a
<1>3. inner \in InnerType /\ (careful => OneHandler(inner))
  BY DEF SignalsIInv
<1>4. /\ t \in InnerType
      /\ t.handling_sig = inner.handling_sig /\ t.trap_ctx = inner.trap_ctx
      /\ t.trap_ctx_backup = inner.trap_ctx_backup
      /\ \A r \in Sigs : t.signal_actions[r] = IF r = s THEN a ELSE inner.signal_actions[r]
      /\ inner.handling_sig # NotHandling => inner.handling_sig \in Sigs
  BY <1>1, <1>3 DEF InnerType
<1> HIDE DEF t
<1>5. careful => OneHandler(t)
  BY <1>1, <1>2, <1>3, <1>4 DEF OneHandler
<1> QED
  BY <1>2, <1>4, <1>5, CallStep

LEMMA SigreturnStep == SignalsIInv /\ sys_sigreturn => SignalsIInv'
<1> SUFFICES ASSUME SignalsIInv, sys_sigreturn PROVE SignalsIInv'
  OBVIOUS
<1>1. CASE inner.trap_ctx_backup = NoContext
  BY <1>1 DEF sys_sigreturn, SignalsIInv, NoFatalInUserMode, StoppedDoesNotRun, InUserMode, OneHandler
<1>2. CASE inner.trap_ctx_backup # NoContext
  <2> DEFINE t == [inner EXCEPT !.handling_sig = NotHandling, !.trap_ctx = inner.trap_ctx_backup]
  <2>1. t \in InnerType /\ (careful => OneHandler(t))
    BY <1>2, Zenon DEF SignalsIInv, InnerType, OneHandler
  <2>2. Call(t)
    BY <1>2 DEF sys_sigreturn
  <2> QED
    BY <2>1, <2>2, CallStep
<1> QED
  BY <1>1, <1>2

LEMMA ExecStep == SignalsIInv /\ exec => SignalsIInv'
<1> SUFFICES ASSUME SignalsIInv, exec PROVE SignalsIInv'
  OBVIOUS
<1> DEFINE t == [inner EXCEPT !.trap_ctx = 0]
<1>1. t \in InnerType /\ (careful => OneHandler(t))
  BY DEF SignalsIInv, InnerType, OneHandler
<1> QED
  BY <1>1, CallStep DEF exec

LEMMA ForkStep == SignalsIInv /\ fork => SignalsIInv'
<1> SUFFICES ASSUME SignalsIInv, fork PROVE SignalsIInv'
  OBVIOUS
<1>1. /\ inner' \in InnerType /\ ~inner'.frozen /\ where' = "fresh" /\ careful' = careful
      /\ (careful => OneHandler(inner)')
  BY Zenon DEF fork, SignalsIInv, InnerType, OneHandler
<1> QED
  BY <1>1 DEF SignalsIInv, NoFatalInUserMode, StoppedDoesNotRun, InUserMode

(* The steps that leave the process outside user mode.                     *)
LEMMA OutsideStep ==
  ASSUME SignalsIInv, inner' \in InnerType, careful' = careful, careful => OneHandler(inner)',
         where' \notin {"first", "user"}, where' = "fresh" => ~inner'.frozen
  PROVE  SignalsIInv'
BY DEF SignalsIInv, NoFatalInUserMode, StoppedDoesNotRun, InUserMode

LEMMA NextSignals == SignalsIInv /\ [Next]_vars => SignalsIInv'
<1> SUFFICES ASSUME SignalsIInv, [Next]_vars PROVE SignalsIInv'
  OBVIOUS
<1>0. inner \in InnerType /\ (careful => OneHandler(inner))
  BY DEF SignalsIInv
<1>1. CASE UNCHANGED vars
  BY <1>1 DEF vars, SignalsIInv, NoFatalInUserMode, StoppedDoesNotRun, InUserMode, OneHandler
<1>2. CASE Resume
  <2>1. CASE ReturnToUser(inner)
    BY <1>0, <2>1, ReturnStep
  <2>2. CASE where = "fresh" /\ where' = "first" /\ UNCHANGED <<inner, careful>>
    BY <2>2 DEF SignalsIInv, NoFatalInUserMode, StoppedDoesNotRun, InUserMode, OneHandler
  <2> QED
    BY <1>2, <2>1, <2>2 DEF Resume
<1>3. CASE Suspend \/ sys_exit
  <2>1. where' \in {"trap", "exited"} /\ inner' = inner /\ careful' = careful
    BY <1>3 DEF Suspend, sys_exit
  <2> QED
    BY <1>0, <2>1, OutsideStep DEF OneHandler
<1>4. ASSUME NEW s \in Sigs, Receive(s) PROVE SignalsIInv'
  <2>1. inner' = Sent(s) /\ where' = where /\ careful' = careful /\ where \in {"fresh", "trap", "stopped"}
    BY <1>4 DEF Receive, Suspended
  <2>2. inner' \in InnerType /\ (careful => OneHandler(inner)') /\ inner'.frozen = inner.frozen
    BY <2>1, SentFacts DEF OneHandler
  <2> QED
    BY <2>1, <2>2, OutsideStep DEF SignalsIInv
<1>5. ASSUME NEW s \in Sigs, SendSelf(s) \/ Fault(s) PROVE SignalsIInv'
  BY <1>5, SentFacts, CallStep DEF SendSelf, Fault
<1>6. ASSUME NEW mask \in Masks, sys_sigprocmask(mask) PROVE SignalsIInv'
  BY <1>6, MaskStep
<1>7. ASSUME NEW s \in Handled, NEW handler \in BOOLEAN, NEW mask \in Masks,
             sys_sigaction(s, handler, mask)
      PROVE  SignalsIInv'
  BY <1>7, ActionStep
<1> QED
  BY <1>1, <1>2, <1>3, <1>4, <1>5, <1>6, <1>7, SigreturnStep, ExecStep, ForkStep DEF Next

(***************************************************************************)
(* A process never runs in user mode with a fatal signal pending, whatever *)
(* it did with masks, handlers and exec: trap_handler asks check_error on  *)
(* every way back, after handle_signals.                                   *)
(***************************************************************************)
THEOREM NoFatalRuns == Spec => []NoFatalInUserMode
<1>1. SignalsIInv => NoFatalInUserMode
  BY DEF SignalsIInv
<1> QED
  BY <1>1, InitSignals, NextSignals, PTL DEF Spec

(***************************************************************************)
(* A process that was stopped does not run before it was continued, unless *)
(* SIGDEF marked it killed: handle_signals keeps it in its loop.           *)
(***************************************************************************)
THEOREM StoppedStays == Spec => []StoppedDoesNotRun
<1>1. SignalsIInv => StoppedDoesNotRun
  BY DEF SignalsIInv
<1> QED
  BY <1>1, InitSignals, NextSignals, PTL DEF Spec

(***************************************************************************)
(* The one trap_ctx_backup is enough for programs that block in every      *)
(* handler all they handle: sigreturn finds a context, and it is that of   *)
(* what the handler interrupted, over any signals, masks, exec and fork.   *)
(***************************************************************************)
THEOREM CarefulReturn == Spec => []CarefulHandlersReturn
<1>1. SignalsIInv => CarefulHandlersReturn
  BY DEF SignalsIInv, OneHandler, CarefulHandlersReturn, HandlerCanReturn, ReturnsToInterrupted,
         NoContext, NotHandling
<1> QED
  BY <1>1, InitSignals, NextSignals, PTL DEF Spec

-----------------------------------------------------------------------------
(***************************************************************************)
(* The shell.  The inductive invariant says what every table is at every   *)
(* place of every process: descriptors 0, 1 and 2, then the two ends of    *)
(* each pipe in turn, as alloc_fd gives the lowest free descriptor, without*)
(* those that are closed by then.                                          *)
(***************************************************************************)
(* How many pipes fit in the quota, and how many of the line's there are.  *)
Half == MAX_OPEN_PIPE_FDS \div 2
Got == IF Len(pipes_fd) <= Half THEN Len(pipes_fd) ELSE Half

(* How many of the line's pipes the shell has closed.                      *)
Shut ==
  IF pc[Sh] \in {"pipes", "fork"} THEN 0
  ELSE IF pc[Sh] = "close" THEN k - 1 ELSE Len(pipes_fd)

(* A table with the descriptors d, in and out on 0 and 1, and the ends of  *)
(* pipe j on 2j + 1 and 2j + 2.                                            *)
Laid(t, d, in, out) ==
  /\ t = [fd \in d |-> t[fd]]
  /\ 0 \in d => t[0] = in
  /\ 1 \in d => t[1] = out
  /\ 2 \in d => t[2] = Stdout
  /\ \A j \in Stages :
       /\ 2 * j + 1 \in d => t[2 * j + 1] = ReadEnd(j)
       /\ 2 * j + 2 \in d => t[2 * j + 2] = WriteEnd(j)

ShellFds ==
  {fd \in 0 .. 2 * Got + 2 : fd \notin 3 .. 2 * Shut + 2 /\ (Shut > Half => fd # 0)}

InAs(c) ==
  IF c > 1 /\ pc[c] \in {"stdout", "exec", "read", "write"} THEN ReadEnd(c - 1)
  ELSE IF pc[c] # "input" /\ line[c].input # "" THEN DiskFile ELSE Stdin

OutAs(c) ==
  IF c < Len(line) /\ pc[c] \in {"exec", "read", "write"} THEN WriteEnd(c)
  ELSE IF pc[c] \notin {"input", "output"} /\ line[c].output # "" THEN DiskFile ELSE Stdout

Running == {"input", "output", "stdin", "stdout", "exec", "read", "write"}

(* The children there are, by where the shell is.                          *)
Family(c) ==
  /\ c <= Len(line)
  /\ \/ pc[Sh] = "fork" /\ c < k
     \/ pc[Sh] = "close"
     \/ pc[Sh] = "wait" /\ c >= k

ShellType ==
  /\ pc \in [Procs -> {"prompt", "gone", "pipes", "fork", "close", "wait", "none", "zombie"} \cup Running]
  /\ fds = [p \in Procs |-> fds[p]]
  /\ pipes_fd \in Seq(Nat \X Nat)
  /\ k \in Nat /\ Len(pipes_fd) <= MaxStages
  /\ \A j \in 1 .. Len(pipes_fd) :
       pipes_fd[j] = IF j <= Half THEN <<2 * j + 1, 2 * j + 2>> ELSE <<0, 0>>
  /\ failed \in BOOLEAN /\ (failed <=> Len(pipes_fd) > Half)

ShellAt ==
  /\ pc[Sh] \in {"prompt", "gone", "pipes", "fork", "close", "wait"}
  /\ pc[Sh] \in {"pipes", "fork", "close", "wait"} => Len(line) \in Stages /\ k \in 1 .. Len(line) + 1
  /\ pc[Sh] = "pipes" => k = Len(pipes_fd) + 1 /\ k <= Len(line)
  /\ pc[Sh] \in {"fork", "close", "wait"} => Len(line) = Len(pipes_fd) + 1
  /\ pc[Sh] = "close" => k <= Len(line)
  /\ pc[Sh] = "gone" => Len(pipes_fd) = 0
  /\ Laid(fds[Sh], ShellFds, Stdin, Stdout)

ChildAt(c) ==
  /\ pc[c] \in Running => /\ Family(c)
                          /\ failed => pc[c] \in {"input", "output", "stdin"} \/ (c = 1 /\ pc[c] = "stdout")
                          /\ Laid(fds[c], IF pc[c] \in {"read", "write"} THEN 0 .. 2 ELSE 0 .. 2 * Got + 2,
                                  InAs(c), OutAs(c))
  /\ pc[c] \in Running \cup {"none", "zombie"}
  /\ pc[c] \notin Running => fds[c] = NoFds
  /\ ~Family(c) => pc[c] = "none"

ShellIInv == ShellType /\ ShellAt /\ \A c \in Stages : ChildAt(c)

-----------------------------------------------------------------------------
(* The quota in pipes.                                                     *)
LEMMA QuotaFacts ==
  /\ Half \in Nat /\ Half >= 1 /\ MAX_OPEN_PIPE_FDS = 2 * Half
  /\ 2 * Half + 3 <= MAX_OPEN_FILES /\ MAX_OPEN_FILES \in Nat /\ MaxStages \in Nat
BY QuotaAssumption, ShellAssumption DEF Half

(* The kinds of descriptors are told apart.                                *)
LEMMA Kinds ==
  /\ Stdin \notin Ends /\ Stdout \notin Ends /\ DiskFile \notin Ends
  /\ \A j \in Stages : ReadEnd(j) \in Ends /\ WriteEnd(j) \in Ends
BY DEF Stdin, Stdout, DiskFile, Ends, ReadEnd, WriteEnd

(* alloc_fd of a table without a gap, and of one with a gap at 0 or 1.     *)
LEMMA AllocTop ==
  ASSUME NEW t, NEW n \in Nat, DOMAIN t = 0 .. n
  PROVE  alloc_fd(t) = n + 1 /\ Cardinality(DOMAIN t) = n + 1
<1>1. Cardinality(0 .. n) = n + 1
  BY FS_Interval
<1>2. (0 .. Cardinality(DOMAIN t)) \ DOMAIN t = {n + 1}
  BY <1>1
<1> QED
  BY <1>1, <1>2 DEF alloc_fd, Min

LEMMA AllocHole ==
  ASSUME NEW t, NEW n \in Nat, n >= 2, NEW f \in {0, 1}, DOMAIN t = (0 .. n) \ {f}
  PROVE  alloc_fd(t) = f /\ Cardinality(DOMAIN t) = n
<1>1. Cardinality(0 .. n) = n + 1 /\ IsFiniteSet(0 .. n)
  BY FS_Interval
<1> DEFINE d == 0 .. n
<1>a. f \in d /\ IsFiniteSet(d)
  BY <1>1
<1> HIDE DEF d
<1>b. Cardinality(d \ {f}) = Cardinality(d) - 1
  BY <1>a, FS_RemoveElement
<1>2. Cardinality(DOMAIN t) = n
  BY <1>1, <1>b DEF d
<1>3. (0 .. Cardinality(DOMAIN t)) \ DOMAIN t = {f}
  BY <1>2
<1> QED
  BY <1>2, <1>3 DEF alloc_fd, Min

(* Of a table with m pipes, before an end has been moved, the descriptors  *)
(* of pipes are the 2m above 2.                                            *)
LEMMA PipeCount ==
  ASSUME NEW t, NEW d, NEW m \in 0 .. MaxStages, NEW in, NEW out, Laid(t, d, in, out),
         d \subseteq 0 .. 2 * m + 2, 3 .. 2 * m + 2 \subseteq d,
         0 \in d => in \notin Ends, 1 \in d => out \notin Ends
  PROVE  Cardinality(PipeFds(t)) = 2 * m
<1>0. m \in Nat /\ MaxStages \in Nat /\ \A j \in 1 .. m : j \in Stages
  BY QuotaFacts DEF Stages
<1>1. DOMAIN t = d /\ (0 \in d => t[0] \notin Ends) /\ (1 \in d => t[1] \notin Ends)
      /\ (2 \in d => t[2] \notin Ends)
  BY Kinds DEF Laid
<1>2. ASSUME NEW fd \in 3 .. 2 * m + 2 PROVE t[fd] \in Ends
  <2>1. PICK j \in 1 .. m : fd = 2 * j + 1 \/ fd = 2 * j + 2
    <3> DEFINE i == (fd - 1) \div 2
    <3>1. i \in 1 .. m /\ (fd = 2 * i + 1 \/ fd = 2 * i + 2)
      BY <1>0
    <3> QED
      BY <3>1
  <2>2. j \in Stages /\ fd \in d
    BY <1>0
  <2>3. t[fd] = ReadEnd(j) \/ t[fd] = WriteEnd(j)
    BY <2>1, <2>2 DEF Laid
  <2> QED
    BY <2>2, <2>3, Kinds
<1>3. ASSUME NEW fd \in d, fd \notin 3 .. 2 * m + 2 PROVE t[fd] \notin Ends
  <2>1. fd \in {0, 1, 2}
    BY <1>0, <1>3
  <2> QED
    BY <1>1, <2>1
<1>4. PipeFds(t) = 3 .. 2 * m + 2
  BY <1>1, <1>2, <1>3, Zenon DEF PipeFds
<1>5. Cardinality(3 .. 2 * m + 2) = 2 * m
  BY <1>0, FS_Interval
<1> QED
  BY <1>4, <1>5

(* close(f), and a dup that takes its place.                               *)
LEMMA Replaced ==
  ASSUME NEW t, NEW m \in Nat, NEW in, NEW out, Laid(t, 0 .. 2 * m + 2, in, out),
         NEW f \in {0, 1}, NEW o
  PROVE  /\ alloc_fd(Closed(t, f)) = f
         /\ DOMAIN Closed(t, f) = (0 .. 2 * m + 2) \ {f}
         /\ Cardinality(DOMAIN Closed(t, f)) = 2 * m + 2
         /\ Laid(Closed(t, f), (0 .. 2 * m + 2) \ {f}, in, out)
         /\ f = 0 => Laid(Install(Closed(t, f), o), 0 .. 2 * m + 2, o, out)
         /\ f = 1 => Laid(Install(Closed(t, f), o), 0 .. 2 * m + 2, in, o)
<1> DEFINE u == Closed(t, f)
           v == Install(u, o)
           d == 0 .. 2 * m + 2
<1>1. /\ DOMAIN u = d \ {f} /\ u = [fd \in d \ {f} |-> u[fd]] /\ \A fd \in d \ {f} : u[fd] = t[fd]
  BY DEF Laid, Closed
<1>2. alloc_fd(u) = f /\ Cardinality(DOMAIN u) = 2 * m + 2
  <2> HIDE DEF u
  <2>1. DOMAIN u = (0 .. (2 * m + 2)) \ {f} /\ 2 * m + 2 \in Nat /\ 2 * m + 2 >= 2
    BY <1>1
  <2> QED
    BY <2>1, AllocHole, Zenon
<1>3. f \in d
  OBVIOUS
<1>4. /\ v = [fd \in d |-> v[fd]] /\ v[f] = o /\ \A fd \in d \ {f} : v[fd] = t[fd]
  <2> HIDE DEF u, d
  <2>1. v = [fd \in d |-> IF fd \in DOMAIN u THEN u[fd] ELSE o]
    BY <1>1, <1>2, <1>3 DEF Install
  <2> QED
    BY <1>1, <1>3, <2>1, Zenon
<1>5. Laid(u, d \ {f}, in, out)
  <2> HIDE DEF u, d
  <2> QED
    BY <1>1, Zenon DEF Laid, d
<1>6. \A j \in Stages : 2 * j + 1 # f /\ 2 * j + 2 # f
  BY DEF Stages
<1>a. /\ 0 \in d /\ 1 \in d /\ 2 \in d
      /\ t[0] = in /\ t[1] = out /\ t[2] = Stdout
      /\ \A j \in Stages : /\ 2 * j + 1 \in d => t[2 * j + 1] = ReadEnd(j)
                           /\ 2 * j + 2 \in d => t[2 * j + 2] = WriteEnd(j)
  BY DEF Laid
<1>b. \A j \in Stages : /\ 2 * j + 1 \in d => v[2 * j + 1] = ReadEnd(j)
                        /\ 2 * j + 2 \in d => v[2 * j + 2] = WriteEnd(j)
  <2> HIDE DEF v, d
  <2> QED
    BY <1>4, <1>6, <1>a
<1>c. v[2] = Stdout /\ (f = 0 => v[1] = out) /\ (f = 1 => v[0] = in)
  <2> HIDE DEF v, d
  <2> QED
    BY <1>4, <1>a
<1>7. f = 0 => Laid(v, d, o, out)
  <2> HIDE DEF v, d
  <2> QED
    BY <1>4, <1>b, <1>c DEF Laid
<1>8. f = 1 => Laid(v, d, in, o)
  <2> HIDE DEF v, d
  <2> QED
    BY <1>4, <1>b, <1>c DEF Laid
<1> QED
  BY <1>1, <1>2, <1>5, <1>7, <1>8

(* open(), close(f), dup() and close() of what was opened.                 *)
LEMMA RedirectedTable ==
  ASSUME NEW t, NEW m \in Nat, NEW in, NEW out, Laid(t, 0 .. 2 * m + 2, in, out),
         NEW f \in {0, 1}, NEW u,
         u = Closed(Install(Closed(Install(t, DiskFile), f), DiskFile), alloc_fd(t))
  PROVE  /\ f = 0 => Laid(u, 0 .. 2 * m + 2, DiskFile, out)
         /\ f = 1 => Laid(u, 0 .. 2 * m + 2, in, DiskFile)
<1> DEFINE n == 2 * m + 2
           opened == Install(t, DiskFile)
           dupped == Install(Closed(opened, f), DiskFile)
<1>0. n \in Nat /\ n >= 2 /\ f \in 0 .. n
  OBVIOUS
<1>1. DOMAIN t = 0 .. n /\ Laid(t, 0 .. n, in, out)
  BY DEF Laid
<1> HIDE DEF n
<1>2. alloc_fd(t) = n + 1
  BY <1>0, <1>1, AllocTop
<1>3. DOMAIN opened = 0 .. n + 1 /\ \A fd \in 0 .. n : opened[fd] = t[fd]
  BY <1>0, <1>1, <1>2 DEF Install
<1> HIDE DEF opened
<1>4. DOMAIN Closed(opened, f) = (0 .. n + 1) \ {f} /\ \A fd \in (0 .. n) \ {f} : Closed(opened, f)[fd] = t[fd]
  BY <1>0, <1>3 DEF Closed
<1>5. alloc_fd(Closed(opened, f)) = f
  <2>1. n + 1 \in Nat /\ n + 1 >= 2
    BY <1>0
  <2> QED
    BY <1>4, <2>1, AllocHole, Zenon
<1>6. DOMAIN dupped = 0 .. n + 1 /\ dupped[f] = DiskFile /\ \A fd \in (0 .. n) \ {f} : dupped[fd] = t[fd]
  BY <1>0, <1>4, <1>5 DEF Install
<1> HIDE DEF dupped
<1>7. u = [fd \in 0 .. n |-> dupped[fd]]
  <2>1. u = Closed(dupped, n + 1)
    BY <1>2 DEF dupped, opened
  <2>2. (0 .. n + 1) \ {n + 1} = 0 .. n
    BY <1>0
  <2> QED
    BY <1>6, <2>1, <2>2, Zenon DEF Closed
<1>8. u = [fd \in 0 .. n |-> u[fd]] /\ u[f] = DiskFile /\ \A fd \in (0 .. n) \ {f} : u[fd] = t[fd]
  BY <1>0, <1>6, <1>7
<1>9. \A j \in Stages : 2 * j + 1 # f /\ 2 * j + 2 # f
  BY DEF Stages
<1>10. /\ 0 \in 0 .. n /\ 1 \in 0 .. n /\ 2 \in 0 .. n
       /\ t[0] = in /\ t[1] = out /\ t[2] = Stdout
       /\ \A j \in Stages : /\ 2 * j + 1 \in 0 .. n => t[2 * j + 1] = ReadEnd(j)
                            /\ 2 * j + 2 \in 0 .. n => t[2 * j + 2] = WriteEnd(j)
  BY <1>0, <1>1 DEF Laid
<1>11. \A j \in Stages : /\ 2 * j + 1 \in 0 .. n => u[2 * j + 1] = ReadEnd(j)
                         /\ 2 * j + 2 \in 0 .. n => u[2 * j + 2] = WriteEnd(j)
  BY <1>8, <1>9, <1>10, Zenon
<1>12. u[2] = Stdout /\ (f = 0 => u[0] = DiskFile /\ u[1] = out) /\ (f = 1 => u[0] = in /\ u[1] = DiskFile)
  BY <1>8, <1>10
<1>13. /\ f = 0 => Laid(u, 0 .. n, DiskFile, out)
       /\ f = 1 => Laid(u, 0 .. n, in, DiskFile)
  BY <1>8, <1>11, <1>12, Zenon DEF Laid
<1> QED
  BY <1>13 DEF n

-----------------------------------------------------------------------------
(* How many of the line's pipes there are, by whether a pipe() has failed. *)
LEMMA GotFacts ==
  ASSUME ShellType
  PROVE  /\ Got \in 0 .. MaxStages /\ Got \in Nat /\ Len(pipes_fd) \in Nat /\ Got <= Half /\ Got <= Len(pipes_fd)
         /\ failed => Got = Half
         /\ ~failed => Got = Len(pipes_fd)
<1>1. Len(pipes_fd) \in Nat /\ Len(pipes_fd) <= MaxStages /\ failed \in BOOLEAN /\ (failed <=> Len(pipes_fd) > Half)
  BY DEF ShellType
<1> QED
  BY <1>1, QuotaFacts DEF Got

(* The shell is none of the stages.                                        *)
LEMMA Places0 ==
  /\ Sh \in Procs /\ Stages \subseteq Procs /\ Sh \notin Stages /\ Stages \subseteq Nat \ {0}
BY QuotaFacts DEF Sh, Stages, Procs

(* What the invariant says of a child that runs.                           *)
LEMMA ChildFacts ==
  ASSUME ShellIInv, NEW c \in Stages, pc[c] \in Running
  PROVE  /\ Len(line) = Len(pipes_fd) + 1 /\ c <= Len(line) /\ c \in Nat \ {0}
         /\ Laid(fds[c], IF pc[c] \in {"read", "write"} THEN 0 .. 2 ELSE 0 .. 2 * Got + 2, InAs(c), OutAs(c))
         /\ failed => pc[c] \in {"input", "output", "stdin"} \/ (c = 1 /\ pc[c] = "stdout")
<1>1. ChildAt(c) /\ ShellAt
  BY DEF ShellIInv
<1>2. Family(c)
  BY <1>1 DEF ChildAt
<1> QED
  BY <1>1, <1>2, Places0 DEF ChildAt, ShellAt, Family

(* A child that goes on, or ends, leaves the others and the shell alone.   *)
LEMMA ChildMoves ==
  ASSUME ShellIInv, NEW c \in Stages, pc[c] \in Running, NEW t, NEW x \in Running \cup {"zombie"},
         pc' = [pc EXCEPT ![c] = x], fds' = [fds EXCEPT ![c] = t],
         UNCHANGED <<line, pipes_fd, k, failed>>,
         x = "zombie" => t = NoFds,
         x \in Running =>
           /\ failed => x \in {"input", "output", "stdin"} \/ (c = 1 /\ x = "stdout")
           /\ Laid(t, IF x \in {"read", "write"} THEN 0 .. 2 ELSE 0 .. 2 * Got + 2, InAs(c)', OutAs(c)')
  PROVE  ShellIInv'
<1>1. /\ pc \in [Procs -> {"prompt", "gone", "pipes", "fork", "close", "wait", "none", "zombie"} \cup Running]
      /\ fds = [p \in Procs |-> fds[p]] /\ ShellType /\ ShellAt
      /\ Sh \in Procs /\ c \in Procs /\ c # Sh
  BY Places0, Zenon DEF ShellIInv, ShellType
<1>2. /\ pc'[c] = x /\ fds'[c] = t
      /\ \A p \in Procs \ {c} : pc'[p] = pc[p] /\ fds'[p] = fds[p]
      /\ pc' \in [Procs -> {"prompt", "gone", "pipes", "fork", "close", "wait", "none", "zombie"} \cup Running]
      /\ fds' = [p \in Procs |-> fds'[p]]
  BY <1>1
<1>3. pc'[Sh] = pc[Sh] /\ fds'[Sh] = fds[Sh] /\ line' = line /\ pipes_fd' = pipes_fd /\ k' = k /\ failed' = failed
  BY <1>1, <1>2
<1>4. Got' = Got /\ Shut' = Shut /\ ShellFds' = ShellFds
  BY <1>3 DEF Got, Shut, ShellFds
<1>5. ShellType'
  <2>1. /\ pipes_fd \in Seq(Nat \X Nat) /\ k \in Nat /\ Len(pipes_fd) <= MaxStages
        /\ \A j \in 1 .. Len(pipes_fd) :
             pipes_fd[j] = IF j <= Half THEN <<2 * j + 1, 2 * j + 2>> ELSE <<0, 0>>
        /\ failed \in BOOLEAN /\ (failed <=> Len(pipes_fd) > Half)
    BY <1>1, Zenon DEF ShellType
  <2>2. k' \in Nat /\ failed' \in BOOLEAN /\ (failed' <=> Len(pipes_fd') > Half)
    BY <1>3, <2>1
  <2>3. /\ pipes_fd' \in Seq(Nat \X Nat) /\ Len(pipes_fd') <= MaxStages
        /\ \A j \in 1 .. Len(pipes_fd') :
             pipes_fd'[j] = IF j <= Half THEN <<2 * j + 1, 2 * j + 2>> ELSE <<0, 0>>
    BY <1>3, <2>1
  <2> QED
    BY <1>2, <2>2, <2>3, Zenon DEF ShellType
<1>6. ShellAt'
  BY <1>1, <1>3, <1>4 DEF ShellAt
<1>7. ASSUME NEW e \in Stages PROVE ChildAt(e)'
  <2>1. ChildAt(e) /\ (Family(e)' <=> Family(e))
    BY <1>3 DEF ShellIInv, Family
  <2>2. CASE e # c
    <3>1. pc'[e] = pc[e] /\ fds'[e] = fds[e]
      BY <1>2, <2>2, Places0
    <3>2. InAs(e)' = InAs(e) /\ OutAs(e)' = OutAs(e)
      BY <1>3, <3>1, Zenon DEF InAs, OutAs
    <3> QED
      BY <1>3, <1>4, <2>1, <3>1, <3>2 DEF ChildAt
  <2>3. CASE e = c
    <3>1. Family(c)'
      BY <2>1, <2>3 DEF ChildAt
    <3>2. pc[c]' = x /\ fds[c]' = t
      BY <1>2
    <3>3. CASE x \in Running
      <4>1. x # "none" /\ x # "zombie"
        BY <3>3 DEF Running
      <4> QED
        <5>1. /\ failed' => x \in {"input", "output", "stdin"} \/ (c = 1 /\ x = "stdout")
              /\ Laid(t, IF x \in {"read", "write"} THEN 0 .. 2 ELSE 0 .. 2 * Got' + 2, InAs(c)', OutAs(c)')
          BY <1>3, <1>4, <3>3
        <5>2. ChildAt(c)'
          BY <3>1, <3>2, <3>3, <5>1 DEF ChildAt
        <5> QED
          BY <2>3, <5>2
    <3>4. CASE x \notin Running
      BY <2>3, <3>1, <3>2, <3>4 DEF ChildAt
    <3> QED
      BY <3>3, <3>4
  <2> QED
    BY <2>2, <2>3
<1> QED
  BY <1>5, <1>6, <1>7 DEF ShellIInv

(* A child that exits.                                                     *)
LEMMA ChildEnds ==
  ASSUME ShellIInv, NEW c \in Stages, pc[c] \in Running, Over(c),
         UNCHANGED <<line, pipes_fd, k, failed>>
  PROVE  ShellIInv'
<1>1. pc' = [pc EXCEPT ![c] = "zombie"] /\ fds' = [fds EXCEPT ![c] = NoFds]
  BY DEF Over
<1>2. "zombie" \notin Running
  BY DEF Running
<1> QED
  BY <1>1, <1>2, ChildMoves, Zenon

-----------------------------------------------------------------------------
(***************************************************************************)
(* The steps of a child.                                                   *)
(***************************************************************************)
(* The steps of a child, one by one.                                       *)
LEMMA RedirectInputStep ==
  ASSUME ShellIInv, NEW c \in Stages, RedirectInput(c)
  PROVE  ShellIInv'
<1>1. pc[c] = "input" /\ UNCHANGED <<line, pipes_fd, k, failed>> /\ pc[c] \in Running
  BY Zenon DEF RedirectInput, Running
<1>2. /\ Laid(fds[c], 0 .. 2 * Got + 2, Stdin, Stdout) /\ Got \in Nat
      /\ pc \in [Procs -> {"prompt", "gone", "pipes", "fork", "close", "wait", "none", "zombie"} \cup Running]
      /\ c \in Procs
  BY <1>1, ChildFacts, GotFacts, Places0, Zenon DEF InAs, OutAs, ShellIInv, ShellType
<1>3. \A x : pc' = [pc EXCEPT ![c] = x] => pc'[c] = x
  BY <1>2
<1>4. CASE line[c].input = ""
  <2>1. pc' = [pc EXCEPT ![c] = "output"] /\ fds' = [fds EXCEPT ![c] = fds[c]]
    BY <1>4, Zenon DEF RedirectInput, Proceed
  <2>2. InAs(c)' = Stdin /\ OutAs(c)' = Stdout
    BY <1>1, <1>3, <1>4, <2>1, Zenon DEF InAs, OutAs
  <2>3. "output" \in Running
    BY DEF Running
  <2> QED
    BY <1>1, <1>2, <2>1, <2>2, <2>3, ChildMoves, Zenon
<1>5. CASE line[c].input # ""
  <2> DEFINE u == Closed(Install(Closed(Install(fds[c], DiskFile), 0), DiskFile), alloc_fd(fds[c]))
  <2>1. Redirected(c, 0, line[c].input \in Files, "output")
    BY <1>5, Zenon DEF RedirectInput
  <2>2. \/ pc' = [pc EXCEPT ![c] = "output"] /\ fds' = [fds EXCEPT ![c] = u]
        \/ Over(c)
    BY <2>1 DEF Redirected, Proceed
  <2>3. Laid(u, 0 .. 2 * Got + 2, DiskFile, Stdout)
    BY <1>2, RedirectedTable
  <2> HIDE DEF u
  <2>4. CASE pc' = [pc EXCEPT ![c] = "output"] /\ fds' = [fds EXCEPT ![c] = u]
    <3>1. InAs(c)' = DiskFile /\ OutAs(c)' = Stdout
      BY <1>1, <1>3, <1>5, <2>4, Zenon DEF InAs, OutAs
    <3>2. "output" \in Running
      BY DEF Running
    <3> QED
      BY <1>1, <2>3, <2>4, <3>1, <3>2, ChildMoves, Zenon
  <2>5. CASE Over(c)
    BY <1>1, <2>5, ChildEnds
  <2> QED
    BY <2>2, <2>4, <2>5
<1> QED
  BY <1>4, <1>5, Zenon

LEMMA RedirectOutputStep ==
  ASSUME ShellIInv, NEW c \in Stages, RedirectOutput(c)
  PROVE  ShellIInv'
<1>1. pc[c] = "output" /\ UNCHANGED <<line, pipes_fd, k, failed>> /\ pc[c] \in Running
  BY Zenon DEF RedirectOutput, Running
<1>2. /\ Laid(fds[c], 0 .. 2 * Got + 2, InAs(c), Stdout) /\ Got \in Nat
      /\ pc \in [Procs -> {"prompt", "gone", "pipes", "fork", "close", "wait", "none", "zombie"} \cup Running]
      /\ c \in Procs
  BY <1>1, ChildFacts, GotFacts, Places0, Zenon DEF InAs, OutAs, ShellIInv, ShellType
<1>3. \A x : pc' = [pc EXCEPT ![c] = x] => pc'[c] = x
  BY <1>2
<1>4. CASE line[c].output = ""
  <2>1. pc' = [pc EXCEPT ![c] = "stdin"] /\ fds' = [fds EXCEPT ![c] = fds[c]]
    BY <1>4, Zenon DEF RedirectOutput, Proceed
  <2>2. InAs(c)' = InAs(c) /\ OutAs(c)' = Stdout
    BY <1>1, <1>3, <1>4, <2>1, Zenon DEF InAs, OutAs
  <2>3. "stdin" \in Running
    BY DEF Running
  <2> QED
    BY <1>1, <1>2, <2>1, <2>2, <2>3, ChildMoves, Zenon
<1>5. CASE line[c].output # ""
  <2> DEFINE u == Closed(Install(Closed(Install(fds[c], DiskFile), 1), DiskFile), alloc_fd(fds[c]))
  <2>1. Redirected(c, 1, TRUE, "stdin")
    BY <1>5, Zenon DEF RedirectOutput
  <2>2. \/ pc' = [pc EXCEPT ![c] = "stdin"] /\ fds' = [fds EXCEPT ![c] = u]
        \/ Over(c)
    BY <2>1 DEF Redirected, Proceed
  <2>3. Laid(u, 0 .. 2 * Got + 2, InAs(c), DiskFile)
    BY <1>2, RedirectedTable
  <2> HIDE DEF u
  <2>4. CASE pc' = [pc EXCEPT ![c] = "stdin"] /\ fds' = [fds EXCEPT ![c] = u]
    <3>1. InAs(c)' = InAs(c) /\ OutAs(c)' = DiskFile
      BY <1>1, <1>3, <1>5, <2>4, Zenon DEF InAs, OutAs
    <3>2. "stdin" \in Running
      BY DEF Running
    <3> QED
      BY <1>1, <2>3, <2>4, <3>1, <3>2, ChildMoves, Zenon
  <2>5. CASE Over(c)
    BY <1>1, <2>5, ChildEnds
  <2> QED
    BY <2>2, <2>4, <2>5
<1> QED
  BY <1>4, <1>5, Zenon

(* A dup of a pipe's end over 0 or 1: past the quota it fails, and else it *)
(* yields the end asked for.                                               *)
LEMMA MovedFacts ==
  ASSUME ShellIInv, NEW c \in Stages, pc[c] \in {"stdin", "stdout"},
         NEW f \in {0, 1}, NEW j \in 1 .. Len(pipes_fd), NEW i \in {1, 2}
  PROVE  /\ failed /\ (f = 0 \/ j <= Half) => ~dup_ok(Closed(fds[c], f), pipes_fd[j][i])
         /\ ~failed => Closed(fds[c], f)[pipes_fd[j][i]] = IF i = 1 THEN ReadEnd(j) ELSE WriteEnd(j)
<1> DEFINE t == Closed(fds[c], f)
           d == (0 .. 2 * Got + 2) \ {f}
           e == pipes_fd[j][i]
           o == IF i = 1 THEN ReadEnd(j) ELSE WriteEnd(j)
<1>1. /\ Laid(fds[c], 0 .. 2 * Got + 2, InAs(c), OutAs(c)) /\ Got \in Nat /\ Got \in 0 .. MaxStages
      /\ c \in Nat \ {0} /\ (failed => pc[c] = "stdin" \/ c = 1)
      /\ (failed => Got = Half) /\ (~failed => Got = Len(pipes_fd)) /\ Got <= Half
      /\ j \in Stages /\ j \in Nat /\ Len(pipes_fd) \in Nat
  <2>1. pc[c] \in Running /\ pc[c] \notin {"read", "write", "input", "output"}
    BY DEF Running
  <2>2. ShellType /\ Len(pipes_fd) <= MaxStages /\ MaxStages \in Nat
    BY QuotaFacts, Zenon DEF ShellIInv, ShellType
  <2>3. Len(pipes_fd) \in Nat
    BY <2>2, GotFacts
  <2>4. j \in Stages /\ j \in Nat
    BY <2>2, <2>3 DEF Stages
  <2> QED
    BY <2>1, <2>2, <2>3, <2>4, ChildFacts, GotFacts
<1>2. DOMAIN t = d /\ Laid(t, d, InAs(c), OutAs(c))
  BY <1>1, Replaced, Zenon
<1>3. e = IF j <= Half THEN 2 * j + i ELSE 0
  <2>1. pipes_fd[j] = IF j <= Half THEN <<2 * j + 1, 2 * j + 2>> ELSE <<0, 0>>
    BY Zenon DEF ShellIInv, ShellType
  <2> QED
    BY <2>1
<1>4. Half \in Nat /\ MAX_OPEN_PIPE_FDS = 2 * Half
  BY QuotaFacts
<1> HIDE DEF t, e
<1>5. ASSUME j <= Half PROVE j <= Got /\ e \in d /\ t[e] = o
  <2>1. j <= Got
    BY <1>1, <1>5
  <2>2. e = 2 * j + i /\ e \in d
    BY <1>1, <1>3, <1>5, <2>1
  <2> QED
    BY <1>1, <1>2, <2>1, <2>2, Zenon DEF Laid
<1>6. ASSUME failed, f = 0 \/ j <= Half PROVE ~dup_ok(t, e)
  <2>1. CASE j > Half
    <3>1. e = 0 /\ 0 \notin d
      BY <1>1, <1>3, <1>4, <1>6, <2>1
    <3> QED
      BY <1>2, <3>1 DEF dup_ok
  <2>2. CASE j <= Half
    <3>1. InAs(c) \notin Ends /\ OutAs(c) \notin Ends
      <4>1. ~(c > 1 /\ pc[c] \in {"stdout", "exec", "read", "write"}) /\ pc[c] \notin {"exec", "read", "write"}
        BY <1>1, <1>6
      <4>2. InAs(c) \in {DiskFile, Stdin} /\ OutAs(c) \in {DiskFile, Stdout}
        BY <4>1, Zenon DEF InAs, OutAs
      <4> QED
        BY <4>2, Kinds
    <3>2. d \subseteq 0 .. 2 * Got + 2 /\ 3 .. 2 * Got + 2 \subseteq d
      OBVIOUS
    <3>3. Cardinality(PipeFds(t)) = 2 * Got
      <4> HIDE DEF d
      <4> QED
        BY <1>1, <1>2, <3>1, <3>2, PipeCount, ZenonT(40)
    <3>4. o \in Ends
      BY <1>1, Kinds
    <3>5. ~Reservable(t, 1, 1)
      BY <1>1, <1>4, <1>6, <3>3 DEF Reservable
    <3> QED
      BY <1>5, <2>2, <3>4, <3>5 DEF dup_ok
  <2> QED
    BY <1>1, <1>4, <2>1, <2>2
<1>7. ASSUME ~failed PROVE t[e] = o
  BY <1>1, <1>4, <1>5, <1>7
<1> QED
  BY <1>6, <1>7 DEF t, e

LEMMA TakeStdinStep ==
  ASSUME ShellIInv, NEW c \in Stages, TakeStdin(c)
  PROVE  ShellIInv'
<1>1. pc[c] = "stdin" /\ UNCHANGED <<line, pipes_fd, k, failed>> /\ pc[c] \in Running
  BY DEF TakeStdin, Running
<1>2. /\ Laid(fds[c], 0 .. 2 * Got + 2, InAs(c), OutAs(c)) /\ Got \in Nat
      /\ Len(line) = Len(pipes_fd) + 1 /\ c <= Len(line) /\ c \in Nat \ {0} /\ Len(pipes_fd) \in Nat
  BY <1>1, ChildFacts, GotFacts DEF ShellIInv
<1>3. \A x : pc' = [pc EXCEPT ![c] = x] => pc'[c] = x
  BY Places0 DEF ShellIInv, ShellType
<1>4. "stdout" \in Running
  BY DEF Running
<1>5. CASE c = 1
  <2>1. pc' = [pc EXCEPT ![c] = "stdout"] /\ fds' = [fds EXCEPT ![c] = fds[c]]
    BY <1>5 DEF TakeStdin, Proceed
  <2>a. ~(c > 1)
    BY <1>5
  <2>b. pc'[c] = "stdout" /\ line' = line
    BY <1>1, <1>3, <2>1, Zenon
  <2>2. InAs(c)' = InAs(c) /\ OutAs(c)' = OutAs(c)
    BY <1>1, <2>a, <2>b DEF InAs, OutAs
  <2> QED
    BY <1>1, <1>2, <1>4, <1>5, <2>1, <2>2, ChildMoves, ZenonT(40)
<1>6. CASE c # 1
  <2> DEFINE t == Closed(fds[c], 0)
             e == pipes_fd[c - 1][1]
  <2>1. c - 1 \in 1 .. Len(pipes_fd)
    BY <1>2, <1>6
  <2>2. /\ failed => ~dup_ok(t, e)
        /\ ~failed => t[e] = ReadEnd(c - 1)
    BY <1>1, <2>1, MovedFacts
  <2>3. IF dup_ok(t, e) /\ alloc_fd(t) = 0
        THEN pc' = [pc EXCEPT ![c] = "stdout"] /\ fds' = [fds EXCEPT ![c] = Install(t, t[e])]
        ELSE Over(c)
    BY <1>6 DEF TakeStdin, Moved, Proceed
  <2>4. Laid(Install(t, ReadEnd(c - 1)), 0 .. 2 * Got + 2, ReadEnd(c - 1), OutAs(c))
    <3> DEFINE o == ReadEnd(c - 1)
    <3>1. Laid(fds[c], 0 .. 2 * Got + 2, InAs(c), OutAs(c)) /\ Got \in Nat
      BY <1>2, Zenon
    <3> HIDE DEF o
    <3>2. 0 = 0 => Laid(Install(Closed(fds[c], 0), o), 0 .. 2 * Got + 2, o, OutAs(c))
      BY <3>1, Replaced, Zenon
    <3> QED
      BY <3>2, Zenon DEF o
  <2> HIDE DEF t, e
  <2>5. CASE dup_ok(t, e) /\ alloc_fd(t) = 0
    <3>1. ~failed /\ pc' = [pc EXCEPT ![c] = "stdout"]
          /\ fds' = [fds EXCEPT ![c] = Install(t, ReadEnd(c - 1))]
      BY <2>2, <2>3, <2>5
    <3>2. c > 1
      BY <1>2, <1>6
    <3>3. InAs(c)' = ReadEnd(c - 1) /\ OutAs(c)' = OutAs(c)
      BY <1>1, <1>3, <3>1, <3>2, Zenon DEF InAs, OutAs
    <3> QED
      BY <1>1, <1>4, <2>4, <3>1, <3>3, ChildMoves, Zenon
  <2>6. CASE ~(dup_ok(t, e) /\ alloc_fd(t) = 0)
    BY <1>1, <2>3, <2>6, ChildEnds
  <2> QED
    BY <2>5, <2>6
<1> QED
  BY <1>5, <1>6

LEMMA TakeStdoutStep ==
  ASSUME ShellIInv, NEW c \in Stages, TakeStdout(c)
  PROVE  ShellIInv'
<1>1. pc[c] = "stdout" /\ UNCHANGED <<line, pipes_fd, k, failed>> /\ pc[c] \in Running
  BY DEF TakeStdout, Running
<1>2. /\ Laid(fds[c], 0 .. 2 * Got + 2, InAs(c), OutAs(c)) /\ Got \in Nat
      /\ Len(line) = Len(pipes_fd) + 1 /\ c <= Len(line) /\ c \in Nat \ {0} /\ Len(pipes_fd) \in Nat
      /\ (failed => c = 1 /\ Len(pipes_fd) > Half) /\ Half \in Nat /\ Half >= 1
  BY <1>1, ChildFacts, GotFacts, QuotaFacts, Zenon DEF ShellIInv, ShellType
<1>3. \A x : pc' = [pc EXCEPT ![c] = x] => pc'[c] = x
  BY Places0 DEF ShellIInv, ShellType
<1>4. "exec" \in Running
  BY DEF Running
<1>5. CASE c = Len(line)
  <2>1. pc' = [pc EXCEPT ![c] = "exec"] /\ fds' = [fds EXCEPT ![c] = fds[c]]
    BY <1>5 DEF TakeStdout, Proceed
  <2>a. ~(c < Len(line))
    BY <1>2, <1>5
  <2>b. pc'[c] = "exec" /\ line' = line
    BY <1>1, <1>3, <2>1, Zenon
  <2>2. InAs(c)' = InAs(c) /\ OutAs(c)' = OutAs(c)
    BY <1>1, <2>a, <2>b DEF InAs, OutAs
  <2>3. ~failed
    BY <1>2, <1>5
  <2> QED
    BY <1>1, <1>2, <1>4, <2>1, <2>2, <2>3, ChildMoves, Zenon
<1>6. CASE c # Len(line)
  <2> DEFINE t == Closed(fds[c], 1)
             e == pipes_fd[c][2]
  <2>1. c \in 1 .. Len(pipes_fd) /\ (failed => c <= Half)
    BY <1>2, <1>6
  <2>2. /\ failed => ~dup_ok(t, e)
        /\ ~failed => t[e] = WriteEnd(c)
    BY <1>1, <2>1, MovedFacts
  <2>3. IF dup_ok(t, e) /\ alloc_fd(t) = 1
        THEN pc' = [pc EXCEPT ![c] = "exec"] /\ fds' = [fds EXCEPT ![c] = Install(t, t[e])]
        ELSE Over(c)
    BY <1>6 DEF TakeStdout, Moved, Proceed
  <2>4. Laid(Install(t, WriteEnd(c)), 0 .. 2 * Got + 2, InAs(c), WriteEnd(c))
    <3> DEFINE o == WriteEnd(c)
    <3>1. Laid(fds[c], 0 .. 2 * Got + 2, InAs(c), OutAs(c)) /\ Got \in Nat
      BY <1>2, Zenon
    <3> HIDE DEF o
    <3>2. 1 = 1 => Laid(Install(Closed(fds[c], 1), o), 0 .. 2 * Got + 2, InAs(c), o)
      BY <3>1, Replaced, Zenon
    <3> QED
      BY <3>2, Zenon DEF o
  <2> HIDE DEF t, e
  <2>5. CASE dup_ok(t, e) /\ alloc_fd(t) = 1
    <3>1. ~failed /\ pc' = [pc EXCEPT ![c] = "exec"]
          /\ fds' = [fds EXCEPT ![c] = Install(t, WriteEnd(c))]
      BY <2>2, <2>3, <2>5
    <3>2. c < Len(line)
      BY <1>2, <1>6
    <3>3. InAs(c)' = InAs(c) /\ OutAs(c)' = WriteEnd(c)
      BY <1>1, <1>3, <3>1, <3>2, ZenonT(40) DEF InAs, OutAs
    <3> QED
      BY <1>1, <1>4, <2>4, <3>1, <3>3, ChildMoves, Zenon
  <2>6. CASE ~(dup_ok(t, e) /\ alloc_fd(t) = 1)
    BY <1>1, <2>3, <2>6, ChildEnds
  <2> QED
    BY <2>5, <2>6
<1> QED
  BY <1>5, <1>6

LEMMA ShellExecStep ==
  ASSUME ShellIInv, NEW c \in Stages, Exec(c)
  PROVE  ShellIInv'
<1> DEFINE ends == {pipes_fd[j][i] : j \in Inherited(c), i \in {1, 2}}
           t == [fd \in DOMAIN fds[c] \ ends |-> fds[c][fd]]
<1>1. pc[c] = "exec" /\ UNCHANGED <<line, pipes_fd, k, failed>> /\ pc[c] \in Running
  BY DEF Exec, Running
<1>2. /\ Laid(fds[c], 0 .. 2 * Got + 2, InAs(c), OutAs(c)) /\ Got \in Nat /\ ~failed
      /\ Got = Len(pipes_fd) /\ Got <= Half /\ Got \in 0 .. MaxStages
  BY <1>1, ChildFacts, GotFacts, Zenon DEF ShellIInv
<1>3. PICK x \in {"read", "write"} : pc' = [pc EXCEPT ![c] = x] /\ fds' = [fds EXCEPT ![c] = t]
  <2> DEFINE args == line[c].args
             known == args # << >> /\ args[1] \in DOMAIN Program
             next == IF known /\ Program[args[1]].reads THEN "read" ELSE "write"
  <2>1. Proceed(c, next, t)
    BY DEF Exec
  <2>2. next \in {"read", "write"}
    OBVIOUS
  <2> HIDE DEF next, t
  <2> QED
    BY <2>1, <2>2, Zenon DEF Proceed
<1>4. ends = 3 .. 2 * Got + 2
  <2>1. Inherited(c) = 1 .. Got
    BY <1>2 DEF Inherited, ShellIInv, ShellType
  <2>2. \A j \in 1 .. Got : pipes_fd[j] = <<2 * j + 1, 2 * j + 2>>
    <3>1. \A j \in 1 .. Got : j <= Half
      BY <1>2, QuotaFacts
    <3> QED
      BY <1>2, <3>1, Zenon DEF ShellIInv, ShellType
  <2>3. \A j \in 1 .. Got : pipes_fd[j][1] = 2 * j + 1 /\ pipes_fd[j][2] = 2 * j + 2
    BY <2>2
  <2>4. ASSUME NEW e \in ends PROVE e \in 3 .. 2 * Got + 2
    <3>1. PICK j \in 1 .. Got, i \in {1, 2} : e = pipes_fd[j][i]
      BY <2>1
    <3> QED
      BY <1>2, <2>3, <3>1
  <2>5. ASSUME NEW e \in 3 .. 2 * Got + 2 PROVE e \in ends
    <3> DEFINE h == (e - 1) \div 2
    <3>1. h \in 1 .. Got /\ (e = 2 * h + 1 \/ e = 2 * h + 2)
      BY <1>2
    <3> HIDE DEF h
    <3>2. e = pipes_fd[h][1] \/ e = pipes_fd[h][2]
      BY <2>3, <3>1
    <3> QED
      BY <2>1, <3>1, <3>2
  <2> HIDE DEF ends
  <2> QED
    BY <2>4, <2>5, Zenon
<1>5. t = [fd \in 0 .. 2 |-> fds[c][fd]]
  <2>1. DOMAIN fds[c] = 0 .. 2 * Got + 2
    BY <1>2 DEF Laid
  <2>2. (0 .. 2 * Got + 2) \ (3 .. 2 * Got + 2) = 0 .. 2
    BY <1>2
  <2> QED
    BY <1>4, <2>1, <2>2
<1> HIDE DEF ends, t
<1>6. pc'[c] = x
  BY <1>3, Places0 DEF ShellIInv, ShellType
<1>7. InAs(c)' = InAs(c) /\ OutAs(c)' = OutAs(c)
  BY <1>1, <1>6, Zenon DEF InAs, OutAs
<1>8. Laid(t, 0 .. 2, InAs(c), OutAs(c))
  <2>1. t[0] = InAs(c) /\ t[1] = OutAs(c) /\ t[2] = Stdout
    BY <1>2, <1>5 DEF Laid
  <2>2. \A j \in Stages : 2 * j + 1 \notin 0 .. 2 /\ 2 * j + 2 \notin 0 .. 2
    BY DEF Stages
  <2> QED
    BY <1>5, <2>1, <2>2 DEF Laid
<1>9. x \in Running
  BY DEF Running
<1> QED
  BY <1>1, <1>2, <1>3, <1>7, <1>8, <1>9, ChildMoves, Zenon

LEMMA ReadStep ==
  ASSUME ShellIInv, NEW c \in Stages, Read(c)
  PROVE  ShellIInv'
<1>1. pc[c] = "read" /\ UNCHANGED <<line, pipes_fd, k, failed, fds>> /\ pc[c] \in Running
  BY DEF Read, Running
<1>2. pc \in [Procs -> {"prompt", "gone", "pipes", "fork", "close", "wait", "none", "zombie"} \cup Running]
      /\ fds = [p \in Procs |-> fds[p]] /\ c \in Procs
  BY Places0 DEF ShellIInv, ShellType
<1>3. PICK x \in {"read", "write"} : pc' = [pc EXCEPT ![c] = x]
  <2>1. UNCHANGED pc \/ pc' = [pc EXCEPT ![c] = "write"]
    BY DEF Read
  <2>2. UNCHANGED pc => pc' = [pc EXCEPT ![c] = "read"]
    BY <1>1, <1>2
  <2> QED
    BY <2>1, <2>2
<1>4. fds' = [fds EXCEPT ![c] = fds[c]]
  BY <1>1, <1>2
<1>5. pc'[c] = x /\ x \in Running
  BY <1>2, <1>3 DEF Running
<1>6. InAs(c)' = InAs(c) /\ OutAs(c)' = OutAs(c)
  BY <1>1, <1>5, Zenon DEF InAs, OutAs
<1>7. ~failed /\ Laid(fds[c], 0 .. 2, InAs(c), OutAs(c))
  BY <1>1, ChildFacts
<1> QED
  BY <1>1, <1>3, <1>4, <1>5, <1>6, <1>7, ChildMoves, ZenonT(40)

(* Steps that touch neither a table nor a place keep the invariant.        *)
LEMMA ShellStutter ==
  ASSUME ShellIInv, UNCHANGED <<line, pipes_fd, k, pc, fds, failed>>
  PROVE  ShellIInv'
<1>1. Got' = Got /\ Shut' = Shut /\ ShellFds' = ShellFds
  BY DEF Got, Shut, ShellFds
<1>2. ASSUME NEW c \in Stages PROVE ChildAt(c)'
  <2>1. ChildAt(c) /\ InAs(c)' = InAs(c) /\ OutAs(c)' = OutAs(c) /\ (Family(c)' <=> Family(c))
    BY DEF ShellIInv, InAs, OutAs, Family
  <2> QED
    BY <1>1, <2>1 DEF ChildAt
<1>3. ShellType' /\ ShellAt'
  BY <1>1, Zenon DEF ShellIInv, ShellType, ShellAt
<1> QED
  BY <1>2, <1>3 DEF ShellIInv

(* Every step of a child keeps the invariant.                              *)
LEMMA ChildStepKeeps ==
  ASSUME ShellIInv, NEW c \in Stages, ChildStep(c)
  PROVE  ShellIInv'
<1>1. CASE Write(c)
  BY <1>1, ShellStutter DEF Write
<1>2. CASE Exit(c)
  <2>1. pc[c] \in Running /\ Over(c) /\ UNCHANGED <<line, pipes_fd, k, failed>>
    BY <1>2 DEF Exit, Running
  <2> QED
    BY <2>1, ChildEnds
<1> QED
  BY <1>1, <1>2, RedirectInputStep, RedirectOutputStep, TakeStdinStep, TakeStdoutStep, ShellExecStep, ReadStep, Zenon
     DEF ChildStep

-----------------------------------------------------------------------------
(***************************************************************************)
(* The steps of the shell.                                                 *)
(***************************************************************************)
(* A child that a step of the shell leaves alone, one that is no more, and *)
(* one that is not there.                                                  *)
LEMMA ChildSame ==
  ASSUME NEW c, ChildAt(c), pc'[c] = pc[c], fds'[c] = fds[c],
         line' = line, pipes_fd' = pipes_fd, failed' = failed, Family(c)' <=> Family(c)
  PROVE  ChildAt(c)'
<1>1. Got' = Got /\ InAs(c)' = InAs(c) /\ OutAs(c)' = OutAs(c)
  BY DEF Got, InAs, OutAs
<1> QED
  BY <1>1 DEF ChildAt

LEMMA ChildNone ==
  ASSUME NEW c, pc'[c] = "none", fds'[c] = NoFds, ~Family(c)'
  PROVE  ChildAt(c)'
<1>1. "none" \notin Running
  BY DEF Running
<1> QED
  BY <1>1 DEF ChildAt

LEMMA NoChild ==
  ASSUME NEW c, ChildAt(c), ~Family(c)
  PROVE  pc[c] = "none" /\ fds[c] = NoFds
<1>1. "none" \notin Running
  BY DEF Running
<1> QED
  BY <1>1 DEF ChildAt

(* Where the shell alone moves on, only its program counter changes.       *)
LEMMA ShellGoes ==
  ASSUME ShellIInv, NEW next \in {"fork", "close", "wait", "prompt"}, Go(next),
         UNCHANGED <<line, pipes_fd, fds, failed>>,
         Shut' = Shut,
         \A c \in Stages : Family(c)' <=> Family(c),
         next # "prompt" => Len(line) = Len(pipes_fd) + 1 /\ Len(line) \in Stages
  PROVE  ShellIInv'
<1>1. /\ pc \in [Procs -> {"prompt", "gone", "pipes", "fork", "close", "wait", "none", "zombie"} \cup Running]
      /\ ShellType /\ ShellAt /\ Sh \in Procs
  BY Places0 DEF ShellIInv, ShellType
<1>2. /\ pc'[Sh] = next /\ k' = 1
      /\ pc' \in [Procs -> {"prompt", "gone", "pipes", "fork", "close", "wait", "none", "zombie"} \cup Running]
      /\ \A p \in Procs \ {Sh} : pc'[p] = pc[p]
  BY <1>1 DEF Go
<1>3. ShellType'
  BY <1>1, <1>2, Zenon DEF ShellType
<1>4. Got' = Got /\ ShellFds' = ShellFds
  BY DEF Got, ShellFds
<1>5. ASSUME Len(line) \in Stages PROVE 1 \in 1 .. Len(line) + 1 /\ 1 <= Len(line)
  BY <1>5, Places0
<1>6. ShellAt'
  <2>1. Laid(fds'[Sh], ShellFds', Stdin, Stdout)
    BY <1>1, <1>4 DEF ShellAt
  <2> QED
    BY <1>2, <1>5, <2>1 DEF ShellAt
<1>7. ASSUME NEW c \in Stages PROVE ChildAt(c)'
  <2>1. ChildAt(c) /\ pc'[c] = pc[c]
    BY <1>2, Places0 DEF ShellIInv
  <2> QED
    BY <2>1, ChildSame
<1> QED
  BY <1>3, <1>6, <1>7 DEF ShellIInv

(* The shell as it starts.                                                 *)
LEMMA ShellInitially == ShellInit => ShellIInv
<1> SUFFICES ASSUME ShellInit PROVE ShellIInv
  OBVIOUS
<1>1. /\ pipes_fd = << >> /\ k = 0 /\ failed = FALSE
      /\ pc = [p \in Procs |-> IF p = Sh THEN "prompt" ELSE "none"]
      /\ fds = [p \in Procs |-> IF p = Sh THEN Standard ELSE NoFds]
  BY DEF ShellInit
<1>2. pc[Sh] = "prompt" /\ fds[Sh] = Standard /\ \A c \in Stages : pc[c] = "none" /\ fds[c] = NoFds
  BY <1>1, Places0
<1>3. Len(pipes_fd) = 0 /\ pipes_fd \in Seq(Nat \X Nat)
  BY <1>1
<1>4. ShellType
  <2>1. pc \in [Procs -> {"prompt", "gone", "pipes", "fork", "close", "wait", "none", "zombie"} \cup Running]
    BY <1>1
  <2>2. fds = [p \in Procs |-> fds[p]]
    BY <1>1
  <2>3. failed \in BOOLEAN /\ ~failed /\ k \in Nat
    BY <1>1, Zenon
  <2>4. ~(Len(pipes_fd) > Half) /\ Len(pipes_fd) <= MaxStages /\ 1 .. Len(pipes_fd) = {}
    BY <1>3, QuotaFacts
  <2> QED
    BY <1>3, <2>1, <2>2, <2>3, <2>4 DEF ShellType
<1>5. ShellFds = 0 .. 2
  <2>1. Got = 0 /\ Shut = 0
    BY <1>2, <1>3, QuotaFacts DEF Got, Shut
  <2> QED
    BY <2>1, QuotaFacts DEF ShellFds
<1>6. Laid(Standard, 0 .. 2, Stdin, Stdout)
  <2>1. \A j \in Stages : 2 * j + 1 \notin 0 .. 2 /\ 2 * j + 2 \notin 0 .. 2
    BY DEF Stages
  <2> QED
    BY <2>1 DEF Laid, Standard
<1>7. ShellAt
  BY <1>2, <1>5, <1>6 DEF ShellAt
<1>8. ASSUME NEW c \in Stages PROVE ChildAt(c)
  <2>1. ~Family(c) /\ "none" \notin Running
    BY <1>2 DEF Family, Running
  <2> QED
    BY <1>2, <2>1 DEF ChildAt
<1> QED
  BY <1>4, <1>7, <1>8 DEF ShellIInv

(* A line is typed: the prompt was clean, or it would not have been read.  *)
LEMMA EnterStep ==
  ASSUME ShellIInv, NEW typed \in Lines, Enter(typed)
  PROVE  ShellIInv'
<1> DEFINE list == [i \in DOMAIN typed |-> ProcessArguments(typed[i])]
<1>1. /\ pc[Sh] = "prompt" /\ 0 \in DOMAIN fds[Sh]
      /\ pipes_fd' = << >> /\ k' = 1 /\ UNCHANGED <<fds, failed>>
      /\ \/ pc' = [pc EXCEPT ![Sh] = "gone"]
         \/ UNCHANGED pc
         \/ pc' = [pc EXCEPT ![Sh] = "pipes"] /\ line' = list
  BY DEF Enter
<1>2. Len(list) \in Stages
  <2>1. PICK n \in 1 .. MaxStages : DOMAIN typed = 1 .. n
    BY ShellAssumption
  <2>2. n \in Nat /\ list \in [1 .. n -> {list[i] : i \in 1 .. n}] /\ n \in Stages
    BY <2>1 DEF Stages
  <2> HIDE DEF list
  <2> QED
    BY <2>2, FunctionIsSeq
<1> HIDE DEF list
<1>3. /\ pc \in [Procs -> {"prompt", "gone", "pipes", "fork", "close", "wait", "none", "zombie"} \cup Running]
      /\ fds = [p \in Procs |-> fds[p]] /\ failed \in BOOLEAN /\ Len(pipes_fd) \in Nat /\ Sh \in Procs
      /\ (failed <=> Len(pipes_fd) > Half) /\ Got \in Nat /\ (~failed => Got = Len(pipes_fd))
      /\ Laid(fds[Sh], ShellFds, Stdin, Stdout)
  BY Places0, GotFacts, Zenon DEF ShellIInv, ShellType, ShellAt
<1>4. Shut = Len(pipes_fd)
  BY <1>1 DEF Shut
<1>5. ~failed
  <2>1. 0 \in ShellFds
    BY <1>1, <1>3 DEF Laid
  <2>2. ~(Shut > Half)
    BY <2>1 DEF ShellFds
  <2> QED
    BY <1>3, <1>4, <2>2
<1>6. ShellFds = 0 .. 2
  <2>1. Got = Shut /\ Got \in Nat /\ ~(Shut > Half)
    BY <1>3, <1>4, <1>5
  <2> QED
    BY <2>1 DEF ShellFds
<1>7. /\ \A c \in Stages : pc'[c] = pc[c] /\ fds'[c] = fds[c]
      /\ pc'[Sh] \in {"gone", "prompt", "pipes"}
      /\ pc' \in [Procs -> {"prompt", "gone", "pipes", "fork", "close", "wait", "none", "zombie"} \cup Running]
  BY <1>1, <1>3, Places0
<1>8. Len(pipes_fd)' = 0 /\ pipes_fd' \in Seq(Nat \X Nat)
  BY <1>1
<1>9. ShellType'
  <2>1. ~(Len(pipes_fd)' > Half) /\ Len(pipes_fd)' <= MaxStages /\ 1 .. Len(pipes_fd)' = {} /\ k' \in Nat
    BY <1>1, <1>8, QuotaFacts
  <2>2. failed' \in BOOLEAN /\ ~failed' /\ fds' = [p \in Procs |-> fds'[p]]
    BY <1>1, <1>3, <1>5
  <2> QED
    BY <1>7, <1>8, <2>1, <2>2 DEF ShellType
<1>10. ShellFds' = 0 .. 2
  <2>1. Got' = 0 /\ Shut' = 0
    BY <1>7, <1>8, QuotaFacts DEF Got, Shut
  <2> QED
    BY <2>1, QuotaFacts DEF ShellFds
<1>11. ShellAt'
  <2>1. Laid(fds'[Sh], ShellFds', Stdin, Stdout)
    BY <1>1, <1>3, <1>6, <1>10
  <2>2. pc'[Sh] = "pipes" => Len(line)' \in Stages /\ k' \in 1 .. Len(line)' + 1 /\ k' = Len(pipes_fd)' + 1 /\ k' <= Len(line)'
    <3>1. pc'[Sh] = "pipes" => Len(line)' \in Stages
      BY <1>1, <1>2, <1>3
    <3> QED
      BY <1>1, <1>8, <3>1, Places0
  <2> QED
    BY <1>7, <1>8, <2>1, <2>2 DEF ShellAt
<1>12. ASSUME NEW c \in Stages PROVE ChildAt(c)'
  <2>1. ~Family(c) /\ ~Family(c)' /\ ChildAt(c)
    BY <1>1, <1>7 DEF Family, ShellIInv
  <2>2. pc[c] = "none" /\ fds[c] = NoFds
    BY <2>1, NoChild
  <2> QED
    BY <1>7, <2>1, <2>2, ChildNone
<1> QED
  BY <1>9, <1>11, <1>12 DEF ShellIInv

(* The two ends of a new pipe go behind all there is.                      *)
LEMMA PipeTable ==
  ASSUME NEW t, NEW m \in Nat, m + 1 \in Stages, NEW in, NEW out, Laid(t, 0 .. 2 * m + 2, in, out),
         NEW u, u = Install(t, ReadEnd(m + 1)), NEW v, v = Install(u, WriteEnd(m + 1))
  PROVE  /\ alloc_fd(t) = 2 * (m + 1) + 1 /\ alloc_fd(u) = 2 * (m + 1) + 2
         /\ Cardinality(DOMAIN t) = 2 * m + 3
         /\ Laid(v, 0 .. 2 * (m + 1) + 2, in, out)
<1> DEFINE n == 2 * m + 2
<1>0. n \in Nat /\ n >= 2 /\ n = 2 * m + 2
  OBVIOUS
<1>1. DOMAIN t = 0 .. n /\ Laid(t, 0 .. n, in, out)
  BY DEF Laid
<1> HIDE DEF n
<1>2. alloc_fd(t) = n + 1 /\ Cardinality(DOMAIN t) = n + 1
  BY <1>0, <1>1, AllocTop
<1>3. DOMAIN u = 0 .. n + 1 /\ u[n + 1] = ReadEnd(m + 1) /\ \A fd \in 0 .. n : u[fd] = t[fd]
  BY <1>0, <1>1, <1>2 DEF Install
<1>4. alloc_fd(u) = n + 2
  <2>1. n + 1 \in Nat /\ (n + 1) + 1 = n + 2
    BY <1>0
  <2> QED
    BY <1>3, <2>1, AllocTop
<1>5. /\ v = [fd \in 0 .. n + 2 |-> v[fd]]
      /\ v[n + 2] = WriteEnd(m + 1) /\ v[n + 1] = ReadEnd(m + 1) /\ \A fd \in 0 .. n : v[fd] = t[fd]
  <2>1. DOMAIN u \cup {alloc_fd(u)} = 0 .. n + 2
    BY <1>0, <1>3, <1>4
  <2>2. v = [fd \in 0 .. n + 2 |-> IF fd \in 0 .. n + 1 THEN u[fd] ELSE WriteEnd(m + 1)]
    BY <1>3, <2>1, Zenon DEF Install
  <2>3. /\ n + 2 \in 0 .. n + 2 /\ n + 2 \notin 0 .. n + 1 /\ n + 1 \in 0 .. n + 2 /\ n + 1 \in 0 .. n + 1
        /\ \A fd \in 0 .. n : fd \in 0 .. n + 2 /\ fd \in 0 .. n + 1
    BY <1>0
  <2> QED
    BY <1>3, <2>2, <2>3, Zenon
<1>6. /\ v[0] = in /\ v[1] = out /\ v[2] = Stdout
  <2>1. 0 \in 0 .. n /\ 1 \in 0 .. n /\ 2 \in 0 .. n
    BY <1>0
  <2> QED
    BY <1>1, <1>5, <2>1, Zenon DEF Laid
<1>7. ASSUME NEW j \in Stages
      PROVE  /\ 2 * j + 1 \in 0 .. n + 2 => v[2 * j + 1] = ReadEnd(j)
             /\ 2 * j + 2 \in 0 .. n + 2 => v[2 * j + 2] = WriteEnd(j)
  <2>1. j \in Nat
    BY Places0
  <2>2. CASE j <= m
    <3>1. 2 * j + 1 \in 0 .. n /\ 2 * j + 2 \in 0 .. n
      BY <1>0, <2>1, <2>2
    <3> QED
      BY <1>1, <1>5, <3>1 DEF Laid
  <2>3. CASE j = m + 1
    <3>1. 2 * j + 1 = n + 1 /\ 2 * j + 2 = n + 2
      BY <1>0, <2>3
    <3> QED
      BY <1>5, <2>3, <3>1
  <2>4. CASE j > m + 1
    BY <1>0, <2>1, <2>4
  <2> QED
    BY <2>1, <2>2, <2>3, <2>4
<1>8. Laid(v, 0 .. n + 2, in, out)
  BY <1>5, <1>6, <1>7, Zenon DEF Laid
<1>9. n + 2 = 2 * (m + 1) + 2 /\ n + 1 = 2 * (m + 1) + 1 /\ n + 1 = 2 * m + 3
  BY <1>0
<1> QED
  BY <1>2, <1>4, <1>8, <1>9

(* pipe() succeeds exactly as long as the quota has room for two ends.     *)
LEMMA MakePipeStep ==
  ASSUME ShellIInv, MakePipe
  PROVE  ShellIInv'
<1> DEFINE t == fds[Sh]
           u == Install(t, ReadEnd(k))
           v == Install(u, WriteEnd(k))
           n == Len(pipes_fd)
<1>1. pc[Sh] = "pipes" /\ UNCHANGED line
  BY DEF MakePipe
<1>a. n \in Nat /\ k = n + 1 /\ Len(line) \in Stages /\ Len(line) \in Nat /\ k <= Len(line) /\ k \in Nat
  BY <1>1, Places0, GotFacts DEF ShellIInv, ShellAt
<1>b. /\ Half \in Nat /\ Half >= 1 /\ MAX_OPEN_PIPE_FDS = 2 * Half /\ MAX_OPEN_FILES \in Nat
      /\ 2 * Half + 3 <= MAX_OPEN_FILES /\ MaxStages \in Nat
  BY QuotaFacts
<1>c. Got \in Nat /\ Got \in 0 .. MaxStages /\ Got = IF n <= Half THEN n ELSE Half
  BY GotFacts DEF ShellIInv, Got
<1>d. failed \in BOOLEAN /\ (failed <=> n > Half)
  BY DEF ShellIInv, ShellType
<1>e. /\ pipes_fd \in Seq(Nat \X Nat) /\ fds = [p \in Procs |-> fds[p]] /\ Sh \in Procs
      /\ pc \in [Procs -> {"prompt", "gone", "pipes", "fork", "close", "wait", "none", "zombie"} \cup Running]
  BY Places0 DEF ShellIInv, ShellType
<1> HIDE DEF n
<1>3. Laid(t, 0 .. 2 * Got + 2, Stdin, Stdout)
  <2>1. Shut = 0
    BY <1>1 DEF Shut
  <2>2. ShellFds = 0 .. 2 * Got + 2
    BY <1>b, <1>c, <2>1 DEF ShellFds
  <2> QED
    BY <2>2 DEF ShellIInv, ShellAt
<1>4. CASE k = Len(line)
  <2>1. Go("fork") /\ UNCHANGED <<pipes_fd, fds, failed>>
    BY <1>4 DEF MakePipe
  <2>2. pc'[Sh] = "fork" /\ k' = 1
    BY <1>e, <2>1 DEF Go
  <2>3. Shut' = Shut
    BY <1>1, <2>2 DEF Shut
  <2>4. \A c \in Stages : Family(c)' <=> Family(c)
    BY <1>1, <2>2, Places0 DEF Family
  <2> QED
    BY <1>1, <1>a, <1>4, <2>1, <2>3, <2>4, ShellGoes, Zenon DEF n
<1>5. CASE k # Len(line)
  <2> DEFINE pair == IF k <= Half THEN <<2 * k + 1, 2 * k + 2>> ELSE <<0, 0>>
  <2>0. k \in Stages /\ k < Len(line) /\ k <= MaxStages
    BY <1>a, <1>b, <1>5 DEF Stages
  <2>1. Cardinality(PipeFds(t)) = 2 * Got
    <3>1. /\ 0 .. 2 * Got + 2 \subseteq 0 .. 2 * Got + 2
          /\ 3 .. 2 * Got + 2 \subseteq 0 .. 2 * Got + 2
      BY <1>c
    <3> QED
      BY <1>c, <1>3, <3>1, PipeCount, Kinds, ZenonT(40)
  <2>2. Cardinality(DOMAIN t) = 2 * Got + 3
    <3>1. DOMAIN t = 0 .. 2 * Got + 2 /\ 2 * Got + 2 \in Nat /\ (2 * Got + 2) + 1 = 2 * Got + 3
      BY <1>c, <1>3 DEF Laid
    <3> QED
      BY <3>1, AllocTop
  <2>3. Reservable(t, 2, 2) <=> k <= Half
    <3> HIDE DEF t
    <3>1. Reservable(t, 2, 2) <=> 2 * Got + 5 <= MAX_OPEN_FILES /\ 2 * Got + 2 <= 2 * Half
      BY <1>b, <1>c, <2>1, <2>2 DEF Reservable
    <3> QED
      BY <1>a, <1>b, <1>c, <3>1
  <2>4. k <= Half => /\ Got = n /\ ~failed
                     /\ alloc_fd(t) = 2 * k + 1 /\ alloc_fd(u) = 2 * k + 2
                     /\ Laid(v, 0 .. 2 * k + 2, Stdin, Stdout)
    <3>1. k <= Half => Got = n /\ ~failed
      BY <1>a, <1>b, <1>c, <1>d
    <3> HIDE DEF t
    <3>2. n + 1 \in Stages /\ k = n + 1 /\ n \in Nat
      BY <1>a, <2>0
    <3> QED
      BY <1>3, <3>1, <3>2, PipeTable
  <2>5. /\ pipes_fd' = Append(pipes_fd, pair) /\ k' = k + 1 /\ UNCHANGED pc
        /\ k <= Half => fds' = [fds EXCEPT ![Sh] = v] /\ UNCHANGED failed
        /\ ~(k <= Half) => UNCHANGED fds /\ failed' = TRUE
    BY <1>1, <1>5, <2>3, <2>4 DEF MakePipe
  <2> HIDE DEF v, u, t
  <2>6. pair \in Nat \X Nat
    BY <1>a, <1>b
  <2>7. /\ pipes_fd' \in Seq(Nat \X Nat) /\ Len(pipes_fd)' = k /\ pipes_fd'[k] = pair
        /\ \A j \in 1 .. n : pipes_fd'[j] = pipes_fd[j]
    <3> HIDE DEF pair
    <3> QED
      BY <1>a, <1>e, <2>5, <2>6, AppendFacts DEF n
  <2>8. /\ failed' \in BOOLEAN /\ (failed' <=> k > Half)
        /\ fds' = [p \in Procs |-> fds'[p]] /\ k' \in Nat
        /\ \A c \in Stages : pc'[c] = pc[c] /\ fds'[c] = fds[c]
    <3>1. k' \in Nat /\ (k <= Half <=> ~(k > Half)) /\ \A c \in Stages : c \in Procs /\ c # Sh
      <4>1. k \in Nat /\ Half \in Nat /\ k' = k + 1
        BY <1>a, <1>b, <2>5, Zenon
      <4>2. k' \in Nat /\ (k <= Half <=> ~(k > Half))
        BY <4>1
      <4> QED
        BY <4>2, Places0, Zenon
    <3>2. CASE k <= Half
      <4>1. fds' = [fds EXCEPT ![Sh] = v] /\ pc' = pc /\ failed' = failed /\ ~failed
        BY <2>4, <2>5, <3>2
      <4>2. fds' = [p \in Procs |-> fds'[p]] /\ \A c \in Stages : fds'[c] = fds[c]
        BY <1>e, <3>1, <4>1, Zenon
      <4> QED
        BY <1>d, <3>1, <3>2, <4>1, <4>2, Zenon
    <3>3. CASE ~(k <= Half)
      <4>1. fds' = fds /\ pc' = pc /\ failed' = TRUE
        BY <2>5, <3>3
      <4> QED
        BY <1>e, <3>1, <3>3, <4>1, Zenon
    <3> QED
      BY <3>2, <3>3
  <2>9. ShellType'
    <3>1. \A j \in 1 .. Len(pipes_fd)' :
            pipes_fd'[j] = IF j <= Half THEN <<2 * j + 1, 2 * j + 2>> ELSE <<0, 0>>
      <4>1. \A j \in 1 .. n :
            pipes_fd[j] = IF j <= Half THEN <<2 * j + 1, 2 * j + 2>> ELSE <<0, 0>>
        BY Zenon DEF ShellIInv, ShellType, n
      <4>2. \A j \in 1 .. k : j \in 1 .. n \/ j = k
        BY <1>a
      <4> QED
        BY <2>7, <4>1, <4>2, Zenon
    <3> QED
      BY <1>a, <1>e, <2>0, <2>5, <2>7, <2>8, <3>1, Zenon DEF ShellType
  <2>10. Laid(fds'[Sh], ShellFds', Stdin, Stdout)
    <3>1. Shut' = 0
      BY <1>1, <2>5 DEF Shut
    <3>2. Got' = IF k <= Half THEN k ELSE Half
      BY <2>7 DEF Got
    <3>3. ShellFds' = 0 .. 2 * Got' + 2
      BY <1>a, <1>b, <3>1, <3>2 DEF ShellFds
    <3>4. CASE k <= Half
      BY <1>e, <2>4, <2>5, <3>2, <3>3, <3>4
    <3>5. CASE ~(k <= Half)
      <4>1. Got = Half
        BY <1>a, <1>b, <1>c, <3>5
      <4> QED
        BY <1>3, <2>5, <3>2, <3>3, <3>5, <4>1 DEF t
    <3> QED
      BY <3>4, <3>5
  <2>11. ShellAt'
    <3>1. Len(line)' \in Stages /\ k' \in 1 .. Len(line)' + 1 /\ k' = Len(pipes_fd)' + 1 /\ k' <= Len(line)'
      BY <1>1, <1>a, <2>0, <2>5, <2>7
    <3> QED
      BY <1>1, <2>5, <2>10, <3>1 DEF ShellAt
  <2>12. ASSUME NEW c \in Stages PROVE ChildAt(c)'
    <3>1. ~Family(c) /\ ~Family(c)' /\ ChildAt(c)
      BY <1>1, <2>5 DEF Family, ShellIInv
    <3>2. pc[c] = "none" /\ fds[c] = NoFds
      BY <3>1, NoChild
    <3> QED
      BY <2>8, <3>1, <3>2, ChildNone
  <2> QED
    BY <2>9, <2>11, <2>12 DEF ShellIInv
<1> QED
  BY <1>4, <1>5

(* The child starts with what the shell has, which is every pipe.          *)
LEMMA ShellForkStep ==
  ASSUME ShellIInv, Fork
  PROVE  ShellIInv'
<1>1. pc[Sh] = "fork" /\ UNCHANGED <<line, pipes_fd, failed>>
  BY DEF Fork
<1>2. /\ k \in 1 .. Len(line) + 1 /\ Len(line) \in Stages /\ Len(line) \in Nat /\ k \in Nat
      /\ Len(line) = Len(pipes_fd) + 1
  BY <1>1, Places0 DEF ShellIInv, ShellType, ShellAt
<1>3. /\ pc \in [Procs -> {"prompt", "gone", "pipes", "fork", "close", "wait", "none", "zombie"} \cup Running]
      /\ fds = [p \in Procs |-> fds[p]] /\ Sh \in Procs
  BY Places0 DEF ShellIInv, ShellType
<1>4. CASE k > Len(line)
  <2>1. Go("close") /\ UNCHANGED fds
    BY <1>4 DEF Fork
  <2>2. pc'[Sh] = "close" /\ k' = 1
    BY <1>3, <2>1 DEF Go
  <2>3. Shut' = Shut
    BY <1>1, <2>2 DEF Shut
  <2>4. ASSUME NEW c \in Stages PROVE Family(c)' <=> Family(c)
    <3>1. c <= Len(line) => c < k
      BY <1>2, <1>4, Places0
    <3> QED
      BY <1>1, <2>2, <3>1 DEF Family
  <2> QED
    BY <1>1, <1>2, <2>1, <2>3, <2>4, ShellGoes
<1>5. CASE ~(k > Len(line))
  <2>1. pc' = [pc EXCEPT ![k] = "input"] /\ fds' = [fds EXCEPT ![k] = fds[Sh]] /\ k' = k + 1
    BY <1>5 DEF Fork
  <2>2. k \in Stages /\ k <= Len(line) /\ k \in Procs /\ k # Sh /\ "input" \in Running
    <3>1. k \in Stages /\ k <= Len(line)
      BY <1>2, <1>5, QuotaFacts DEF Stages
    <3>2. "input" \in Running
      BY DEF Running
    <3> QED
      BY <3>1, <3>2, Places0
  <2>3. /\ pc'[k] = "input" /\ fds'[k] = fds[Sh] /\ pc'[Sh] = pc[Sh] /\ fds'[Sh] = fds[Sh]
        /\ \A c \in Procs \ {k} : pc'[c] = pc[c] /\ fds'[c] = fds[c]
        /\ pc' \in [Procs -> {"prompt", "gone", "pipes", "fork", "close", "wait", "none", "zombie"} \cup Running]
        /\ fds' = [p \in Procs |-> fds'[p]]
    BY <1>3, <2>1, <2>2
  <2>4. ShellType'
    <3>1. k' \in Nat
      BY <1>2, <2>1
    <3> QED
      BY <1>1, <2>3, <3>1, Zenon DEF ShellIInv, ShellType
  <2>5. Got' = Got /\ Shut' = Shut /\ Shut = 0 /\ ShellFds' = ShellFds
    BY <1>1, <2>3 DEF Got, Shut, ShellFds
  <2>6. ShellAt'
    <3>1. k' \in 1 .. Len(line) + 1
      BY <1>2, <2>1, <2>2
    <3> QED
      BY <1>1, <1>2, <2>3, <2>5, <3>1 DEF ShellIInv, ShellAt
  <2>7. ASSUME NEW c \in Stages PROVE ChildAt(c)'
    <3>1. CASE c # k
      <4>1. pc'[c] = pc[c] /\ fds'[c] = fds[c] /\ ChildAt(c)
        BY <2>3, <3>1, Places0 DEF ShellIInv
      <4>2. c < k <=> c < k'
        BY <1>2, <2>1, <3>1, Places0
      <4>3. Family(c)' <=> Family(c)
        BY <1>1, <2>3, <4>2 DEF Family
      <4> QED
        BY <1>1, <4>1, <4>3, ChildSame
    <3>2. CASE c = k
      <4>0. pc'[c] = "input" /\ fds'[c] = fds[Sh] /\ c <= Len(line) /\ c < k'
        BY <1>2, <2>1, <2>2, <2>3, <3>2
      <4>1. Family(c)'
        BY <1>1, <2>3, <4>0 DEF Family
      <4>2. InAs(c)' = Stdin /\ OutAs(c)' = Stdout
        BY <4>0, Zenon DEF InAs, OutAs
      <4>3. ShellFds = 0 .. 2 * Got + 2
        BY <2>5, QuotaFacts DEF ShellFds
      <4>4. Laid(fds'[c], 0 .. 2 * Got' + 2, Stdin, Stdout)
        BY <2>5, <4>0, <4>3 DEF ShellIInv, ShellAt
      <4> QED
        BY <2>2, <4>0, <4>1, <4>2, <4>4 DEF ChildAt
    <3> QED
      BY <3>1, <3>2
  <2> QED
    BY <2>4, <2>6, <2>7 DEF ShellIInv
<1> QED
  BY <1>4, <1>5

(* The shell closes the next pipe, or descriptor 0 in its place.           *)
LEMMA ClosePipeStep ==
  ASSUME ShellIInv, ClosePipe
  PROVE  ShellIInv'
<1> DEFINE n == Len(pipes_fd)
<1>1. pc[Sh] = "close" /\ UNCHANGED <<line, pipes_fd, failed>>
  BY DEF ClosePipe
<1>2. /\ k \in 1 .. Len(line) /\ Len(line) \in Stages /\ Len(line) \in Nat /\ k \in Nat /\ k >= 1
      /\ Len(line) = n + 1 /\ n \in Nat
  BY <1>1, Places0, GotFacts DEF ShellIInv, ShellType, ShellAt
<1>3. /\ pc \in [Procs -> {"prompt", "gone", "pipes", "fork", "close", "wait", "none", "zombie"} \cup Running]
      /\ fds = [p \in Procs |-> fds[p]] /\ Sh \in Procs
  BY Places0 DEF ShellIInv, ShellType
<1>4. CASE k = Len(line)
  <2>1. Go("wait") /\ UNCHANGED fds
    BY <1>4 DEF ClosePipe
  <2>2. pc'[Sh] = "wait" /\ k' = 1
    BY <1>3, <2>1 DEF Go
  <2>3. Shut' = Shut
    BY <1>1, <1>2, <1>4, <2>2 DEF Shut
  <2>4. ASSUME NEW c \in Stages PROVE Family(c)' <=> Family(c)
    <3>1. c >= 1
      BY Places0
    <3> QED
      BY <1>1, <2>2, <3>1 DEF Family
  <2> QED
    BY <1>1, <1>2, <2>1, <2>3, <2>4, ShellGoes
<1>5. CASE k # Len(line)
  <2> DEFINE t == fds[Sh]
             a == pipes_fd[k][1]
             b == pipes_fd[k][2]
             u == Closed(Closed(t, a), b)
  <2>1. fds' = [fds EXCEPT ![Sh] = u] /\ k' = k + 1 /\ pc' = pc
    BY <1>5 DEF ClosePipe, ShellWithout, WithoutPipe
  <2>2. k <= n /\ k < Len(line)
    BY <1>2, <1>5
  <2>3. IF k <= Half THEN a = 2 * k + 1 /\ b = 2 * k + 2 ELSE a = 0 /\ b = 0
    <3>1. pipes_fd[k] = IF k <= Half THEN <<2 * k + 1, 2 * k + 2>> ELSE <<0, 0>>
      BY <1>2, <2>2 DEF ShellIInv, ShellType
    <3> QED
      BY <3>1
  <2>4. Laid(t, ShellFds, Stdin, Stdout)
    BY DEF ShellIInv, ShellAt
  <2> HIDE DEF a, b, t, n
  <2>5. /\ u = [fd \in ShellFds \ {a, b} |-> u[fd]]
        /\ \A fd \in ShellFds \ {a, b} : u[fd] = t[fd]
    <3>1. DOMAIN t = ShellFds
      BY <2>4 DEF Laid
    <3>2. (ShellFds \ {a}) \ {b} = ShellFds \ {a, b}
      OBVIOUS
    <3> QED
      BY <3>1, <3>2 DEF Closed
  <2> HIDE DEF u
  <2>6. Got' = Got /\ Shut = k - 1 /\ Shut' = k
    BY <1>1, <1>2, <2>1 DEF Got, Shut
  <2>7. ShellFds' = ShellFds \ {a, b}
    <3>1. Got \in Nat /\ Half \in Nat /\ Half >= 1 /\ Got <= Half
      BY GotFacts, QuotaFacts DEF ShellIInv
    <3>2. /\ ShellFds = {fd \in 0 .. 2 * Got + 2 : fd \notin 3 .. 2 * (k - 1) + 2 /\ (k - 1 > Half => fd # 0)}
          /\ ShellFds' = {fd \in 0 .. 2 * Got + 2 : fd \notin 3 .. 2 * k + 2 /\ (k > Half => fd # 0)}
      BY <2>6, Zenon DEF ShellFds
    <3>3. CASE k <= Half
      BY <1>2, <2>3, <3>1, <3>2, <3>3
    <3>4. CASE ~(k <= Half)
      BY <1>2, <2>3, <3>1, <3>2, <3>4
    <3> QED
      BY <3>3, <3>4
  <2>8. Laid(u, ShellFds', Stdin, Stdout)
    <3>1. \A fd \in ShellFds' : u[fd] = t[fd] /\ fd \in ShellFds
      BY <2>5, <2>7
    <3>2. u = [fd \in ShellFds' |-> u[fd]]
      BY <2>5, <2>7
    <3> QED
      BY <2>4, <3>1, <3>2 DEF Laid
  <2>9. /\ pc'[Sh] = pc[Sh] /\ fds'[Sh] = u /\ fds' = [p \in Procs |-> fds'[p]]
        /\ \A c \in Stages : pc'[c] = pc[c] /\ fds'[c] = fds[c]
    BY <1>3, <2>1, Places0
  <2>10. ShellType'
    <3>1. k' \in Nat
      BY <1>2, <2>1
    <3> QED
      BY <1>1, <2>1, <2>9, <3>1, Zenon DEF ShellIInv, ShellType
  <2>11. ShellAt'
    <3>1. k' \in 1 .. Len(line) + 1 /\ k' <= Len(line)
      BY <1>2, <2>1, <2>2
    <3> QED
      BY <1>1, <1>2, <2>8, <2>9, <3>1 DEF ShellAt, n
  <2>12. ASSUME NEW c \in Stages PROVE ChildAt(c)'
    <3>1. ChildAt(c) /\ (Family(c)' <=> Family(c))
      BY <1>1, <2>9 DEF ShellIInv, Family
    <3> QED
      BY <1>1, <2>9, <3>1, ChildSame
  <2> QED
    BY <2>10, <2>11, <2>12 DEF ShellIInv
<1> QED
  BY <1>4, <1>5

(* waitpid() returns for a child that has ended, and so has no descriptors.*)
LEMMA WaitStep ==
  ASSUME ShellIInv, Wait
  PROVE  ShellIInv'
<1>1. pc[Sh] = "wait" /\ UNCHANGED <<line, pipes_fd, fds, failed>>
  BY DEF Wait
<1>2. /\ k \in 1 .. Len(line) + 1 /\ Len(line) \in Stages /\ Len(line) \in Nat /\ k \in Nat /\ k >= 1
      /\ Len(line) = Len(pipes_fd) + 1
  BY <1>1, Places0 DEF ShellIInv, ShellType, ShellAt
<1>3. /\ pc \in [Procs -> {"prompt", "gone", "pipes", "fork", "close", "wait", "none", "zombie"} \cup Running]
      /\ fds = [p \in Procs |-> fds[p]] /\ Sh \in Procs
  BY Places0 DEF ShellIInv, ShellType
<1>4. CASE k > Len(line)
  <2>1. Go("prompt")
    BY <1>4 DEF Wait
  <2>2. pc'[Sh] = "prompt" /\ k' = 1
    BY <1>3, <2>1 DEF Go
  <2>3. Shut' = Shut
    BY <1>1, <2>2 DEF Shut
  <2>4. ASSUME NEW c \in Stages PROVE Family(c)' <=> Family(c)
    <3>1. ~(c <= Len(line) /\ c >= k)
      BY <1>2, <1>4, Places0
    <3> QED
      BY <1>1, <2>2, <3>1 DEF Family
  <2> QED
    BY <1>1, <2>1, <2>3, <2>4, ShellGoes
<1>5. CASE ~(k > Len(line))
  <2>1. pc[k] = "zombie" /\ pc' = [pc EXCEPT ![k] = "none"] /\ k' = k + 1
    BY <1>5 DEF Wait
  <2>2. k \in Stages
    BY <1>2, <1>5, QuotaFacts DEF Stages
  <2>a. k \in Procs /\ k # Sh
    BY <2>2, Places0
  <2>3. /\ pc'[k] = "none" /\ pc'[Sh] = pc[Sh]
        /\ \A c \in Procs \ {k} : pc'[c] = pc[c]
        /\ pc' \in [Procs -> {"prompt", "gone", "pipes", "fork", "close", "wait", "none", "zombie"} \cup Running]
    BY <1>3, <2>1, <2>a
  <2>4. ShellType'
    <3>1. k' \in Nat
      BY <1>2, <2>1
    <3> QED
      BY <1>1, <2>3, <3>1, Zenon DEF ShellIInv, ShellType
  <2>5. Got' = Got /\ Shut' = Shut /\ ShellFds' = ShellFds
    BY <1>1, <2>3 DEF Got, Shut, ShellFds
  <2>6. ShellAt'
    <3>1. k' \in 1 .. Len(line) + 1
      BY <1>2, <1>5, <2>1
    <3> QED
      BY <1>1, <1>2, <2>3, <2>5, <3>1 DEF ShellIInv, ShellAt
  <2>7. ASSUME NEW c \in Stages PROVE ChildAt(c)'
    <3>1. CASE c # k
      <4>1. pc'[c] = pc[c] /\ fds'[c] = fds[c] /\ ChildAt(c)
        BY <1>1, <2>3, <3>1, Places0 DEF ShellIInv
      <4>2. c >= k <=> c >= k'
        BY <1>2, <2>1, <3>1, Places0
      <4>3. Family(c)' <=> Family(c)
        BY <1>1, <2>3, <4>2 DEF Family
      <4> QED
        BY <1>1, <4>1, <4>3, ChildSame
    <3>2. CASE c = k
      <4>1. pc[c] = "zombie" /\ pc'[c] = "none" /\ fds'[c] = fds[c] /\ ChildAt(c)
        BY <1>1, <2>1, <2>3, <3>2 DEF ShellIInv
      <4>2. fds[c] = NoFds
        BY <4>1 DEF ChildAt, Running
      <4>3. ~(c >= k')
        BY <1>2, <2>1, <3>2
      <4>4. ~Family(c)'
        BY <1>1, <2>3, <4>3 DEF Family
      <4> QED
        BY <4>1, <4>2, <4>4, ChildNone
    <3> QED
      BY <3>1, <3>2
  <2> QED
    BY <2>4, <2>6, <2>7 DEF ShellIInv
<1> QED
  BY <1>4, <1>5

-----------------------------------------------------------------------------
(***************************************************************************)
(* The shell and its children are always where their descriptors say: the  *)
(* table of the shell is the one that pipe() and close() leave at its      *)
(* place in the line, and that of a child the one its redirections and     *)
(* dup()s leave at its own, whatever the line, the quota and the           *)
(* scheduling.                                                             *)
(***************************************************************************)
THEOREM ShellInductive == ShellSpec => []ShellIInv
<1>1. ShellIInv /\ [ShellNext]_shellVars => ShellIInv'
  <2> SUFFICES ASSUME ShellIInv, [ShellNext]_shellVars PROVE ShellIInv'
    OBVIOUS
  <2>1. CASE \E typed \in Lines : Enter(typed)
    BY <2>1, EnterStep
  <2>2. CASE ShellStep
    BY <2>2, MakePipeStep, ShellForkStep, ClosePipeStep, WaitStep DEF ShellStep
  <2>3. CASE \E c \in Stages : ChildStep(c)
    BY <2>3, ChildStepKeeps
  <2>4. CASE UNCHANGED shellVars
    BY <2>4, ShellStutter DEF shellVars
  <2> QED
    BY <2>1, <2>2, <2>3, <2>4 DEF ShellNext
<1> QED
  BY <1>1, ShellInitially, PTL DEF ShellSpec

(***************************************************************************)
(* In a pipeline of any length, over any quota, a command that runs reads  *)
(* the pipe from the command before it, writes the one to the command      *)
(* behind it and holds no other pipe end: the close(), dup() and close()   *)
(* calls between fork() and exec() in user_shell.rs get it right in every  *)
(* order in which the children run.                                        *)
(***************************************************************************)
THEOREM CommandsAlwaysWired == ShellSpec => []Wired
<1>1. ShellIInv => Wired
  <2> SUFFICES ASSUME ShellIInv, NEW c \in Stages, pc[c] \in {"read", "write"}
               PROVE  /\ fds[c][0] = IF c > 1 THEN ReadEnd(c - 1)
                                     ELSE IF line[c].input # "" THEN DiskFile ELSE Stdin
                      /\ fds[c][1] = IF c < Len(line) THEN WriteEnd(c)
                                     ELSE IF line[c].output # "" THEN DiskFile ELSE Stdout
                      /\ DOMAIN fds[c] = 0 .. 2 /\ fds[c][2] = Stdout
    BY Zenon DEF Wired
  <2>1. pc[c] \in Running
    BY DEF Running
  <2>2. Laid(fds[c], 0 .. 2, InAs(c), OutAs(c))
    BY <2>1, ChildFacts
  <2>3. /\ DOMAIN fds[c] = 0 .. 2
        /\ fds[c][0] = InAs(c) /\ fds[c][1] = OutAs(c) /\ fds[c][2] = Stdout
    BY <2>2 DEF Laid
  <2>4. InAs(c) = IF c > 1 THEN ReadEnd(c - 1)
                  ELSE IF line[c].input # "" THEN DiskFile ELSE Stdin
    BY Zenon DEF InAs
  <2>5. OutAs(c) = IF c < Len(line) THEN WriteEnd(c)
                   ELSE IF line[c].output # "" THEN DiskFile ELSE Stdout
    BY Zenon DEF OutAs
  <2> QED
    BY <2>3, <2>4, <2>5, Zenon
<1> QED
  BY <1>1, ShellInductive, PTL

(***************************************************************************)
(* Whenever the shell asks for a line it holds its three descriptors and   *)
(* no end of an old pipe, and no child of the line before is left; after a *)
(* failed pipe() it has lost descriptor 0 and nothing else.                *)
(***************************************************************************)
THEOREM PromptAlwaysClean == ShellSpec => []PromptIsClean
<1>1. ShellIInv => PromptIsClean
  <2> SUFFICES ASSUME ShellIInv, pc[Sh] = "prompt"
               PROVE  /\ fds[Sh] = IF failed THEN Closed(Standard, 0) ELSE Standard
                      /\ \A c \in Stages : pc[c] = "none" /\ fds[c] = NoFds
    BY Zenon DEF PromptIsClean
  <2>1. /\ Got \in Nat /\ Len(pipes_fd) \in Nat /\ Got <= Half /\ Got <= Len(pipes_fd) /\ Half \in Nat
        /\ failed \in BOOLEAN /\ (failed <=> Len(pipes_fd) > Half)
    BY GotFacts, QuotaFacts, Zenon DEF ShellIInv, ShellType
  <2>2. Shut = Len(pipes_fd)
    BY DEF Shut
  <2>3. Laid(fds[Sh], ShellFds, Stdin, Stdout)
    BY DEF ShellIInv, ShellAt
  <2>4. ShellFds = IF failed THEN 1 .. 2 ELSE 0 .. 2
    <3>1. CASE failed
      BY <2>1, <2>2, <3>1 DEF ShellFds
    <3>2. CASE ~failed
      BY <2>1, <2>2, <3>2 DEF ShellFds
    <3> QED
      BY <3>1, <3>2
  <2>5. fds[Sh] = IF failed THEN Closed(Standard, 0) ELSE Standard
    <3>1. fds[Sh] = [fd \in ShellFds |-> IF fd = 0 THEN Stdin ELSE Stdout]
      <4>1. \A fd \in ShellFds : fds[Sh][fd] = IF fd = 0 THEN Stdin ELSE Stdout
        <5>1. \A fd \in ShellFds : fd \in {0, 1, 2}
          BY <2>4
        <5> QED
          BY <2>3, <5>1 DEF Laid
      <4> QED
        BY <2>3, <4>1 DEF Laid
    <3>2. CASE failed
      <4>1. Closed(Standard, 0) = [fd \in 1 .. 2 |-> Stdout]
        <5>1. (0 .. 2) \ {0} = 1 .. 2
          OBVIOUS
        <5> QED
          BY <5>1 DEF Closed, Standard
      <4>2. fds[Sh] = [fd \in 1 .. 2 |-> Stdout]
        BY <2>4, <3>1, <3>2
      <4> QED
        BY <3>2, <4>1, <4>2
    <3>3. CASE ~failed
      BY <2>4, <3>1, <3>3 DEF Standard
    <3> QED
      BY <3>2, <3>3
  <2>6. ASSUME NEW c \in Stages PROVE pc[c] = "none" /\ fds[c] = NoFds
    <3>1. ChildAt(c) /\ ~Family(c)
      BY DEF ShellIInv, Family
    <3> QED
      BY <3>1, NoChild
  <2> QED
    BY <2>5, <2>6
<1> QED
  BY <1>1, ShellInductive, PTL

=============================================================================
