-------------------------------- MODULE Pipe --------------------------------
(***************************************************************************)
(* One pipe shared by several processes: the ring buffer and the blocking  *)
(* read and write of os/src/fs/pipe.rs, under the round-robin scheduler of *)
(* os/src/task.                                                            *)
(*                                                                         *)
(* The kernel is not preempted: a process in the kernel keeps the hart     *)
(* until it returns to user mode or suspends itself, and a process in user *)
(* mode can be preempted by the timer at any point.  The loops of read and *)
(* write move one byte per step.                                           *)
(*                                                                         *)
(* The n-th byte ever written to the pipe has the value n % Bytes, so that *)
(* a byte lost, doubled or moved shows up in the values.                   *)
(***************************************************************************)
EXTENDS Integers, Sequences, FiniteSets

CONSTANTS
  RING_BUFFER_SIZE,   \* bytes of the ring buffer (32)
  Procs,              \* process slots
  Initproc,           \* a process that never exits
  MaxLen,             \* bound: the longest read or write
  Bytes               \* number of byte values

ASSUME PipeAssumption ==
  /\ RING_BUFFER_SIZE \in Nat \ {0}
  /\ Initproc \in Procs
  /\ IsFiniteSet(Procs)
  /\ MaxLen \in Nat \ {0}
  /\ Bytes \in Nat /\ Bytes > RING_BUFFER_SIZE

VARIABLES
  arr, head, tail, buf_status,   \* PipeRingBuffer
  ends,       \* per process: the ends of the pipe its descriptors refer to
  pc,         \* per process: "free", "user", "read" or "write"
  left,       \* per process: bytes its read or write has still to move
  current,    \* the process that has the hart
  ready,      \* the ready queue, next process first
  next_in,    \* history: value of the next byte to be written
  next_out,   \* history: value the next byte read should have
  eof         \* history: some read was told that the pipe is finished

bufferVars == <<arr, head, tail, buf_status, next_in, next_out>>
callVars == <<pc, left>>
vars == <<bufferVars, callVars, ends, current, ready, eof>>

Slots == 0 .. RING_BUFFER_SIZE - 1

Init ==
  /\ arr = [i \in Slots |-> 0]
  /\ head = 0 /\ tail = 0 /\ buf_status = "Empty"
  /\ next_in = 0 /\ next_out = 0
  /\ ends = [p \in Procs |-> IF p = Initproc THEN {"read", "write"} ELSE {}]
  /\ pc = [p \in Procs |-> IF p = Initproc THEN "user" ELSE "free"]
  /\ left = [p \in Procs |-> 0]
  /\ current = Initproc
  /\ ready = << >>
  /\ eof = FALSE

-----------------------------------------------------------------------------
(***************************************************************************)
(* PipeRingBuffer.                                                         *)
(***************************************************************************)
(* Faulty variant: equal indices always mean an empty buffer.              *)
available_read_by_index ==
  IF tail >= head THEN tail - head
  ELSE tail + RING_BUFFER_SIZE - head

available_read ==
  IF buf_status = "Empty" THEN 0
  ELSE IF tail > head THEN tail - head
  ELSE tail + RING_BUFFER_SIZE - head

available_write ==
  IF buf_status = "Full" THEN 0 ELSE RING_BUFFER_SIZE - available_read

(* Faulty variant: a buffer that fills up is not marked full.              *)
write_byte_never_full ==
  /\ arr' = [arr EXCEPT ![tail] = next_in]
  /\ tail' = (tail + 1) % RING_BUFFER_SIZE
  /\ buf_status' = "Normal"
  /\ next_in' = (next_in + 1) % Bytes
  /\ UNCHANGED <<head, next_out>>

write_byte ==
  /\ arr' = [arr EXCEPT ![tail] = next_in]
  /\ tail' = (tail + 1) % RING_BUFFER_SIZE
  /\ buf_status' = IF tail' = head THEN "Full" ELSE "Normal"
  /\ next_in' = (next_in + 1) % Bytes
  /\ UNCHANGED <<head, next_out>>

(* Faulty variant: a buffer that was drained is not marked empty.          *)
read_byte_never_empty ==
  /\ head' = (head + 1) % RING_BUFFER_SIZE
  /\ buf_status' = "Normal"
  /\ next_out' = (next_out + 1) % Bytes
  /\ UNCHANGED <<arr, tail, next_in>>

(* Faulty variant: the head runs past the last slot.                       *)
read_byte_no_wrap ==
  /\ head' = head + 1
  /\ buf_status' = IF head' = tail THEN "Empty" ELSE "Normal"
  /\ next_out' = (next_out + 1) % Bytes
  /\ UNCHANGED <<arr, tail, next_in>>

read_byte ==
  /\ head' = (head + 1) % RING_BUFFER_SIZE
  /\ buf_status' = IF head' = tail THEN "Empty" ELSE "Normal"
  /\ next_out' = (next_out + 1) % Bytes
  /\ UNCHANGED <<arr, tail, next_in>>

(* The write end is upgraded from a weak reference: it is gone when no     *)
(* descriptor refers to it.  A process inside write still has its own.     *)
(* Faulty variant: only the descriptors of the reader are looked at.       *)
all_write_ends_closed_own == "write" \notin ends[current]

all_write_ends_closed == \A p \in Procs : "write" \notin ends[p]

-----------------------------------------------------------------------------
(***************************************************************************)
(* The scheduler: suspend_current_and_run_next puts the process at the end *)
(* of the ready queue and runs the first one.                              *)
(***************************************************************************)
suspend_current_and_run_next ==
  LET queue == Append(ready, current)
  IN  current' = Head(queue) /\ ready' = Tail(queue)

KeepRunning == UNCHANGED <<current, ready>>

(* The call of the current process returns to user mode.                   *)
Return ==
  /\ pc' = [pc EXCEPT ![current] = "user"]
  /\ left' = [left EXCEPT ![current] = 0]

Advance ==
  IF left[current] = 1 THEN Return
  ELSE left' = [left EXCEPT ![current] = @ - 1] /\ UNCHANGED pc

(***************************************************************************)
(* Pipe::read: take what is there; when the buffer is empty return what    *)
(* was read if no write end is left, or let others run and try again.      *)
(***************************************************************************)
ReadByte ==
  /\ pc[current] = "read"
  /\ available_read > 0
  /\ read_byte
  /\ Advance
  /\ KeepRunning
  /\ UNCHANGED <<ends, eof>>

ReadEof ==
  /\ pc[current] = "read"
  /\ available_read = 0
  /\ all_write_ends_closed
  /\ Return
  /\ eof' = TRUE
  /\ KeepRunning
  /\ UNCHANGED <<bufferVars, ends>>

ReadWait ==
  /\ pc[current] = "read"
  /\ available_read = 0
  /\ ~all_write_ends_closed
  /\ suspend_current_and_run_next
  /\ UNCHANGED <<bufferVars, callVars, ends, eof>>

(***************************************************************************)
(* Pipe::write: put what fits; when the buffer is full let others run and  *)
(* try again.  Nothing is asked about readers.                             *)
(***************************************************************************)
WriteByte ==
  /\ pc[current] = "write"
  /\ available_write > 0
  /\ write_byte
  /\ Advance
  /\ KeepRunning
  /\ UNCHANGED <<ends, eof>>

WriteWait ==
  /\ pc[current] = "write"
  /\ available_write = 0
  /\ suspend_current_and_run_next
  /\ UNCHANGED <<bufferVars, callVars, ends, eof>>

Kernel == ReadByte \/ ReadEof \/ ReadWait \/ WriteByte \/ WriteWait

-----------------------------------------------------------------------------
(***************************************************************************)
(* What the current process does in user mode.  A call with length zero    *)
(* does nothing to the pipe.                                               *)
(***************************************************************************)
Enter(end, len) ==
  /\ pc[current] = "user"
  /\ end \in ends[current]
  /\ pc' = [pc EXCEPT ![current] = end]
  /\ left' = [left EXCEPT ![current] = len]
  /\ KeepRunning
  /\ UNCHANGED <<bufferVars, ends, eof>>

sys_read(len) == Enter("read", len)
sys_write(len) == Enter("write", len)

sys_close(end) ==
  /\ pc[current] = "user"
  /\ end \in ends[current]
  /\ ends' = [ends EXCEPT ![current] = @ \ {end}]
  /\ KeepRunning
  /\ UNCHANGED <<bufferVars, callVars, eof>>

sys_fork(child) ==
  /\ pc[current] = "user"
  /\ pc[child] = "free"
  /\ pc' = [pc EXCEPT ![child] = "user"]
  /\ ends' = [ends EXCEPT ![child] = ends[current]]
  /\ ready' = Append(ready, child)
  /\ UNCHANGED <<bufferVars, left, current, eof>>

(* Faulty variant: the descriptors outlive their process.                  *)
sys_exit_keep_fds ==
  /\ pc[current] = "user"
  /\ current # Initproc
  /\ pc' = [pc EXCEPT ![current] = "free"]
  /\ current' = Head(ready)
  /\ ready' = Tail(ready)
  /\ UNCHANGED <<bufferVars, left, ends, eof>>

sys_exit ==
  /\ pc[current] = "user"
  /\ current # Initproc
  /\ pc' = [pc EXCEPT ![current] = "free"]
  /\ ends' = [ends EXCEPT ![current] = {}]
  /\ current' = Head(ready)
  /\ ready' = Tail(ready)
  /\ UNCHANGED <<bufferVars, left, eof>>

(* The timer interrupt of trap_handler, or sys_yield.                      *)
Preempt ==
  /\ pc[current] = "user"
  /\ suspend_current_and_run_next
  /\ UNCHANGED <<bufferVars, callVars, ends, eof>>

User ==
  \/ \E len \in 1 .. MaxLen : sys_read(len) \/ sys_write(len)
  \/ \E end \in {"read", "write"} : sys_close(end)
  \/ \E child \in Procs : sys_fork(child)
  \/ sys_exit
  \/ Preempt

Next == Kernel \/ User

(* The kernel does not stop in the middle of a call, and a process that    *)
(* stays in user mode, or comes back to it again and again, meets the      *)
(* timer.  That every ready process gets the hart follows from the queue.  *)
Spec == Init /\ [][Next]_vars /\ WF_vars(Kernel) /\ SF_vars(Preempt)

-----------------------------------------------------------------------------
(***************************************************************************)
(* Type invariant.                                                         *)
(***************************************************************************)
PipeTypeOK ==
  /\ arr \in [Slots -> 0 .. Bytes - 1]
  /\ head \in Slots /\ tail \in Slots
  /\ buf_status \in {"Full", "Empty", "Normal"}
  /\ next_in \in 0 .. Bytes - 1 /\ next_out \in 0 .. Bytes - 1
  /\ ends \in [Procs -> SUBSET {"read", "write"}]
  /\ pc \in [Procs -> {"free", "user", "read", "write"}]
  /\ left \in [Procs -> 0 .. MaxLen]
  /\ current \in Procs
  /\ ready \in Seq(Procs)
  /\ eof \in BOOLEAN

(***************************************************************************)
(* First in, first out, nothing lost and nothing doubled: the unread part  *)
(* of the ring holds exactly the bytes written and not yet read, in order. *)
(***************************************************************************)
InOrder ==
  /\ available_read = (next_in - next_out) % Bytes
  /\ \A i \in 0 .. available_read - 1 :
       arr[(head + i) % RING_BUFFER_SIZE] = (next_out + i) % Bytes

(***************************************************************************)
(* The status flag, the two indices and the counts agree: Empty and Full   *)
(* are the only states with head = tail, and what can be read and what can *)
(* be written add up to the size.                                          *)
(***************************************************************************)
StatusAgrees ==
  /\ (buf_status \in {"Full", "Empty"}) <=> head = tail
  /\ available_read + available_write = RING_BUFFER_SIZE

(***************************************************************************)
(* The pipe is a bounded queue: the status flag, the indices and the bytes *)
(* agree with what was written and read, however reads and writes of any   *)
(* number of processes interleave.                                         *)
(***************************************************************************)
PipeInv == PipeTypeOK /\ StatusAgrees /\ InOrder

(* No process that exists has the write end.                               *)
NoWriter == \A p \in Procs : pc[p] # "free" => "write" \notin ends[p]

(***************************************************************************)
(* End of file is final: once a reader was told that the pipe is finished, *)
(* no process has a write end any more and no byte is left behind.         *)
(***************************************************************************)
EofIsFinal == eof => NoWriter /\ available_read = 0

(***************************************************************************)
(* A byte in the pipe does not wait forever while some process is reading: *)
(* no wake-up is lost between a write and a read that suspended itself.    *)
(***************************************************************************)
DataReachesReader ==
  <>[](next_in # next_out /\ \E p \in Procs : pc[p] = "read")
    => []<><<next_out' # next_out>>_vars

(***************************************************************************)
(* When the last process with the write end closed it or exited, every     *)
(* process inside read returns.                                            *)
(***************************************************************************)
ReadersSeeEof ==
  \A p \in Procs : (pc[p] = "read" /\ NoWriter) ~> pc[p] # "read"

(***************************************************************************)
(* As long as readers keep coming, the bytes of blocked writers go in.     *)
(***************************************************************************)
WritersProgress ==
  ([]<>(\E p \in Procs : pc[p] = "read") /\ <>[](\E p \in Procs : pc[p] = "write"))
    => []<><<next_in' # next_in>>_vars

=============================================================================
