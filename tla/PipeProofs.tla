----------------------------- MODULE PipeProofs -----------------------------
(***************************************************************************)
(* Proofs about Pipe, for any size of the ring, any number of processes    *)
(* and reads and writes of any length.                                     *)
(***************************************************************************)
EXTENDS Pipe, DataFacts

(* A process inside a call has bytes to move, and one inside write has the *)
(* write end.                                                              *)
InCall ==
  \A p \in Procs :
    /\ pc[p] \in {"read", "write"} => left[p] # 0
    /\ pc[p] = "write" => "write" \in ends[p]

(* Initproc has the hart or waits for it, so that there is a process to    *)
(* run when another one exits.                                             *)
InitprocStays == current = Initproc \/ \E i \in 1 .. Len(ready) : ready[i] = Initproc

(***************************************************************************)
(* The inductive invariant.                                                *)
(***************************************************************************)
PipeIInv == PipeInv /\ EofIsFinal /\ InCall /\ InitprocStays

-----------------------------------------------------------------------------
(***************************************************************************)
(* The ring.  Unread is available_read as a function of the indices.       *)
(***************************************************************************)
N == RING_BUFFER_SIZE

Unread(h, t, s) == IF s = "Empty" THEN 0 ELSE IF t > h THEN t - h ELSE t + N - h

LEMMA UnreadIs == available_read = Unread(head, tail, buf_status)
  BY DEF available_read, Unread, N

LEMMA UnreadNext == available_read' = Unread(head', tail', buf_status')
  BY DEF available_read, Unread, N

(* How the count, the indices and the status hang together.                *)
LEMMA UnreadFacts ==
  ASSUME NEW h \in Slots, NEW t \in Slots, NEW s \in {"Full", "Empty", "Normal"},
         s \in {"Full", "Empty"} <=> h = t
  PROVE  LET a == Unread(h, t, s)
         IN  /\ a \in 0 .. N
             /\ t = (h + a) % N
             /\ a = 0 <=> s = "Empty"
             /\ a = N <=> s = "Full"
<1> DEFINE a == Unread(h, t, s)
<1>1. N \in Nat \ {0} /\ h \in 0 .. N - 1 /\ t \in 0 .. N - 1
  BY PipeAssumption DEF N, Slots
<1>2. a \in 0 .. N /\ (a = 0 <=> s = "Empty") /\ (a = N <=> s = "Full")
  BY <1>1 DEF Unread
<1>3. t = IF h + a < N THEN h + a ELSE h + a - N
  BY <1>1 DEF Unread
<1> HIDE DEF a
<1>4. (h + a) % N = IF h + a < N THEN h + a ELSE h + a - N
  BY <1>1, <1>2, WrapSlot
<1> QED
  BY <1>2, <1>3, <1>4 DEF a

(* A byte more, and a byte less.                                           *)
LEMMA UnreadMore ==
  ASSUME NEW h \in Slots, NEW t \in Slots, NEW s \in {"Full", "Empty", "Normal"},
         s \in {"Full", "Empty"} <=> h = t, s # "Full"
  PROVE  LET u == (t + 1) % N
             r == IF u = h THEN "Full" ELSE "Normal"
         IN  /\ u \in Slots
             /\ r \in {"Full", "Empty"} <=> h = u
             /\ Unread(h, u, r) = Unread(h, t, s) + 1
<1> DEFINE u == (t + 1) % N
<1>1. N \in Nat \ {0} /\ h \in 0 .. N - 1 /\ t \in 0 .. N - 1
  BY PipeAssumption DEF N, Slots
<1>2. u = (IF t + 1 < N THEN t + 1 ELSE t + 1 - N) /\ u \in 0 .. N - 1
  BY <1>1, WrapSlot, 1 \in 0 .. N
<1> HIDE DEF u
<1>3. u \in Slots
  BY <1>2 DEF Slots, N
<1>4. Unread(h, u, IF u = h THEN "Full" ELSE "Normal") = Unread(h, t, s) + 1
  BY <1>1, <1>2 DEF Unread
<1> QED
  BY <1>3, <1>4 DEF u

LEMMA UnreadLess ==
  ASSUME NEW h \in Slots, NEW t \in Slots, NEW s \in {"Full", "Empty", "Normal"},
         s \in {"Full", "Empty"} <=> h = t, s # "Empty"
  PROVE  LET u == (h + 1) % N
             r == IF u = t THEN "Empty" ELSE "Normal"
         IN  /\ u \in Slots
             /\ r \in {"Full", "Empty"} <=> u = t
             /\ Unread(u, t, r) = Unread(h, t, s) - 1
<1> DEFINE u == (h + 1) % N
<1>1. N \in Nat \ {0} /\ h \in 0 .. N - 1 /\ t \in 0 .. N - 1
  BY PipeAssumption DEF N, Slots
<1>2. u = (IF h + 1 < N THEN h + 1 ELSE h + 1 - N) /\ u \in 0 .. N - 1
  BY <1>1, WrapSlot, 1 \in 0 .. N
<1> HIDE DEF u
<1>3. u \in Slots
  BY <1>2 DEF Slots, N
<1>4. Unread(u, t, IF u = t THEN "Empty" ELSE "Normal") = Unread(h, t, s) - 1
  BY <1>1, <1>2 DEF Unread
<1> QED
  BY <1>3, <1>4 DEF u

-----------------------------------------------------------------------------
(* What PipeInv says of the ring, and of the processes.                    *)
Ring ==
  /\ arr \in [Slots -> 0 .. Bytes - 1]
  /\ head \in Slots /\ tail \in Slots
  /\ buf_status \in {"Full", "Empty", "Normal"}
  /\ next_in \in 0 .. Bytes - 1 /\ next_out \in 0 .. Bytes - 1
  /\ (buf_status \in {"Full", "Empty"}) <=> head = tail
  /\ InOrder

CallTypes ==
  /\ ends \in [Procs -> SUBSET {"read", "write"}]
  /\ pc \in [Procs -> {"free", "user", "read", "write"}]
  /\ left \in [Procs -> 0 .. MaxLen]
  /\ current \in Procs
  /\ ready \in Seq(Procs)
  /\ eof \in BOOLEAN

LEMMA PipeIsRing == PipeInv => Ring /\ CallTypes
  BY DEF PipeInv, PipeTypeOK, StatusAgrees, Ring, CallTypes

LEMMA RingFacts ==
  ASSUME Ring
  PROVE  /\ available_read \in 0 .. N /\ tail = (head + available_read) % N
         /\ available_read = 0 <=> buf_status = "Empty"
         /\ available_read = N <=> buf_status = "Full"
<1> QED
  BY UnreadIs, UnreadFacts DEF Ring

LEMMA RingIsPipe == Ring /\ CallTypes => PipeInv
<1>1. ASSUME Ring PROVE available_read + available_write = RING_BUFFER_SIZE
  <2>1. /\ available_read \in 0 .. N /\ N \in Nat
        /\ available_read = N <=> buf_status = "Full"
    BY <1>1, RingFacts, PipeAssumption DEF N
  <2> QED
    BY <2>1 DEF available_write, N
<1> QED
  BY <1>1 DEF PipeInv, PipeTypeOK, StatusAgrees, Ring, CallTypes

LEMMA WriteRing ==
  ASSUME Ring, available_write > 0, write_byte
  PROVE  Ring' /\ available_read' = available_read + 1
<1> DEFINE a == available_read
<1>1. /\ N \in Nat \ {0} /\ Bytes \in Nat \ {0} /\ N < Bytes /\ Slots = 0 .. N - 1
      /\ head \in 0 .. N - 1 /\ tail \in 0 .. N - 1
      /\ next_in \in 0 .. Bytes - 1 /\ next_out \in 0 .. Bytes - 1
  BY PipeAssumption DEF N, Slots, Ring
<1>2. buf_status # "Full"
  BY DEF available_write
<1>3. /\ a \in 0 .. N - 1 /\ tail = (head + a) % N
  BY <1>1, <1>2, RingFacts
<1>4. /\ a = (next_in - next_out) % Bytes
      /\ \A i \in 0 .. a - 1 : arr[(head + i) % N] = (next_out + i) % Bytes
  BY DEF Ring, InOrder, N
<1>5. /\ arr' = [arr EXCEPT ![tail] = next_in] /\ tail' = (tail + 1) % N
      /\ buf_status' = (IF tail' = head THEN "Full" ELSE "Normal")
      /\ next_in' = (next_in + 1) % Bytes /\ head' = head /\ next_out' = next_out
  BY DEF write_byte, N
<1>6. available_read' = a + 1 /\ tail' \in Slots /\ (buf_status' \in {"Full", "Empty"} <=> head' = tail')
  <2>1. /\ tail' \in Slots /\ (buf_status' \in {"Full", "Empty"} <=> head = tail')
        /\ Unread(head, tail', buf_status') = Unread(head, tail, buf_status) + 1
    BY <1>2, <1>5, UnreadMore DEF Ring
  <2> QED
    BY <1>5, <2>1, UnreadIs, UnreadNext
<1> HIDE DEF a
<1>7. next_in = (next_out + a) % Bytes /\ (next_in' - next_out) % Bytes = a + 1
      /\ next_in' \in 0 .. Bytes - 1
  <2>1. a = IF next_out <= next_in THEN next_in - next_out ELSE next_in - next_out + Bytes
    BY <1>1, <1>4, WrapDiff
  <2>2. (next_out + a) % Bytes = IF next_out + a < Bytes THEN next_out + a ELSE next_out + a - Bytes
    BY <1>1, <1>3, a \in 0 .. Bytes, WrapSlot
  <2>3. /\ next_in' = (IF next_in + 1 < Bytes THEN next_in + 1 ELSE next_in + 1 - Bytes)
        /\ next_in' \in 0 .. Bytes - 1
    BY <1>1, <1>5, 1 \in 0 .. Bytes, WrapSlot
  <2>4. (next_in' - next_out) % Bytes
          = IF next_out <= next_in' THEN next_in' - next_out ELSE next_in' - next_out + Bytes
    BY <1>1, <2>3, WrapDiff
  <2>5. next_in = (next_out + a) % Bytes
    BY <1>1, <1>3, <2>1, <2>2
  <2>6. (next_in' - next_out) % Bytes = a + 1
    BY <1>1, <1>3, <2>1, <2>3, <2>4
  <2> QED
    BY <2>3, <2>5, <2>6
<1>8. arr' \in [Slots -> 0 .. Bytes - 1]
  BY <1>1, <1>5 DEF Ring
<1>9. ASSUME NEW i \in 0 .. a PROVE arr'[(head + i) % N] = (next_out + i) % Bytes
  <2>1. (head + i) % N \in 0 .. N - 1
    BY <1>1, <1>3, i \in 0 .. N, WrapSlot
  <2>2. CASE i = a
    BY <1>1, <1>3, <1>5, <1>7, <2>2 DEF Ring
  <2>3. CASE i # a
    <3>1. (head + i) % N # tail
      BY <1>1, <1>3, <2>3, i \in 0 .. N - 1, WrapDistinct
    <3>2. arr'[(head + i) % N] = arr[(head + i) % N]
      BY <1>1, <1>5, <2>1, <3>1 DEF Ring
    <3> QED
      BY <1>3, <1>4, <2>3, <3>2
  <2> QED
    BY <2>2, <2>3
<1>10. InOrder'
  <2>1. \A i \in 0 .. available_read' - 1 :
          arr'[(head' + i) % RING_BUFFER_SIZE] = (next_out' + i) % Bytes
    BY <1>3, <1>5, <1>6, <1>9 DEF N
  <2> QED
    BY <1>5, <1>6, <1>7, <2>1 DEF InOrder
<1> QED
  BY <1>5, <1>6, <1>7, <1>8, <1>10 DEF Ring, a

LEMMA ReadRing ==
  ASSUME Ring, available_read > 0, read_byte
  PROVE  Ring' /\ available_read' = available_read - 1
<1> DEFINE a == available_read
<1>1. /\ N \in Nat \ {0} /\ Bytes \in Nat \ {0} /\ N < Bytes /\ Slots = 0 .. N - 1
      /\ head \in 0 .. N - 1 /\ tail \in 0 .. N - 1
      /\ next_in \in 0 .. Bytes - 1 /\ next_out \in 0 .. Bytes - 1
  BY PipeAssumption DEF N, Slots, Ring
<1>2. a \in 1 .. N /\ buf_status # "Empty"
  BY <1>1, RingFacts
<1>3. /\ a = (next_in - next_out) % Bytes
      /\ \A i \in 0 .. a - 1 : arr[(head + i) % N] = (next_out + i) % Bytes
  BY DEF Ring, InOrder, N
<1>4. /\ head' = (head + 1) % N /\ buf_status' = (IF head' = tail THEN "Empty" ELSE "Normal")
      /\ next_out' = (next_out + 1) % Bytes /\ arr' = arr /\ tail' = tail /\ next_in' = next_in
  BY DEF read_byte, N
<1>5. available_read' = a - 1 /\ head' \in Slots /\ (buf_status' \in {"Full", "Empty"} <=> head' = tail')
  <2>1. /\ head' \in Slots /\ (buf_status' \in {"Full", "Empty"} <=> head' = tail)
        /\ Unread(head', tail, buf_status') = Unread(head, tail, buf_status) - 1
    BY <1>2, <1>4, UnreadLess DEF Ring
  <2> QED
    BY <1>4, <2>1, UnreadIs, UnreadNext
<1> HIDE DEF a
<1>6. (next_in - next_out') % Bytes = a - 1 /\ next_out' \in 0 .. Bytes - 1
  <2>1. a = IF next_out <= next_in THEN next_in - next_out ELSE next_in - next_out + Bytes
    BY <1>1, <1>3, WrapDiff
  <2>2. /\ next_out' = (IF next_out + 1 < Bytes THEN next_out + 1 ELSE next_out + 1 - Bytes)
        /\ next_out' \in 0 .. Bytes - 1
    BY <1>1, <1>4, 1 \in 0 .. Bytes, WrapSlot
  <2>3. (next_in - next_out') % Bytes
          = IF next_out' <= next_in THEN next_in - next_out' ELSE next_in - next_out' + Bytes
    BY <1>1, <2>2, WrapDiff
  <2> QED
    BY <1>1, <1>2, <2>1, <2>2, <2>3
<1>7. ASSUME NEW i \in 0 .. a - 2 PROVE arr[(head' + i) % N] = (next_out' + i) % Bytes
  <2>1. (head' + i) % N = (head + (i + 1)) % N
    BY <1>1, <1>2, <1>4, i \in 0 .. N - 1, i # N - 1, WrapAdvance
  <2>2. (next_out' + i) % Bytes = (next_out + (i + 1)) % Bytes
    BY <1>1, <1>2, <1>4, i \in 0 .. Bytes - 1, i # Bytes - 1, WrapAdvance
  <2>3. i + 1 \in 0 .. a - 1
    BY <1>2
  <2> QED
    BY <1>3, <2>1, <2>2, <2>3
<1>8. InOrder'
  <2>1. available_read' - 1 = a - 2
    BY <1>2, <1>5
  <2>2. \A i \in 0 .. available_read' - 1 :
          arr'[(head' + i) % RING_BUFFER_SIZE] = (next_out' + i) % Bytes
    BY <1>4, <1>7, <2>1 DEF N
  <2> QED
    BY <1>4, <1>5, <1>6, <2>2 DEF InOrder
<1> QED
  BY <1>4, <1>5, <1>6, <1>8 DEF Ring, a

-----------------------------------------------------------------------------
LEMMA RingIsPipeNext == Ring' /\ CallTypes' => PipeInv'
  BY RingIsPipe, PTL

(* A step that leaves the buffer alone.                                    *)
LEMMA SameRing ==
  ASSUME Ring, UNCHANGED bufferVars PROVE Ring' /\ available_read' = available_read
  BY DEF Ring, bufferVars, InOrder, available_read

(* What is left when the first of a queue is taken.                        *)
LEMMA TailKeeps ==
  ASSUME NEW q \in Seq(Procs), NEW i \in 1 .. Len(q)
  PROVE  /\ Head(q) \in Procs /\ Tail(q) \in Seq(Procs)
         /\ Head(q) = q[i] \/ \E j \in 1 .. Len(Tail(q)) : Tail(q)[j] = q[i]
<1>1. q # << >> /\ Len(q) \in Nat \ {0}
  OBVIOUS
<1>2. /\ Head(q) = q[1] /\ Head(q) \in Procs /\ Tail(q) \in Seq(Procs)
      /\ Len(Tail(q)) = Len(q) - 1
      /\ \A j \in 1 .. Len(q) - 1 : Tail(q)[j] = q[j + 1]
  BY <1>1
<1>3. CASE i = 1
  BY <1>2, <1>3
<1>4. CASE i # 1
  <2>1. i - 1 \in 1 .. Len(Tail(q)) /\ (i - 1) + 1 = i
    BY <1>1, <1>2, <1>4
  <2>2. Tail(q)[i - 1] = q[(i - 1) + 1]
    BY <1>1, <1>2, <1>4, <2>1
  <2> QED
    BY <1>2, <2>1, <2>2
<1> QED
  BY <1>3, <1>4

(* The process that runs gives the hart to the first of the queue.         *)
LEMMA SuspendStep ==
  ASSUME current \in Procs, ready \in Seq(Procs), InitprocStays, suspend_current_and_run_next
  PROVE  current' \in Procs /\ ready' \in Seq(Procs) /\ InitprocStays'
<1> DEFINE q == Append(ready, current)
<1>1. /\ q \in Seq(Procs) /\ Len(q) = Len(ready) + 1 /\ Len(ready) \in Nat
      /\ q[Len(ready) + 1] = current /\ \A i \in 1 .. Len(ready) : q[i] = ready[i]
  BY AppendFacts
<1>2. current' = Head(q) /\ ready' = Tail(q)
  BY DEF suspend_current_and_run_next
<1> HIDE DEF q
<1>3. q # << >>
  BY <1>1
<1>4. PICK i \in 1 .. Len(q) : q[i] = Initproc
  BY <1>1 DEF InitprocStays
<1> QED
  BY <1>1, <1>2, <1>3, <1>4, TailKeeps DEF InitprocStays

(* What a call that moves a byte, or ends, does to the processes.          *)
LEMMA AdvanceStep ==
  ASSUME CallTypes, InCall, pc[current] \in {"read", "write"}, Advance \/ Return, ends' = ends
  PROVE  /\ pc' \in [Procs -> {"free", "user", "read", "write"}]
         /\ left' \in [Procs -> 0 .. MaxLen]
         /\ InCall'
         /\ \A p \in Procs : pc'[p] # "free" <=> pc[p] # "free"
<1>1. /\ pc \in [Procs -> {"free", "user", "read", "write"}] /\ current \in Procs
      /\ left \in [Procs -> 0 .. MaxLen] /\ left[current] # 0 /\ MaxLen \in Nat
  BY PipeAssumption DEF CallTypes, InCall
<1>2. CASE Return
  <2>1. pc' = [pc EXCEPT ![current] = "user"] /\ left' = [left EXCEPT ![current] = 0]
    BY <1>2 DEF Return
  <2> QED
    BY <1>1, <2>1 DEF InCall
<1>3. CASE left[current] # 1 /\ Advance
  <2>1. pc' = pc /\ left' = [left EXCEPT ![current] = left[current] - 1]
    BY <1>3 DEF Advance
  <2>2. left[current] - 1 \in 0 .. MaxLen /\ left[current] - 1 # 0
    BY <1>1, <1>3
  <2> QED
    BY <1>1, <2>1, <2>2 DEF InCall
<1> QED
  BY <1>2, <1>3 DEF Advance

(* Facts that every step starts from.                                      *)
LEMMA Given == PipeIInv => Ring /\ CallTypes /\ EofIsFinal /\ InCall /\ InitprocStays
  BY PipeIsRing DEF PipeIInv

LEMMA ReadByteStep == PipeIInv /\ ReadByte => PipeIInv'
<1> SUFFICES ASSUME PipeIInv, ReadByte PROVE PipeIInv'
  OBVIOUS
<1>1. Ring /\ CallTypes /\ EofIsFinal /\ InCall /\ InitprocStays
  BY Given
<1>2. /\ pc[current] = "read" /\ available_read > 0 /\ read_byte /\ Advance
      /\ current' = current /\ ready' = ready /\ ends' = ends /\ eof' = eof
  BY DEF ReadByte, KeepRunning
<1>3. Ring'
  BY <1>1, <1>2, ReadRing
<1>4. /\ pc' \in [Procs -> {"free", "user", "read", "write"}]
      /\ left' \in [Procs -> 0 .. MaxLen] /\ InCall'
  BY <1>1, <1>2, AdvanceStep
<1>5. CallTypes' /\ InitprocStays'
  BY <1>1, <1>2, <1>4 DEF CallTypes, InitprocStays
<1>6. EofIsFinal'
  <2>1. ~eof
    BY <1>1, <1>2 DEF EofIsFinal
  <2> QED
    BY <1>2, <2>1 DEF EofIsFinal
<1> QED
  BY <1>3, <1>4, <1>5, <1>6, RingIsPipeNext DEF PipeIInv

LEMMA WriteByteStep == PipeIInv /\ WriteByte => PipeIInv'
<1> SUFFICES ASSUME PipeIInv, WriteByte PROVE PipeIInv'
  OBVIOUS
<1>1. Ring /\ CallTypes /\ EofIsFinal /\ InCall /\ InitprocStays
  BY Given
<1>2. /\ pc[current] = "write" /\ available_write > 0 /\ write_byte /\ Advance
      /\ current' = current /\ ready' = ready /\ ends' = ends /\ eof' = eof
  BY DEF WriteByte, KeepRunning
<1>3. Ring'
  BY <1>1, <1>2, WriteRing
<1>4. /\ pc' \in [Procs -> {"free", "user", "read", "write"}]
      /\ left' \in [Procs -> 0 .. MaxLen] /\ InCall'
  BY <1>1, <1>2, AdvanceStep
<1>5. CallTypes' /\ InitprocStays'
  BY <1>1, <1>2, <1>4 DEF CallTypes, InitprocStays
<1>6. EofIsFinal'
  <2>1. ~eof
    BY <1>1, <1>2 DEF EofIsFinal, NoWriter, InCall, CallTypes
  <2> QED
    BY <1>2, <2>1 DEF EofIsFinal
<1> QED
  BY <1>3, <1>4, <1>5, <1>6, RingIsPipeNext DEF PipeIInv

LEMMA ReadEofStep == PipeIInv /\ ReadEof => PipeIInv'
<1> SUFFICES ASSUME PipeIInv, ReadEof PROVE PipeIInv'
  OBVIOUS
<1>1. Ring /\ CallTypes /\ InCall /\ InitprocStays
  BY Given
<1>2. /\ pc[current] = "read" /\ available_read = 0 /\ all_write_ends_closed /\ Return
      /\ current' = current /\ ready' = ready /\ ends' = ends /\ eof' = TRUE
      /\ UNCHANGED bufferVars
  BY DEF ReadEof, KeepRunning
<1>3. Ring' /\ available_read' = 0
  BY <1>1, <1>2, SameRing
<1>4. /\ pc' \in [Procs -> {"free", "user", "read", "write"}]
      /\ left' \in [Procs -> 0 .. MaxLen] /\ InCall'
  BY <1>1, <1>2, AdvanceStep
<1>5. CallTypes' /\ InitprocStays'
  BY <1>1, <1>2, <1>4 DEF CallTypes, InitprocStays
<1>6. EofIsFinal'
  BY <1>2, <1>3 DEF EofIsFinal, NoWriter, all_write_ends_closed
<1> QED
  BY <1>3, <1>4, <1>5, <1>6, RingIsPipeNext DEF PipeIInv

(* The steps that only give the hart away: a blocked read or write, and    *)
(* the timer.                                                              *)
LEMMA YieldStep ==
  ASSUME PipeIInv, suspend_current_and_run_next, UNCHANGED <<bufferVars, callVars, ends, eof>>
  PROVE  PipeIInv'
<1>1. Ring /\ CallTypes /\ EofIsFinal /\ InCall /\ InitprocStays
  BY Given
<1>2. pc' = pc /\ left' = left /\ ends' = ends /\ eof' = eof /\ UNCHANGED bufferVars
  BY DEF callVars
<1>3. Ring' /\ available_read' = available_read
  BY <1>1, <1>2, SameRing
<1>4. current' \in Procs /\ ready' \in Seq(Procs) /\ InitprocStays'
  BY <1>1, SuspendStep DEF CallTypes
<1>5. CallTypes' /\ InCall' /\ EofIsFinal'
  BY <1>1, <1>2, <1>3, <1>4 DEF CallTypes, InCall, EofIsFinal, NoWriter
<1> QED
  BY <1>3, <1>4, <1>5, RingIsPipeNext DEF PipeIInv

(* The steps of user mode.                                                 *)
LEMMA EnterStep ==
  ASSUME PipeIInv, NEW end \in {"read", "write"}, NEW len \in 1 .. MaxLen, Enter(end, len)
  PROVE  PipeIInv'
<1>1. Ring /\ CallTypes /\ EofIsFinal /\ InCall /\ InitprocStays
  BY Given
<1>2. /\ pc[current] = "user" /\ end \in ends[current]
      /\ pc' = [pc EXCEPT ![current] = end] /\ left' = [left EXCEPT ![current] = len]
      /\ current' = current /\ ready' = ready /\ ends' = ends /\ eof' = eof
      /\ UNCHANGED bufferVars
  BY DEF Enter, KeepRunning
<1>3. Ring' /\ available_read' = available_read
  BY <1>1, <1>2, SameRing
<1>4. len \in 0 .. MaxLen /\ len # 0
  BY PipeAssumption
<1>5. CallTypes' /\ InitprocStays'
  BY <1>1, <1>2, <1>4 DEF CallTypes, InitprocStays
<1>6. InCall' /\ EofIsFinal'
  BY <1>1, <1>2, <1>3, <1>4 DEF CallTypes, InCall, EofIsFinal, NoWriter
<1> QED
  BY <1>3, <1>5, <1>6, RingIsPipeNext DEF PipeIInv

LEMMA CloseStep ==
  ASSUME PipeIInv, NEW end \in {"read", "write"}, sys_close(end)
  PROVE  PipeIInv'
<1>1. Ring /\ CallTypes /\ EofIsFinal /\ InCall /\ InitprocStays
  BY Given
<1>2. /\ pc[current] = "user" /\ ends' = [ends EXCEPT ![current] = ends[current] \ {end}]
      /\ pc' = pc /\ left' = left /\ current' = current /\ ready' = ready /\ eof' = eof
      /\ UNCHANGED bufferVars
  BY DEF sys_close, KeepRunning, callVars
<1>3. Ring' /\ available_read' = available_read
  BY <1>1, <1>2, SameRing
<1>4. CallTypes' /\ InitprocStays'
  BY <1>1, <1>2 DEF CallTypes, InitprocStays
<1>5. InCall' /\ EofIsFinal'
  BY <1>1, <1>2, <1>3 DEF CallTypes, InCall, EofIsFinal, NoWriter
<1> QED
  BY <1>3, <1>4, <1>5, RingIsPipeNext DEF PipeIInv

LEMMA ForkStep ==
  ASSUME PipeIInv, NEW child \in Procs, sys_fork(child)
  PROVE  PipeIInv'
<1>1. Ring /\ CallTypes /\ EofIsFinal /\ InCall /\ InitprocStays
  BY Given
<1>2. /\ pc[current] = "user" /\ pc[child] = "free"
      /\ pc' = [pc EXCEPT ![child] = "user"] /\ ends' = [ends EXCEPT ![child] = ends[current]]
      /\ ready' = Append(ready, child) /\ left' = left /\ current' = current /\ eof' = eof
      /\ UNCHANGED bufferVars
  BY DEF sys_fork
<1>3. Ring' /\ available_read' = available_read
  BY <1>1, <1>2, SameRing
<1>4. /\ ready' \in Seq(Procs) /\ Len(ready') = Len(ready) + 1 /\ Len(ready) \in Nat
      /\ \A i \in 1 .. Len(ready) : ready'[i] = ready[i]
  BY <1>1, <1>2, AppendFacts DEF CallTypes
<1>5. InitprocStays'
  BY <1>1, <1>2, <1>4 DEF InitprocStays
<1>6. CallTypes'
  BY <1>1, <1>2, <1>4 DEF CallTypes
<1>7. InCall' /\ EofIsFinal'
  BY <1>1, <1>2, <1>3 DEF CallTypes, InCall, EofIsFinal, NoWriter
<1> QED
  BY <1>3, <1>5, <1>6, <1>7, RingIsPipeNext DEF PipeIInv

LEMMA ExitStep == PipeIInv /\ sys_exit => PipeIInv'
<1> SUFFICES ASSUME PipeIInv, sys_exit PROVE PipeIInv'
  OBVIOUS
<1>1. Ring /\ CallTypes /\ EofIsFinal /\ InCall /\ InitprocStays
  BY Given
<1>2. /\ pc[current] = "user" /\ current # Initproc
      /\ pc' = [pc EXCEPT ![current] = "free"] /\ ends' = [ends EXCEPT ![current] = {}]
      /\ current' = Head(ready) /\ ready' = Tail(ready) /\ left' = left /\ eof' = eof
      /\ UNCHANGED bufferVars
  BY DEF sys_exit
<1>3. Ring' /\ available_read' = available_read
  BY <1>1, <1>2, SameRing
<1>4. PICK i \in 1 .. Len(ready) : ready[i] = Initproc
  BY <1>1, <1>2 DEF InitprocStays
<1>5. current' \in Procs /\ ready' \in Seq(Procs) /\ InitprocStays'
  BY <1>1, <1>2, <1>4, TailKeeps DEF CallTypes, InitprocStays
<1>6. CallTypes'
  BY <1>1, <1>2, <1>5 DEF CallTypes
<1>7. InCall' /\ EofIsFinal'
  BY <1>1, <1>2, <1>3 DEF CallTypes, InCall, EofIsFinal, NoWriter
<1> QED
  BY <1>3, <1>5, <1>6, <1>7, RingIsPipeNext DEF PipeIInv

-----------------------------------------------------------------------------
LEMMA InitPipe == Init => PipeIInv
<1> SUFFICES ASSUME Init PROVE PipeIInv
  OBVIOUS
<1>1. RING_BUFFER_SIZE \in Nat \ {0} /\ Bytes \in Nat \ {0} /\ MaxLen \in Nat /\ Initproc \in Procs
  BY PipeAssumption
<1>2. available_read = 0
  BY DEF Init, available_read
<1>3. (0 - 0) % Bytes = 0
  BY <1>1, WrapDiff, 0 \in 0 .. Bytes - 1
<1>4. InOrder
  <2>1. 0 .. available_read - 1 = {}
    BY <1>2
  <2> QED
    BY <1>2, <1>3, <2>1 DEF Init, InOrder
<1>5. Ring
  BY <1>1, <1>4 DEF Init, Ring, Slots
<1>6. CallTypes /\ InCall /\ InitprocStays /\ EofIsFinal
  <2>1. CallTypes /\ InitprocStays /\ EofIsFinal
    <3>1. ends \in [Procs -> SUBSET {"read", "write"}]
      BY DEF Init
    <3>2. /\ pc \in [Procs -> {"free", "user", "read", "write"}]
          /\ left \in [Procs -> 0 .. MaxLen]
      BY <1>1 DEF Init
    <3>3. current \in Procs /\ ready \in Seq(Procs) /\ eof = FALSE /\ current = Initproc
      BY <1>1 DEF Init
    <3> QED
      BY <3>1, <3>2, <3>3 DEF CallTypes, InitprocStays, EofIsFinal
  <2>2. \A p \in Procs : pc[p] \notin {"read", "write"}
    BY DEF Init
  <2>3. InCall
    BY <2>2 DEF InCall
  <2> QED
    BY <2>1, <2>3
<1> QED
  BY <1>5, <1>6, RingIsPipe DEF PipeIInv

LEMMA NextPipe == PipeIInv /\ [Next]_vars => PipeIInv'
<1> SUFFICES ASSUME PipeIInv, [Next]_vars PROVE PipeIInv'
  OBVIOUS
<1>1. CASE ReadByte
  BY <1>1, ReadByteStep
<1>2. CASE ReadEof
  BY <1>2, ReadEofStep
<1>3. CASE ReadWait
  BY <1>3, YieldStep DEF ReadWait
<1>4. CASE WriteByte
  BY <1>4, WriteByteStep
<1>5. CASE WriteWait
  BY <1>5, YieldStep DEF WriteWait
<1>6. ASSUME NEW len \in 1 .. MaxLen, sys_read(len) \/ sys_write(len) PROVE PipeIInv'
  BY <1>6, EnterStep DEF sys_read, sys_write
<1>7. ASSUME NEW end \in {"read", "write"}, sys_close(end) PROVE PipeIInv'
  BY <1>7, CloseStep
<1>8. ASSUME NEW child \in Procs, sys_fork(child) PROVE PipeIInv'
  BY <1>8, ForkStep
<1>9. CASE sys_exit
  BY <1>9, ExitStep
<1>10. CASE Preempt
  BY <1>10, YieldStep DEF Preempt
<1>11. CASE UNCHANGED vars
  BY <1>11 DEF vars, bufferVars, callVars, PipeIInv, PipeInv, PipeTypeOK, StatusAgrees, InOrder,
       EofIsFinal, NoWriter, InCall, InitprocStays, available_read, available_write
<1> QED
  BY <1>1, <1>2, <1>3, <1>4, <1>5, <1>6, <1>7, <1>8, <1>9, <1>10, <1>11 DEF Next, Kernel, User

(***************************************************************************)
(* read and write of any processes, of any lengths and with a ring of any  *)
(* size, keep the bytes in order, lose none and double none, and the       *)
(* status flag tells a full ring from an empty one.                        *)
(***************************************************************************)
THEOREM PipeIsQueue == Spec => []PipeInv
<1>1. PipeIInv => PipeInv
  BY DEF PipeIInv
<1> QED
  BY <1>1, InitPipe, NextPipe, PTL DEF Spec

(***************************************************************************)
(* A read that returned end of file was right for good: no process has the *)
(* write end any more, by fork or otherwise, and nothing was left unread.  *)
(***************************************************************************)
THEOREM EofStaysFinal == Spec => []EofIsFinal
<1>1. PipeIInv => EofIsFinal
  BY DEF PipeIInv
<1> QED
  BY <1>1, InitPipe, NextPipe, PTL DEF Spec

=============================================================================
