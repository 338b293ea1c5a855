---------------------------- MODULE AuditProofs ----------------------------
(***************************************************************************)
(* Proofs about the audit ring and its reader auditctl, for every          *)
(* capacity, every largest sequence, every set of events and any number of *)
(* runs.                                                                   *)
(***************************************************************************)
EXTENDS AuditCtl, DataFacts

-----------------------------------------------------------------------------
(* A new ring satisfies the invariant.                                     *)
LEMMA InitRingInv == RingInit => RingInv
BY RingAssumption
   DEF RingInit, RingInv, RingTypeOK, RetainedContiguous, CountersAgree,
       Event, EMPTY, Slots

(* One accepted event preserves the type invariant.                        *)
LEMMA StoreTypeOK ==
  ASSUME RingInv, next_sequence # U64_MAX,
         NEW errno \in Errnos, NEW body \in Bodies, NumberAndStore(errno, body)
  PROVE  RingTypeOK'
<1> DEFINE event == [sequence |-> next_sequence, errno |-> errno, body |-> body]
<1>1. event \in Event
  BY RingAssumption DEF RingInv, RingTypeOK, Event
<1>2. next_sequence' \in 1 .. U64_MAX /\ total_events' \in Nat
      /\ successful_events' \in Nat /\ failed_events' \in Nat
  BY RingAssumption DEF RingInv, RingTypeOK, NumberAndStore, CountEvent
<1> HIDE DEF event
<1>3. CASE FillSlot(event)
  <2>1. (head + len) % AUDIT_RING_CAPACITY \in Slots
    BY WrapSlot, RingAssumption DEF RingInv, RingTypeOK, Slots
  <2> QED
    BY <1>1, <1>2, <1>3, <2>1, RingAssumption DEF RingInv, RingTypeOK, FillSlot
<1>4. CASE OverwriteOldest(event)
  <2>1. head' \in Slots
    <3>1. 1 \in 0 .. AUDIT_RING_CAPACITY
      BY RingAssumption
    <3> QED
      BY <1>4, <3>1, WrapSlot, RingAssumption
         DEF RingInv, RingTypeOK, OverwriteOldest, Slots
  <2> QED
    BY <1>1, <1>2, <1>4, <2>1 DEF RingInv, RingTypeOK, OverwriteOldest
<1> QED
  BY <1>3, <1>4 DEF NumberAndStore, event

(* One accepted event keeps the counters in agreement.                     *)
LEMMA StoreCounters ==
  ASSUME RingInv, next_sequence # U64_MAX,
         NEW errno \in Errnos, NEW body \in Bodies, NumberAndStore(errno, body)
  PROVE  CountersAgree'
BY RingAssumption
   DEF RingInv, RingTypeOK, CountersAgree, NumberAndStore, CountEvent,
       FillSlot, OverwriteOldest

(* One accepted event keeps the retained sequences consecutive.            *)
LEMMA StoreContiguous ==
  ASSUME RingInv, next_sequence # U64_MAX,
         NEW errno \in Errnos, NEW body \in Bodies, NumberAndStore(errno, body)
  PROVE  RetainedContiguous'
<1> DEFINE C == AUDIT_RING_CAPACITY
           event == [sequence |-> next_sequence, errno |-> errno, body |-> body]
<1> SUFFICES ASSUME NEW i \in 0 .. len' - 1
             PROVE  events'[(head' + i) % C].sequence = next_sequence' - len' + i
  BY DEF RetainedContiguous
<1>t. /\ C \in Nat \ {0} /\ head \in 0 .. C - 1 /\ len \in 0 .. C
      /\ events \in [0 .. C - 1 -> Event] /\ next_sequence \in Nat
      /\ next_sequence' = next_sequence + 1
  BY RingAssumption DEF RingInv, RingTypeOK, Slots, NumberAndStore
<1>r. \A j \in 0 .. len - 1 :
        events[(head + j) % C].sequence = next_sequence - len + j
  BY DEF RingInv, RetainedContiguous
<1>e. event.sequence = next_sequence
  OBVIOUS
<1>1. CASE FillSlot(event)
  <2>1. /\ len < C /\ len' = len + 1 /\ head' = head
        /\ events' = [events EXCEPT ![(head + len) % C] = event]
    BY <1>1 DEF FillSlot
  <2>2. (head + len) % C \in 0 .. C - 1 /\ (head + i) % C \in 0 .. C - 1
    BY <1>t, <2>1, WrapSlot
  <2>3. CASE i = len
    <3>1. events'[(head + i) % C] = event
      BY <1>t, <2>1, <2>2, <2>3
    <3> QED BY <1>t, <1>e, <2>1, <2>3, <3>1
  <2>4. CASE i # len
    <3>0. i \in 0 .. C - 1 /\ len \in 0 .. C - 1
      BY <1>t, <2>1
    <3>1. (head + i) % C # (head + len) % C
      BY <1>t, <2>4, <3>0, WrapDistinct, Zenon
    <3>2. events'[(head + i) % C] = events[(head + i) % C]
      BY <1>t, <2>1, <2>2, <3>1
    <3>3. i \in 0 .. len - 1
      BY <1>t, <2>1, <2>4
    <3>4. events[(head + i) % C].sequence = next_sequence - len + i
      BY <1>r, <3>3
    <3> QED BY <1>t, <2>1, <3>0, <3>2, <3>4
  <2> QED BY <2>3, <2>4
<1>2. CASE OverwriteOldest(event)
  <2>1. /\ len = C /\ len' = C /\ head' = (head + 1) % C
        /\ events' = [events EXCEPT ![head] = event]
    BY <1>2, <1>t DEF OverwriteOldest
  <2>2. i \in 0 .. C - 1
    BY <1>t, <2>1
  <2>3. (head' + i) % C = IF i = C - 1 THEN head ELSE (head + (i + 1)) % C
    BY <1>t, <2>1, <2>2, WrapAdvance, Zenon
  <2>4. CASE i = C - 1
    <3>1. events'[(head' + i) % C] = event
      BY <1>t, <2>1, <2>3, <2>4
    <3> QED BY <1>t, <1>e, <2>1, <2>4, <3>1
  <2>5. CASE i # C - 1
    <3>1. i + 1 \in 0 .. C - 1 /\ i + 1 # 0
      BY <1>t, <2>2, <2>5
    <3>2. (head + (i + 1)) % C # (head + 0) % C
      BY <1>t, <3>1, WrapDistinct, 0 \in 0 .. C - 1
    <3>3. (head + 0) % C = head
      BY <1>t, WrapBelow
    <3>4. (head + (i + 1)) % C \in 0 .. C - 1
      BY <1>t, <3>1, WrapSlot
    <3>5. events'[(head' + i) % C] = events[(head + (i + 1)) % C]
      BY <1>t, <2>1, <2>3, <2>5, <3>2, <3>3, <3>4
    <3>6. events[(head + (i + 1)) % C].sequence = next_sequence - len + (i + 1)
      BY <1>r, <1>t, <2>1, <3>1, Zenon
    <3> QED BY <1>t, <2>1, <2>2, <3>5, <3>6
  <2> QED BY <2>4, <2>5
<1> QED
  BY <1>1, <1>2 DEF NumberAndStore

(* Every step of the ring preserves the invariant.                         *)
LEMMA NextRingInv == RingInv /\ [RingNext]_ringVars => RingInv'
<1> SUFFICES ASSUME RingInv, [RingNext]_ringVars PROVE RingInv'
  OBVIOUS
<1>1. CASE UNCHANGED ringVars
  BY <1>1 DEF ringVars, RingInv, RingTypeOK, RetainedContiguous, CountersAgree
<1>2. ASSUME NEW errno \in Errnos, NEW body \in Bodies, push(errno, body)
      PROVE  RingInv'
  <2>1. CASE UNCHANGED ringVars
    BY <1>1, <2>1
  <2>2. CASE next_sequence # U64_MAX /\ NumberAndStore(errno, body)
    BY <2>2, StoreTypeOK, StoreCounters, StoreContiguous DEF RingInv
  <2> QED BY <1>2, <2>1, <2>2 DEF push
<1> QED
  BY <1>1, <1>2 DEF RingNext

(***************************************************************************)
(* push keeps the ring well formed for every capacity, every number of     *)
(* wrap-arounds and past the exhaustion of the sequence: the slots stay in *)
(* range, the retained sequences stay consecutive across the end of the    *)
(* array, and the counters agree.                                          *)
(***************************************************************************)
THEOREM RingInvariance == RingSpec => []RingInv
BY InitRingInv, NextRingInv, PTL DEF RingSpec

-----------------------------------------------------------------------------
(* The l events of a ring es read from slot h.                             *)
ReadOff(es, h, l) == [i \in 1 .. l |-> es[(h + (i - 1)) % AUDIT_RING_CAPACITY]]

(* Reading l events of a ring that starts at h gives a sequence of events. *)
LEMMA RetainedSeq ==
  ASSUME NEW es \in [Slots -> Event], NEW h \in Slots,
         NEW l \in 0 .. AUDIT_RING_CAPACITY
  PROVE  ReadOff(es, h, l) \in Seq(Event) /\ Len(ReadOff(es, h, l)) = l
<1>1. l \in Nat
  BY RingAssumption
<1>2. ASSUME NEW i \in 1 .. l
      PROVE  es[(h + (i - 1)) % AUDIT_RING_CAPACITY] \in Event
  <2>1. i - 1 \in 0 .. AUDIT_RING_CAPACITY
    BY RingAssumption
  <2>2. (h + (i - 1)) % AUDIT_RING_CAPACITY \in Slots
    BY <2>1, WrapSlot, RingAssumption DEF Slots
  <2> QED
    BY <2>2
<1> QED
  BY <1>1, <1>2 DEF ReadOff

(* An event stored in a free slot is appended to the log.                  *)
LEMMA FillAppends ==
  ASSUME RingInv, RingTypeOK', NEW event \in Event, FillSlot(event)
  PROVE  Retained' = Append(Retained, event)
<1> DEFINE C == AUDIT_RING_CAPACITY
<1>t. /\ C \in Nat \ {0} /\ head \in 0 .. C - 1 /\ len \in 0 .. C - 1
      /\ events \in [0 .. C - 1 -> Event]
      /\ len' = len + 1 /\ head' = head
      /\ events' = [events EXCEPT ![(head + len) % C] = event]
  BY RingAssumption DEF RingInv, RingTypeOK, Slots, FillSlot
<1>1. /\ Retained \in Seq(Event) /\ Len(Retained) = len
      /\ \A i \in 1 .. len : Retained[i] = events[(head + (i - 1)) % C]
  <2>1. /\ events \in [Slots -> Event] /\ head \in Slots
        /\ len \in 0 .. AUDIT_RING_CAPACITY
    BY DEF RingInv, RingTypeOK
  <2>2. Retained = ReadOff(events, head, len)
    BY DEF Retained, ReadOff
  <2>3. Retained \in Seq(Event) /\ Len(Retained) = len
    BY <2>1, <2>2, RetainedSeq
  <2> QED BY <2>2, <2>3, Zenon DEF ReadOff
<1>2. /\ Retained' \in Seq(Event) /\ Len(Retained') = len'
      /\ \A i \in 1 .. len' : Retained'[i] = events'[(head' + (i - 1)) % C]
  <2>1. /\ events' \in [Slots -> Event] /\ head' \in Slots
        /\ len' \in 0 .. AUDIT_RING_CAPACITY
    BY DEF RingTypeOK
  <2>2. Retained' = ReadOff(events', head', len')
    BY DEF Retained, ReadOff
  <2>3. Retained' \in Seq(Event) /\ Len(Retained') = len'
    BY <2>1, <2>2, RetainedSeq
  <2> QED BY <2>2, <2>3, Zenon DEF ReadOff
<1> HIDE DEF C
<1>3. ASSUME NEW i \in 1 .. len'
      PROVE  Retained'[i] = Append(Retained, event)[i]
  <2>1. i - 1 \in 0 .. C - 1 /\ i - 1 \in 0 .. C
    BY <1>t
  <2>2. (head + (i - 1)) % C \in 0 .. C - 1
    BY <1>t, <2>1, WrapSlot
  <2>3. CASE i = len'
    <3>1. i - 1 = len
      BY <1>t, <2>3
    <3>2. Retained'[i] = event
      BY <1>t, <1>2, <2>2, <3>1
    <3> QED BY <1>t, <1>1, <2>3, <3>2
  <2>4. CASE i # len'
    <3>1. i \in 1 .. len /\ i - 1 # len
      BY <1>t, <2>4
    <3>2. (head + (i - 1)) % C # (head + len) % C
      BY <1>t, <2>1, <3>1, WrapDistinct, Zenon
    <3>3. Retained'[i] = Retained[i]
      BY <1>t, <1>1, <1>2, <2>2, <3>1, <3>2
    <3> QED BY <1>t, <1>1, <3>1, <3>3
  <2> QED BY <2>3, <2>4, Zenon
<1>4. Append(Retained, event) \in Seq(Event) /\ Len(Append(Retained, event)) = len'
  BY <1>t, <1>1
<1> QED
  BY <1>2, <1>3, <1>4, SameElements

(* Overwriting the oldest event drops it from the log and appends the new. *)
LEMMA OverwriteShifts ==
  ASSUME RingInv, RingTypeOK', NEW event \in Event, OverwriteOldest(event)
  PROVE  Retained' = Append(Tail(Retained), event)
<1> DEFINE C == AUDIT_RING_CAPACITY
<1>t. /\ C \in Nat \ {0} /\ head \in 0 .. C - 1 /\ len = C
      /\ events \in [0 .. C - 1 -> Event]
      /\ len' = C /\ head' = (head + 1) % C
      /\ events' = [events EXCEPT ![head] = event]
  BY RingAssumption DEF RingInv, RingTypeOK, Slots, OverwriteOldest
<1>1. /\ Retained \in Seq(Event) /\ Len(Retained) = C
      /\ \A i \in 1 .. C : Retained[i] = events[(head + (i - 1)) % C]
  BY <1>t, RetainedSeq DEF RingInv, RingTypeOK, Retained, ReadOff
<1>2. /\ Retained' \in Seq(Event) /\ Len(Retained') = C
      /\ \A i \in 1 .. C : Retained'[i] = events'[(head' + (i - 1)) % C]
  BY <1>t, RetainedSeq DEF RingTypeOK, Retained, ReadOff
<1> HIDE DEF C
<1>3. /\ Tail(Retained) \in Seq(Event) /\ Len(Tail(Retained)) = C - 1
      /\ \A i \in 1 .. C - 1 : Tail(Retained)[i] = Retained[i + 1]
  <2>1. Retained # << >>
    BY <1>t, <1>1
  <2> QED BY <1>t, <1>1, <2>1
<1>4. ASSUME NEW i \in 1 .. C
      PROVE  Retained'[i] = Append(Tail(Retained), event)[i]
  <2>1. i - 1 \in 0 .. C - 1
    BY <1>t
  <2>2. (head' + (i - 1)) % C
          = IF i - 1 = C - 1 THEN head ELSE (head + ((i - 1) + 1)) % C
    BY <1>t, <2>1, WrapAdvance, Zenon
  <2>3. CASE i = C
    <3>1. Retained'[i] = event
      BY <1>t, <1>2, <2>2, <2>3
    <3> QED BY <1>t, <1>3, <2>3, <3>1
  <2>4. CASE i # C
    <3>1. i \in 1 .. C - 1 /\ i \in 0 .. C - 1 /\ i # 0 /\ i + 1 \in 1 .. C
      BY <1>t, <2>4
    <3>2. (head + i) % C \in 0 .. C - 1
      BY <1>t, <3>1, WrapSlot, i \in 0 .. C
    <3>3. (head + i) % C # (head + 0) % C /\ (head + 0) % C = head
      <4>1. 0 \in 0 .. C - 1 /\ head + 0 \in Nat /\ head + 0 = head /\ head < C
        BY <1>t
      <4>2. (head + 0) % C = head
        BY <1>t, <4>1, WrapBelow
      <4>3. (head + i) % C # (head + 0) % C
        BY <1>t, <3>1, <4>1, WrapDistinct, Zenon
      <4> QED BY <4>2, <4>3
    <3>4. (head' + (i - 1)) % C = (head + i) % C
      BY <1>t, <2>2, <2>4, (i - 1) + 1 = i
    <3>5. Retained'[i] = events[(head + i) % C]
      BY <1>t, <1>2, <3>2, <3>3, <3>4, Zenon
    <3>6. Retained[i + 1] = events[(head + i) % C]
      BY <1>1, <3>1, (i + 1) - 1 = i
    <3> QED BY <1>t, <1>3, <3>1, <3>5, <3>6
  <2> QED BY <2>3, <2>4, Zenon
<1>5. /\ Append(Tail(Retained), event) \in Seq(Event)
      /\ Len(Append(Tail(Retained), event)) = C
  BY <1>t, <1>3
<1> QED
  BY <1>2, <1>4, <1>5, SameElements

(***************************************************************************)
(* The ring implements the abstract log: for every capacity, push appends  *)
(* to the sequence of retained events and drops only the oldest one, and   *)
(* only when the ring is full.                                             *)
(***************************************************************************)
THEOREM RingImplementsLog == RingSpec => ImplementsLog
<1>1. RingInit => Log!LogInit
  BY RingAssumption DEF RingInit, Log!LogInit, Retained
<1>2. RingInv /\ RingInv' /\ [RingNext]_ringVars => [Log!LogNext]_(Log!logVars)
  <2> SUFFICES ASSUME RingInv, RingInv', [RingNext]_ringVars
               PROVE  [Log!LogNext]_(Log!logVars)
    OBVIOUS
  <2>1. CASE UNCHANGED ringVars
    BY <2>1 DEF ringVars, Log!logVars, Retained
  <2>2. ASSUME NEW errno \in Errnos, NEW body \in Bodies,
               next_sequence # U64_MAX, NumberAndStore(errno, body)
        PROVE  Log!Accept(errno, body)
    <3> DEFINE event == [sequence |-> next_sequence, errno |-> errno, body |-> body]
    <3>1. event \in Event
      BY RingAssumption DEF RingInv, RingTypeOK, Event
    <3>2. /\ next_sequence = total_events + 1 /\ total_events + 1 < U64_MAX
          /\ total_events' = total_events + 1
          /\ successful_events' = successful_events + (IF errno = 0 THEN 1 ELSE 0)
      BY <2>2, RingAssumption
         DEF RingInv, RingTypeOK, CountersAgree, NumberAndStore, CountEvent
    <3>3. Len(Retained) = len
      BY RetainedSeq DEF RingInv, RingTypeOK, Retained, ReadOff
    <3>4. event = [sequence |-> total_events + 1, errno |-> errno, body |-> body]
      BY <3>2
    <3>5. FillSlot(event) \/ OverwriteOldest(event)
      BY <2>2 DEF NumberAndStore
    <3> HIDE DEF event
    <3>6. Retained' = Append(IF Len(Retained) = AUDIT_RING_CAPACITY
                             THEN Tail(Retained) ELSE Retained, event)
      <4>1. CASE FillSlot(event)
        <5>1. Len(Retained) # AUDIT_RING_CAPACITY
          BY <3>3, <4>1, RingAssumption DEF FillSlot, RingInv, RingTypeOK
        <5> QED BY <3>1, <4>1, <5>1, FillAppends DEF RingInv
      <4>2. CASE OverwriteOldest(event)
        <5>1. Len(Retained) = AUDIT_RING_CAPACITY
          BY <3>3, <4>2, RingAssumption DEF OverwriteOldest, RingInv, RingTypeOK
        <5> QED BY <3>1, <4>2, <5>1, OverwriteShifts DEF RingInv
      <4> QED BY <3>5, <4>1, <4>2
    <3> QED
      BY <3>2, <3>4, <3>6 DEF Log!Accept
  <2> QED
    BY <2>1, <2>2 DEF RingNext, push, Log!LogNext
<1> QED
  BY <1>1, <1>2, InitRingInv, NextRingInv, PTL DEF RingSpec, ImplementsLog, Log!LogSpec

-----------------------------------------------------------------------------
(* The oldest retained sequence is the length of the window behind the     *)
(* next one.                                                               *)
LEMMA FirstIs ==
  ASSUME RingInv
  PROVE  /\ first_sequence = next_sequence - len /\ first_sequence \in Nat \ {0}
         /\ next_sequence \in 1 .. U64_MAX /\ len \in Nat
         /\ len = 0 => next_sequence = 1
<1>1. /\ head \in 0 .. AUDIT_RING_CAPACITY - 1 /\ len \in 0 .. AUDIT_RING_CAPACITY
      /\ next_sequence \in 1 .. U64_MAX /\ next_sequence = len + overwritten_events + 1
      /\ overwritten_events \in Nat /\ AUDIT_RING_CAPACITY \in Nat \ {0} /\ U64_MAX \in Nat
      /\ overwritten_events > 0 => len = AUDIT_RING_CAPACITY
  BY RingAssumption DEF RingInv, RingTypeOK, CountersAgree, Slots
<1>2. CASE len = 0
  BY <1>1, <1>2 DEF first_sequence
<1>3. CASE len # 0
  <2>1. (head + 0) % AUDIT_RING_CAPACITY = head
    BY <1>1, WrapBelow
  <2>2. events[(head + 0) % AUDIT_RING_CAPACITY].sequence = next_sequence - len + 0
    BY <1>1, <1>3, 0 \in 0 .. len - 1 DEF RingInv, RetainedContiguous
  <2>3. first_sequence = next_sequence - len
    BY <1>1, <1>3, <2>1, <2>2 DEF first_sequence
  <2> QED
    BY <1>1, <1>3, <2>3
<1> QED
  BY <1>2, <1>3

(* The window as a sequence, and the sequences in it.                      *)
LEMMA WindowIs ==
  ASSUME RingInv
  PROVE  /\ Retained \in Seq(Event) /\ Len(Retained) = len
         /\ \A i \in 1 .. len :
              /\ Retained[i] = events[(head + (i - 1)) % AUDIT_RING_CAPACITY]
              /\ Retained[i].sequence = first_sequence + (i - 1)
<1>1. Retained \in Seq(Event) /\ Len(Retained) = len
  BY RetainedSeq DEF RingInv, RingTypeOK, Retained, ReadOff
<1>2. ASSUME NEW i \in 1 .. len
      PROVE  /\ Retained[i] = events[(head + (i - 1)) % AUDIT_RING_CAPACITY]
             /\ Retained[i].sequence = first_sequence + (i - 1)
  <2>1. Retained[i] = events[(head + (i - 1)) % AUDIT_RING_CAPACITY]
    BY DEF Retained
  <2>2. i - 1 \in 0 .. len - 1
    BY FirstIs
  <2>3. events[(head + (i - 1)) % AUDIT_RING_CAPACITY].sequence = next_sequence - len + (i - 1)
    BY <2>2 DEF RingInv, RetainedContiguous
  <2> QED
    BY <2>1, <2>3, FirstIs
<1> QED
  BY <1>1, <1>2

(* What snapshot returns, as a part of the window: nothing when there is   *)
(* no room or nothing new, and otherwise a run of it that starts at the    *)
(* first event the reader has not seen.                                    *)
StartOf(after) == Maximum(after + 1, first_sequence)
CountOf(after, n) == Minimum(next_sequence - StartOf(after), Minimum(n, AUDIT_READ_MAX_RECORDS))

LEMMA SnapshotIs ==
  ASSUME RingInv, NEW after \in 0 .. U64_MAX, NEW n \in Nat
  PROVE  LET batch == snapshot(after, n)
             start == StartOf(after)
             count == CountOf(after, n)
         IN  /\ start \in Nat /\ start >= first_sequence /\ start > after
             /\ start = after + 1 \/ start = first_sequence
             /\ n = 0 \/ start >= next_sequence => batch.events = << >>
             /\ ~(n = 0 \/ start >= next_sequence) =>
                  /\ batch.events \in Seq(Event) /\ Len(batch.events) = count
                  /\ count \in 1 .. next_sequence - start /\ count <= n
                  /\ count <= AUDIT_READ_MAX_RECORDS
                  /\ \A i \in 1 .. count :
                       /\ start - first_sequence + i \in 1 .. len
                       /\ batch.events[i] = Retained[start - first_sequence + i]
                       /\ batch.events[i].sequence = start + (i - 1)
                  /\ batch.gap_before = (after + 1 < first_sequence)
<1> DEFINE batch == snapshot(after, n)
           start == StartOf(after)
           count == CountOf(after, n)
<1>1. /\ first_sequence \in Nat \ {0} /\ next_sequence \in 1 .. U64_MAX /\ len \in Nat
      /\ first_sequence = next_sequence - len
      /\ AUDIT_READ_MAX_RECORDS \in Nat \ {0} /\ U64_MAX \in Nat /\ after \in Nat
  BY FirstIs, RingAssumption
<1>2. /\ start \in Nat /\ start >= first_sequence /\ start > after
      /\ start = after + 1 \/ start = first_sequence
  BY <1>1 DEF StartOf, Maximum
<1>3. ASSUME n = 0 \/ start >= next_sequence PROVE batch.events = << >>
  <2>1. Minimum(n, AUDIT_READ_MAX_RECORDS) = 0 \/ start >= next_sequence
    BY <1>1, <1>3 DEF Minimum
  <2> QED
    BY <2>1 DEF snapshot, EmptyBatch, StartOf
<1>4. ASSUME ~(n = 0 \/ start >= next_sequence)
      PROVE  /\ batch.events \in Seq(Event) /\ Len(batch.events) = count
             /\ count \in 1 .. next_sequence - start /\ count <= n
             /\ count <= AUDIT_READ_MAX_RECORDS
             /\ \A i \in 1 .. count :
                  /\ start - first_sequence + i \in 1 .. len
                  /\ batch.events[i] = Retained[start - first_sequence + i]
                  /\ batch.events[i].sequence = start + (i - 1)
             /\ batch.gap_before = (after + 1 < first_sequence)
  <2>1. /\ count \in 1 .. next_sequence - start /\ count <= n
        /\ count <= AUDIT_READ_MAX_RECORDS
    BY <1>1, <1>2, <1>4 DEF CountOf, Minimum
  <2>2. /\ Minimum(n, AUDIT_READ_MAX_RECORDS) # 0 /\ len # 0 /\ after # U64_MAX
    BY <1>1, <1>2, <1>4 DEF Minimum
  <2>3. batch = BatchFrom(start, count, after + 1 < first_sequence)
    BY <1>4, <2>2 DEF snapshot, StartOf, CountOf
  <2> HIDE DEF start, count
  <2>4. /\ batch.events = [i \in 1 .. count |->
                             events[(head + (start - first_sequence) + (i - 1))
                                      % AUDIT_RING_CAPACITY]]
        /\ batch.gap_before = (after + 1 < first_sequence)
    BY <2>3 DEF BatchFrom
  <2> HIDE DEF batch
  <2>5. ASSUME NEW i \in 1 .. count
        PROVE  /\ start - first_sequence + i \in 1 .. len
               /\ batch.events[i] = Retained[start - first_sequence + i]
               /\ batch.events[i].sequence = start + (i - 1)
               /\ batch.events[i] \in Event
    <3> DEFINE j == start - first_sequence + i
    <3>1. j \in 1 .. len
      BY <1>1, <1>2, <2>1
    <3>2. batch.events[i] = events[(head + (start - first_sequence) + (i - 1)) % AUDIT_RING_CAPACITY]
      BY <2>4
    <3>3. /\ head + (start - first_sequence) + (i - 1) = head + (j - 1)
          /\ first_sequence + (j - 1) = start + (i - 1)
      BY <1>1, <1>2, <2>1 DEF RingInv, RingTypeOK, Slots
    <3> HIDE DEF j
    <3>4. /\ Retained[j] = events[(head + (j - 1)) % AUDIT_RING_CAPACITY]
          /\ Retained[j].sequence = first_sequence + (j - 1)
      BY <3>1, WindowIs
    <3>5. Retained[j] \in Event
      BY <3>1, WindowIs
    <3> QED
      BY <3>1, <3>2, <3>3, <3>4, <3>5 DEF j
  <2>6. batch.events \in Seq(Event) /\ Len(batch.events) = count
    BY <2>1, <2>4, <2>5, <1>1, <1>2
  <2> QED
    BY <2>1, <2>4, <2>5, <2>6
<1> QED
  BY <1>2, <1>3, <1>4

(* In a ring that is well formed snapshot keeps its promise.               *)
LEMMA SnapshotOfRing == RingInv => SnapshotExact
<1> SUFFICES ASSUME RingInv, NEW after \in 0 .. U64_MAX,
                    NEW n \in 0 .. AUDIT_READ_MAX_RECORDS + 1
             PROVE  LET batch == snapshot(after, n)
                    IN  /\ batch.events = Log!ReadBatch(after, n)
                        /\ batch.events # << >> => batch.gap_before = Log!Missed(after)
  BY DEF SnapshotExact
<1> DEFINE batch == snapshot(after, n)
           start == StartOf(after)
           count == CountOf(after, n)
           skip == IF start < next_sequence THEN start - first_sequence ELSE len
<1>1. /\ first_sequence \in Nat \ {0} /\ next_sequence \in 1 .. U64_MAX /\ len \in Nat
      /\ first_sequence = next_sequence - len /\ total_events = next_sequence - 1
      /\ AUDIT_READ_MAX_RECORDS \in Nat \ {0} /\ after \in Nat /\ n \in Nat
  BY FirstIs, RingAssumption DEF RingInv, CountersAgree, RingTypeOK
<1>2. /\ start \in Nat /\ start >= first_sequence /\ start > after
      /\ start = after + 1 \/ start = first_sequence
  BY <1>1, SnapshotIs
<1>3. /\ Retained \in Seq(Event) /\ Len(Retained) = len
      /\ \A i \in 1 .. len : Retained[i].sequence = first_sequence + (i - 1)
  BY WindowIs
<1>4. n = 0 \/ start >= next_sequence => batch.events = << >>
  BY <1>1, SnapshotIs
<1>5. ~(n = 0 \/ start >= next_sequence) =>
        /\ batch.events \in Seq(Event) /\ Len(batch.events) = count
        /\ count \in 1 .. next_sequence - start /\ count <= n
        /\ count <= AUDIT_READ_MAX_RECORDS
        /\ \A i \in 1 .. count :
             /\ start - first_sequence + i \in 1 .. len
             /\ batch.events[i] = Retained[start - first_sequence + i]
             /\ batch.events[i].sequence = start + (i - 1)
        /\ batch.gap_before = (after + 1 < first_sequence)
  BY <1>1, SnapshotIs, Zenon
<1>6. ~(n = 0 \/ start >= next_sequence) =>
        count = IF len - skip < Minimum(n, AUDIT_READ_MAX_RECORDS)
                THEN len - skip ELSE Minimum(n, AUDIT_READ_MAX_RECORDS)
  BY <1>1, <1>2 DEF CountOf, Minimum
<1> HIDE DEF batch, start, count
<1>7. skip \in 0 .. len /\ \A i \in 1 .. len : i > skip <=> Retained[i].sequence > after
  BY <1>1, <1>2, <1>3
<1>8. Log!Seen(after) = skip
  <2>1. \A k \in 0 .. len :
          (\A i \in 1 .. len : i > k <=> Retained[i].sequence > after) => k = skip
    <3> SUFFICES ASSUME NEW k \in 0 .. len, k # skip,
                        \A i \in 1 .. len : i > k <=> Retained[i].sequence > after
                 PROVE  FALSE
      OBVIOUS
    <3>1. \A i \in 1 .. len : i > k <=> i > skip
      BY <1>7
    <3> HIDE DEF skip
    <3>2. CASE k < skip
      BY <1>1, <1>7, <3>1, <3>2, skip \in 1 .. len
    <3>3. CASE skip < k
      BY <1>1, <1>7, <3>1, <3>3, k \in 1 .. len
    <3> QED
      BY <1>1, <1>7, <3>2, <3>3
  <2> HIDE DEF skip
  <2> QED
    BY <1>3, <1>7, <2>1 DEF Log!Seen
<1> HIDE DEF skip
<1>9. batch.events = Log!ReadBatch(after, n)
  <2> DEFINE m == Minimum(n, AUDIT_READ_MAX_RECORDS)
             l == IF len - skip < m THEN len - skip ELSE m
             w == SubSeq(Retained, skip + 1, skip + l)
  <2>1. Log!ReadBatch(after, n) = w
    BY <1>3, <1>8 DEF Log!ReadBatch, Minimum
  <2>2. m \in Nat /\ (n = 0 => m = 0) /\ l \in 0 .. len - skip
    BY <1>1, <1>7 DEF Minimum
  <2>3. /\ skip + 1 \in Int /\ skip + l \in Int
        /\ \A i \in skip + 1 .. skip + l : Retained[i] \in Event
    BY <1>1, <1>3, <1>7, <2>2
  <2> HIDE DEF m, l
  <2>4. /\ w \in Seq(Event) /\ Len(w) = l
        /\ \A i \in 1 .. l : w[i] = Retained[skip + i]
    <3> DEFINE a == skip + 1
               b == skip + l
    <3>1. a \in Int /\ b \in Int /\ b - a + 1 = l /\ (IF a <= b THEN b - a + 1 ELSE 0) = l
          /\ \A i \in 1 .. l : a + i - 1 = skip + i
      BY <1>1, <1>7, <2>2
    <3>2. \A i \in a .. b : Retained[i] \in Event
      BY <2>3
    <3> HIDE DEF a, b
    <3>3. /\ SubSeq(Retained, a, b) \in Seq(Event)
          /\ Len(SubSeq(Retained, a, b)) = IF a <= b THEN b - a + 1 ELSE 0
          /\ \A i \in 1 .. b - a + 1 : SubSeq(Retained, a, b)[i] = Retained[a + i - 1]
      BY <3>1, <3>2
    <3>4. w = SubSeq(Retained, a, b)
      BY DEF a, b
    <3> HIDE DEF w
    <3> QED
      BY <3>1, <3>3, <3>4
  <2> HIDE DEF w
  <2>5. CASE n = 0 \/ start >= next_sequence
    <3>1. l = 0
      BY <1>1, <1>2, <1>7, <2>2, <2>5 DEF l, m, skip
    <3>2. w = << >>
      BY <2>4, <3>1
    <3> QED
      BY <1>4, <2>1, <2>5, <3>2
  <2>6. CASE ~(n = 0 \/ start >= next_sequence)
    <3>1. count = l /\ skip = start - first_sequence
      BY <1>6, <2>6, <1>1, <1>2 DEF l, m, skip
    <3>2. \A i \in 1 .. l : batch.events[i] = w[i]
      BY <1>5, <2>4, <2>6, <3>1, Zenon
    <3> QED
      BY <1>5, <2>1, <2>4, <2>6, <3>1, <3>2, SameElements
  <2> QED
    BY <2>5, <2>6
<1>10. ASSUME batch.events # << >> PROVE batch.gap_before = Log!Missed(after)
  <2>1. batch.gap_before = (after + 1 < first_sequence) /\ start < next_sequence
    BY <1>1, <1>2, <1>4, <1>5, <1>10
  <2>2. ASSUME after + 1 < first_sequence PROVE Log!Missed(after)
    <3>1. after + 1 \in after + 1 .. total_events
      BY <1>1, <1>2, <2>1, <2>2
    <3>2. \A i \in 1 .. len : Retained[i].sequence # after + 1
      BY <1>1, <1>3, <2>2
    <3> QED
      BY <1>3, <3>1, <3>2 DEF Log!Missed
  <2>3. ASSUME Log!Missed(after) PROVE after + 1 < first_sequence
    <3>1. PICK s \in after + 1 .. total_events : \A i \in 1 .. len : Retained[i].sequence # s
      BY <1>3, <2>3 DEF Log!Missed
    <3>2. CASE s < first_sequence
      BY <1>1, <3>1, <3>2
    <3>3. CASE s >= first_sequence
      <4> DEFINE j == s - first_sequence + 1
      <4>1. j \in 1 .. len /\ first_sequence + (j - 1) = s
        BY <1>1, <3>1, <3>3
      <4> HIDE DEF j
      <4> QED
        BY <1>3, <3>1, <4>1
    <3> QED
      BY <1>1, <3>1, <3>2, <3>3
  <2>4. batch.gap_before \in BOOLEAN /\ Log!Missed(after) \in BOOLEAN
    BY <2>1 DEF Log!Missed
  <2> QED
    BY <2>1, <2>2, <2>3, <2>4
<1> QED
  BY <1>9, <1>10 DEF batch

(***************************************************************************)
(* snapshot returns what the abstract log promises, for every capacity of  *)
(* the ring, every cursor and every size of the buffer: the oldest unseen  *)
(* events without hole or duplicate, and the gap mark exactly when an      *)
(* event the reader has not seen was overwritten.                          *)
(***************************************************************************)
THEOREM SnapshotsAreExact == RingSpec => []SnapshotExact
BY RingInvariance, SnapshotOfRing, PTL

-----------------------------------------------------------------------------
CtlTypes ==
  /\ authorised \in BOOLEAN /\ rejected \in BOOLEAN /\ room \in Nat
  /\ cursor \in 0 .. U64_MAX /\ origin \in 0 .. U64_MAX
  /\ through \in Nat /\ finished \in Nat
  /\ shown \in Seq(Nat) /\ warnings \subseteq Nat \X Nat

(* Event s was shown, or lies in a gap that was reported.                  *)
Covered(s) ==
  \/ \E w \in warnings : w[1] < s /\ s < w[2]
  \/ \E i \in 1 .. Len(shown) : shown[i] = s

(* What auditctl has shown lies between the two cursors, and between them  *)
(* nothing is missing.                                                     *)
CursorHonest ==
  /\ origin <= cursor
  /\ \A i \in 1 .. Len(shown) : origin < shown[i] /\ shown[i] <= cursor
  /\ \A s \in origin + 1 .. cursor : Covered(s)

(***************************************************************************)
(* The inductive invariant.  A run may end with status 0 at a cursor below *)
(* the tail it aimed at, when the records up to it were overwritten and    *)
(* the warning covers them; so the cursor and finished are bounds of their *)
(* own.  A run never aims past the ring, so its reads find something.      *)
(***************************************************************************)
CtlIInv ==
  /\ RingInv /\ CtlTypes /\ CursorHonest
  /\ through < next_sequence
  /\ NoSilentLoss /\ NoFalseAlarm /\ ShownOnce

(* Whoever makes it, a system call that ends with errno is a step of the   *)
(* ring or none at all, and none if it succeeds.                           *)
LEMMA FinishStep ==
  ASSUME NEW operation \in {"audit_read", "ipc_stat"}, NEW errno \in Errnos,
         finish_control_call(operation, errno)
  PROVE  [RingNext]_ringVars /\ (errno = 0 => UNCHANGED ringVars)
BY SyscallAssumption DEF finish_control_call, RingNext

(* The errors of the two calls.                                            *)
LEMMA CallErrnos ==
  ASSUME NEW privileged \in BOOLEAN, NEW capacity, NEW after, NEW fit, NEW valid
  PROVE  /\ read_records(privileged, capacity, after, fit).errno \in {0, EPERM, EFAULT}
         /\ read_stats(privileged, valid, fit) \in {0, EPERM, EFAULT, EINVAL}
         /\ {0, EPERM, EFAULT, EINVAL} \subseteq Errnos
BY SyscallAssumption DEF read_records, read_stats

(* Every step of the composition is a step of the ring or leaves it alone. *)
LEMMA RingStep ==
  ASSUME CtlTypes, [Next]_vars
  PROVE  [RingNext]_ringVars
<1>1. CASE UNCHANGED vars \/ Start \/ read_end
  BY <1>1 DEF vars, Start, read_end
<1>2. CASE load_stats
  BY <1>2, FinishStep, CallErrnos, Zenon DEF load_stats, CtlTypes
<1>3. CASE read_loop
  <2> DEFINE e == read_records(authorised, BATCH_SIZE, cursor, room).errno
  <2>1. e \in Errnos
    BY CallErrnos DEF CtlTypes
  <2>2. finish_control_call("audit_read", e)
    BY <1>3 DEF read_loop
  <2> QED
    BY <2>1, <2>2, FinishStep
<1>4. CASE IpcCompletes
  BY <1>4, SyscallAssumption DEF IpcCompletes, record, RingNext
<1>5. CASE sys_audit_read
  <2>1. PICK privileged \in BOOLEAN, capacity \in {0, AUDIT_READ_MAX_RECORDS + 1} :
          finish_control_call("audit_read", read_records(privileged, capacity, 0, 1).errno)
    BY <1>5 DEF sys_audit_read
  <2>2. read_records(privileged, capacity, 0, 1).errno \in Errnos
    BY CallErrnos
  <2> QED
    BY <2>1, <2>2, FinishStep
<1>6. CASE sys_ipc_stat
  <2>1. PICK valid \in BOOLEAN, fit \in {0, 1} :
          finish_control_call("ipc_stat", read_stats(TRUE, valid, fit))
    BY <1>6, Zenon DEF sys_ipc_stat
  <2>2. read_stats(TRUE, valid, fit) \in Errnos
    BY CallErrnos, Zenon
  <2> QED
    BY <2>1, <2>2, FinishStep, Zenon
<1> QED
  BY <1>1, <1>2, <1>3, <1>4, <1>5, <1>6 DEF Next, Run, Others

(* The window only moves forward.                                          *)
LEMMA RingForward ==
  ASSUME RingInv, [RingNext]_ringVars
  PROVE  /\ RingInv' /\ next_sequence' >= next_sequence
         /\ first_sequence' >= first_sequence
<1>1. RingInv'
  BY NextRingInv
<1>2. /\ first_sequence = next_sequence - len /\ next_sequence \in Nat /\ len \in Nat
  BY FirstIs
<1>3. (first_sequence = next_sequence - len)'
  BY <1>1, FirstIs, PTL
<1>4. CASE UNCHANGED ringVars
  BY <1>1, <1>2, <1>3, <1>4 DEF ringVars
<1>5. ASSUME NEW errno \in Errnos, NEW body \in Bodies, push(errno, body)
      PROVE  next_sequence' >= next_sequence /\ first_sequence' >= first_sequence
  <2>1. CASE UNCHANGED ringVars
    BY <1>2, <1>3, <2>1 DEF ringVars
  <2>2. CASE NumberAndStore(errno, body)
    <3>1. next_sequence' = next_sequence + 1 /\ (len' = len + 1 \/ len' = len)
      BY <2>2 DEF NumberAndStore, FillSlot, OverwriteOldest
    <3> QED
      BY <1>2, <1>3, <3>1
  <2> QED
    BY <1>5, <2>1, <2>2 DEF push
<1> QED
  BY <1>1, <1>4, <1>5 DEF RingNext

(* The answer of ipc_stat passes the check auditctl makes.                 *)
LEMMA StatsConsistent == RingInv => Consistent(stats)
<1> SUFFICES ASSUME RingInv PROVE Consistent(stats)
  OBVIOUS
<1> QED
  BY FirstIs, RingAssumption
     DEF Consistent, stats, RingInv, RingTypeOK, CountersAgree

(* A step that shows nothing and warns of nothing keeps the promises, if   *)
(* it counts as finished only what the cursor has reached.                 *)
LEMMA QuietStep ==
  ASSUME CtlIInv, [RingNext]_ringVars, CtlTypes',
         UNCHANGED <<cursor, origin, shown, warnings, rejected>>,
         finished' = finished \/ (through <= cursor /\ finished' = Maximum(finished, through)),
         through' = through \/ through' = next_sequence - 1
  PROVE  CtlIInv'
<1>1. /\ RingInv' /\ next_sequence' >= next_sequence /\ first_sequence' >= first_sequence
  BY RingForward DEF CtlIInv
<1>2. /\ next_sequence \in Nat /\ first_sequence \in Nat /\ next_sequence' \in Nat
      /\ first_sequence' \in Nat
  <2>1. next_sequence \in Nat /\ first_sequence \in Nat
    BY FirstIs DEF CtlIInv
  <2>2. (next_sequence \in 1 .. U64_MAX)' /\ (first_sequence \in Nat \ {0})'
    BY <1>1, FirstIs, PTL
  <2> QED
    BY <2>1, <2>2, RingAssumption
<1>3. through' < next_sequence'
  BY <1>1, <1>2 DEF CtlIInv, CtlTypes
<1>4. CursorHonest' /\ ShownOnce'
  BY DEF CtlIInv, CursorHonest, Covered, ShownOnce
<1>5. NoSilentLoss'
  <2> SUFFICES ASSUME NEW s \in origin + 1 .. finished' PROVE Covered(s)
    BY DEF NoSilentLoss, Covered
  <2>1. s \in origin + 1 .. finished \/ s \in origin + 1 .. cursor
    BY DEF Maximum, CtlIInv, CtlTypes
  <2> QED
    BY <2>1 DEF CtlIInv, NoSilentLoss, CursorHonest, Covered
<1>6. NoFalseAlarm'
  <2>1. \A w \in warnings : w[2] \in Nat /\ w[2] <= first_sequence
    BY DEF CtlIInv, NoFalseAlarm, CtlTypes
  <2>2. \A w \in warnings : w[2] <= first_sequence'
    BY <1>1, <1>2, <2>1
  <2> QED
    BY <2>2 DEF CtlIInv, NoFalseAlarm
<1> QED
  BY <1>1, <1>3, <1>4, <1>5, <1>6 DEF CtlIInv

(* What audit_read answers to a run that is not at its tail: records that  *)
(* follow the cursor, with a gap mark on the first one exactly if they do  *)
(* not follow it immediately; or an error.                                 *)
LEMMA ReadAnswer ==
  ASSUME CtlIInv, cursor < through,
         read_records(authorised, BATCH_SIZE, cursor, room).errno = 0
  PROVE  LET records == read_records(authorised, BATCH_SIZE, cursor, room).records
             start == StartOf(cursor)
             count == CountOf(cursor, BATCH_SIZE)
         IN  /\ start \in Nat /\ start > cursor /\ start >= first_sequence
             /\ start = cursor + 1 \/ start = first_sequence
             /\ count \in Nat \ {0} /\ start + count <= next_sequence
             /\ Len(records) = count /\ records # << >>
             /\ \A i \in 1 .. count :
                  /\ records[i].sequence = start + (i - 1)
                  /\ records[i].gap = (i = 1 /\ cursor + 1 < first_sequence)
<1> DEFINE out == read_records(authorised, BATCH_SIZE, cursor, room)
           batch == snapshot(cursor, BATCH_SIZE)
           start == StartOf(cursor)
           count == CountOf(cursor, BATCH_SIZE)
<1>1. /\ cursor \in 0 .. U64_MAX /\ BATCH_SIZE \in Nat \ {0} /\ room \in Nat /\ RingInv
      /\ through \in Nat /\ through < next_sequence /\ authorised \in BOOLEAN
      /\ next_sequence \in 1 .. U64_MAX /\ first_sequence \in Nat \ {0} /\ len \in Nat
      /\ first_sequence = next_sequence - len /\ (len = 0 => next_sequence = 1) /\ U64_MAX \in Nat
  BY CtlAssumption, RingAssumption, FirstIs DEF CtlIInv, CtlTypes
<1>2. /\ start \in Nat /\ start >= first_sequence /\ start > cursor
      /\ start = cursor + 1 \/ start = first_sequence
  BY <1>1, SnapshotIs
<1>3. ~(BATCH_SIZE = 0 \/ start >= next_sequence)
  BY <1>1, <1>2
<1>4. ~(BATCH_SIZE = 0 \/ start >= next_sequence) =>
        /\ batch.events \in Seq(Event) /\ Len(batch.events) = count
        /\ count \in 1 .. next_sequence - start /\ count <= BATCH_SIZE
        /\ count <= AUDIT_READ_MAX_RECORDS
        /\ \A i \in 1 .. count :
             /\ start - first_sequence + i \in 1 .. len
             /\ batch.events[i] = Retained[start - first_sequence + i]
             /\ batch.events[i].sequence = start + (i - 1)
        /\ batch.gap_before = (cursor + 1 < first_sequence)
  <2>1. RingInv /\ cursor \in 0 .. U64_MAX /\ BATCH_SIZE \in Nat
    BY <1>1
  <2> QED
    BY <2>1, SnapshotIs, Zenon
<1> HIDE DEF start, count
<1>5. authorised /\ room >= count /\ BATCH_SIZE # 0
  BY <1>1, <1>3, <1>4 DEF read_records, EPERM, EFAULT
<1>6. out.records = [i \in 1 .. count |-> record_at(batch, i)]
  <2>1. Len(batch.events) = count /\ count \in Nat
    BY <1>1, <1>2, <1>3, <1>4
  <2>2. out.records = [i \in 1 .. Minimum(count, room) |-> record_at(batch, i)]
    BY <1>5, <2>1 DEF read_records
  <2>3. Minimum(count, room) = count
    BY <1>1, <1>5, <2>1 DEF Minimum
  <2> QED
    BY <2>2, <2>3
<1> HIDE DEF out, batch
<1>7. /\ count \in Nat \ {0} /\ start + count <= next_sequence
  BY <1>1, <1>2, <1>3, <1>4
<1>8. Len(out.records) = count /\ out.records # << >>
  BY <1>6, <1>7
<1>9. ASSUME NEW i \in 1 .. count
      PROVE  /\ out.records[i].sequence = start + (i - 1)
             /\ out.records[i].gap = (i = 1 /\ cursor + 1 < first_sequence)
  <2>1. out.records[i] = record_at(batch, i)
    BY <1>6
  <2>2. out.records[i].sequence = batch.events[i].sequence
    BY <2>1 DEF record_at
  <2>3. out.records[i].gap = (i = 1 /\ batch.gap_before)
    BY <2>1 DEF record_at
  <2>4. batch.events[i].sequence = start + (i - 1) /\ batch.gap_before = (cursor + 1 < first_sequence)
    BY <1>3, <1>4
  <2> QED
    BY <2>2, <2>3, <2>4, Zenon
<1> QED
  BY <1>2, <1>7, <1>8, <1>9 DEF out, start, count

(* Such records pass the check auditctl makes on a batch.                  *)
LEMMA AnswerValid ==
  ASSUME CtlIInv, cursor < through,
         read_records(authorised, BATCH_SIZE, cursor, room).errno = 0
  PROVE  ValidBatch(read_records(authorised, BATCH_SIZE, cursor, room).records)
<1> DEFINE records == read_records(authorised, BATCH_SIZE, cursor, room).records
           start == StartOf(cursor)
           count == CountOf(cursor, BATCH_SIZE)
<1>1. /\ start \in Nat /\ start > cursor /\ count \in Nat \ {0} /\ Len(records) = count
      /\ \A i \in 1 .. count :
           /\ records[i].sequence = start + (i - 1)
           /\ records[i].gap = (i = 1 /\ cursor + 1 < first_sequence)
  BY ReadAnswer
<1> HIDE DEF records, start, count
<1>2. ASSUME NEW i \in 1 .. count
      PROVE  /\ records[i].sequence > (IF i = 1 THEN cursor ELSE records[i - 1].sequence)
             /\ i # 1 => ~records[i].gap
  <2>1. cursor \in Nat
    BY RingAssumption DEF CtlIInv, CtlTypes
  <2>2. i # 1 => i - 1 \in 1 .. count
    BY <1>1
  <2>3. i # 1 => records[i - 1].sequence = start + (i - 1 - 1)
    BY <1>1, <2>2
  <2>4. i # 1 => ~records[i].gap
    BY <1>1, Zenon
  <2>5. records[i].sequence = start + (i - 1)
    BY <1>1
  <2>6. start \in Nat /\ start > cursor
    BY <1>1
  <2>7. records[i].sequence > (IF i = 1 THEN cursor ELSE records[i - 1].sequence)
    BY <2>1, <2>3, <2>5, <2>6
  <2> QED
    BY <2>4, <2>7
<1> QED
  BY <1>1, <1>2 DEF ValidBatch, records

(* How many records of a batch are shown.                                  *)
LEMMA LastShown ==
  ASSUME NEW start \in Nat, NEW count \in Nat \ {0}, NEW records, Len(records) = count,
         through \in Nat, \A i \in 1 .. count : records[i].sequence = start + (i - 1)
  PROVE  LET visible == Visible(records)
             last == IF visible = {} THEN 0 ELSE CHOOSE i \in visible : i + 1 \notin visible
         IN  /\ last \in 0 .. count
             /\ last # count => through <= start + last - 1
<1> DEFINE visible == Visible(records)
           last == IF visible = {} THEN 0 ELSE CHOOSE i \in visible : i + 1 \notin visible
<1>1. visible = {i \in 1 .. count : start + (i - 1) <= through}
  BY DEF Visible
<1> HIDE DEF visible
<1>2. CASE visible = {}
  <2>1. 1 \in 1 .. count /\ ~(start + (1 - 1) <= through)
    BY <1>1, <1>2
  <2>2. last = 0
    BY <1>2
  <2> HIDE DEF last
  <2>3. last \in 0 .. count /\ (last # count => through <= start + last - 1)
    BY <2>1, <2>2
  <2> QED
    BY <2>3 DEF last, visible
<1>3. CASE visible # {}
  <2> DEFINE m == IF start + count - 1 <= through THEN count ELSE through - start + 1
  <2>1. m \in visible /\ m + 1 \notin visible
    BY <1>1, <1>3
  <2>2. last \in visible /\ last + 1 \notin visible
    BY <1>3, <2>1, Zenon
  <2> HIDE DEF last, m
  <2>3. last \in 1 .. count /\ (last # count => last + 1 \in 1 .. count)
    BY <1>1, <2>2
  <2>4. last # count => ~(start + (last + 1 - 1) <= through)
    BY <1>1, <2>2, <2>3
  <2>5. last \in 0 .. count /\ (last # count => through <= start + last - 1)
    BY <2>3, <2>4
  <2> QED
    BY <2>5 DEF last, visible
<1> QED
  BY <1>2, <1>3 DEF visible

(* Showing a batch keeps the promises: everything up to the last record    *)
(* shown, or up to the gap before the first one, is covered.               *)
LEMMA ShowStep ==
  ASSUME CtlIInv, cursor < through,
         read_records(authorised, BATCH_SIZE, cursor, room).errno = 0,
         ShowBatch(read_records(authorised, BATCH_SIZE, cursor, room).records),
         UNCHANGED <<ringVars, authorised, room, through, origin, rejected>>
  PROVE  CtlIInv'
<1> DEFINE records == read_records(authorised, BATCH_SIZE, cursor, room).records
           start == StartOf(cursor)
           count == CountOf(cursor, BATCH_SIZE)
           visible == Visible(records)
           last == IF visible = {} THEN 0 ELSE CHOOSE i \in visible : i + 1 \notin visible
           q == [i \in 1 .. last |-> records[i].sequence]
           n == Len(shown)
<1>1. /\ start \in Nat /\ start > cursor /\ start >= first_sequence
      /\ start = cursor + 1 \/ start = first_sequence
      /\ count \in Nat \ {0} /\ start + count <= next_sequence
      /\ Len(records) = count
      /\ \A i \in 1 .. count :
           /\ records[i].sequence = start + (i - 1)
           /\ records[i].gap = (i = 1 /\ cursor + 1 < first_sequence)
  BY ReadAnswer
<1>2. /\ cursor \in Nat /\ origin \in Nat /\ through \in Nat /\ finished \in Nat
      /\ shown \in Seq(Nat) /\ n \in Nat /\ next_sequence \in 1 .. U64_MAX /\ U64_MAX \in Nat
      /\ first_sequence \in Nat /\ warnings \subseteq Nat \X Nat
      /\ \A i \in 1 .. n : shown[i] \in Nat
  <2>1. /\ cursor \in 0 .. U64_MAX /\ origin \in 0 .. U64_MAX /\ through \in Nat
        /\ finished \in Nat /\ shown \in Seq(Nat) /\ warnings \subseteq Nat \X Nat /\ RingInv
    BY Zenon DEF CtlIInv, CtlTypes
  <2>2. next_sequence \in 1 .. U64_MAX /\ U64_MAX \in Nat /\ first_sequence \in Nat
    BY <2>1, RingAssumption, FirstIs
  <2>3. cursor \in Nat /\ origin \in Nat
    BY <2>1, <2>2
  <2>4. n \in Nat /\ \A i \in 1 .. n : shown[i] \in Nat
    BY <2>1
  <2> QED
    BY <2>1, <2>2, <2>3, <2>4
<1> HIDE DEF records, start, count
<1>3. last \in 0 .. count /\ (last # count => through <= start + last - 1)
  <2>1. \A i \in 1 .. count : records[i].sequence = start + (i - 1)
    BY <1>1
  <2> QED
    BY <1>1, <1>2, <2>1, LastShown, Zenon
<1>4. /\ warnings' = IF records[1].gap THEN warnings \cup {<<cursor, records[1].sequence>>}
                     ELSE warnings
      /\ shown' = shown \o q
      /\ cursor' = IF last = 0 THEN cursor ELSE records[last].sequence
      /\ finished' = IF last # count THEN Maximum(finished, through) ELSE finished
  BY <1>1, Zenon DEF ShowBatch, records
<1> HIDE DEF last, n
<1>n. /\ start \in Nat /\ start > cursor /\ start >= first_sequence
      /\ start = cursor + 1 \/ start = first_sequence
      /\ count \in Nat \ {0} /\ start + count <= next_sequence
      /\ last \in Nat /\ last <= count /\ (last # count => through <= start + last - 1)
      /\ cursor \in Nat /\ origin \in Nat /\ through \in Nat /\ finished \in Nat /\ n \in Nat
      /\ first_sequence \in Nat /\ next_sequence \in 1 .. U64_MAX /\ U64_MAX \in Nat
  <2>1. last \in Nat /\ last <= count
    BY <1>1, <1>3
  <2> QED
    BY <1>1, <1>2, <1>3, <2>1, Zenon
<1>5. /\ records[1].gap <=> cursor + 1 < first_sequence
      /\ records[1].sequence = start
      /\ last # 0 => records[last].sequence = start + last - 1
  <2>1. 1 \in 1 .. count /\ start + (1 - 1) = start
    BY <1>1
  <2>2. records[1].gap = (1 = 1 /\ cursor + 1 < first_sequence)
    BY <1>1, <2>1
  <2>3. records[1].gap <=> cursor + 1 < first_sequence
    BY <2>2, Zenon
  <2>4. last # 0 => last \in 1 .. count /\ start + (last - 1) = start + last - 1
    BY <1>1, <1>3
  <2> QED
    BY <1>1, <2>1, <2>3, <2>4
<1>6. /\ warnings' = IF cursor + 1 < first_sequence THEN warnings \cup {<<cursor, start>>}
                     ELSE warnings
      /\ cursor' = IF last = 0 THEN cursor ELSE start + last - 1
  BY <1>4, <1>5
<1>7. /\ shown' \in Seq(Nat) /\ Len(shown') = n + last
      /\ \A i \in 1 .. n : shown'[i] = shown[i]
      /\ \A i \in n + 1 .. n + last : shown'[i] = start + (i - n - 1)
  <2>1. /\ q \in Seq(Nat) /\ Len(q) = last
        /\ \A i \in 1 .. last : q[i] = start + (i - 1)
    <3>1. \A i \in 1 .. last : i \in 1 .. count
      BY <1>1, <1>3
    <3>2. \A i \in 1 .. last : records[i].sequence = start + (i - 1) /\ start + (i - 1) \in Nat
      BY <1>1, <3>1
    <3>3. last \in Nat
      BY <1>1, <1>3
    <3>4. q = [i \in 1 .. last |-> start + (i - 1)]
      BY <3>2
    <3> QED
      BY <3>2, <3>3, <3>4
  <2> HIDE DEF q
  <2>2. /\ shown \o q \in Seq(Nat) /\ Len(shown \o q) = Len(shown) + Len(q)
        /\ \A i \in 1 .. Len(shown) + Len(q) :
             (shown \o q)[i] = IF i <= Len(shown) THEN shown[i] ELSE q[i - Len(shown)]
    BY <1>2, <2>1, ConcatIs
  <2>3. \A i \in 1 .. n + last : shown'[i] = IF i <= n THEN shown[i] ELSE q[i - n]
    BY <1>4, <2>1, <2>2 DEF n
  <2>4. \A i \in 1 .. n : i \in 1 .. n + last /\ i <= n
    BY <1>n
  <2>5. \A i \in n + 1 .. n + last :
          i \in 1 .. n + last /\ ~(i <= n) /\ i - n \in 1 .. last
    BY <1>n
  <2> QED
    BY <1>4, <2>1, <2>2, <2>3, <2>4, <2>5 DEF n
<1> HIDE DEF q
<1>8. CtlTypes'
  <2>1. cursor' \in 0 .. U64_MAX /\ finished' \in Nat
    <3>1. cursor' \in 0 .. U64_MAX
      BY <1>n, <1>6
    <3>2. finished' = finished \/ finished' = through
      BY <1>4 DEF Maximum
    <3> QED
      BY <1>n, <3>1, <3>2
  <2>2. warnings' \subseteq Nat \X Nat
    <3>1. <<cursor, start>> \in Nat \X Nat
      BY <1>n
    <3>2. warnings \subseteq Nat \X Nat
      BY <1>2
    <3> QED
      BY <1>6, <3>1, <3>2
  <2> QED
    BY <1>7, <2>1, <2>2 DEF CtlIInv, CtlTypes
<1>9. ASSUME NEW s \in Nat, Covered(s) PROVE Covered(s)'
  <2>1. CASE \E w \in warnings : w[1] < s /\ s < w[2]
    BY <1>6, <2>1 DEF Covered
  <2>2. ASSUME NEW i \in 1 .. Len(shown), shown[i] = s PROVE Covered(s)'
    BY <1>n, <1>7, <2>2, i \in 1 .. n + last DEF Covered, n
  <2> QED
    BY <1>9, <2>1, <2>2 DEF Covered
<1>10. \A s \in origin + 1 .. start + last - 1 : Covered(s)'
  <2> SUFFICES ASSUME NEW s \in origin + 1 .. start + last - 1 PROVE Covered(s)'
    OBVIOUS
  <2>0. s \in Nat
    BY <1>n
  <2>1. CASE s <= cursor
    <3>1. s \in origin + 1 .. cursor
      BY <1>2, <2>0, <2>1
    <3> QED
      BY <1>9, <2>0, <3>1 DEF CtlIInv, CursorHonest
  <2>2. CASE cursor < s /\ s < start
    <3> DEFINE w == <<cursor, start>>
    <3>1. cursor + 1 < first_sequence
      BY <1>1, <1>2, <2>0, <2>2
    <3>2. w \in warnings' /\ w[1] < s /\ s < w[2]
      BY <1>6, <2>2, <3>1
    <3> QED
      BY <3>2 DEF Covered
  <2>3. CASE start <= s
    <3> DEFINE i == n + (s - start + 1)
    <3>1. i \in n + 1 .. n + last /\ i \in 1 .. n + last /\ start + (i - n - 1) = s
      BY <1>n, <2>0, <2>3
    <3> HIDE DEF i
    <3>2. shown'[i] = s
      BY <1>7, <3>1
    <3> QED
      BY <1>7, <3>1, <3>2 DEF Covered
  <2> QED
    BY <1>n, <2>0, <2>1, <2>2, <2>3
<1>11. CursorHonest'
  <2>1. origin' = origin /\ origin <= cursor /\ cursor <= cursor' /\ cursor' \in Nat
    BY <1>n, <1>6 DEF CtlIInv, CursorHonest
  <2>2. ASSUME NEW i \in 1 .. Len(shown') PROVE origin < shown'[i] /\ shown'[i] <= cursor'
    <3>1. CASE i <= n
      <4>1. i \in 1 .. n /\ shown'[i] = shown[i]
        BY <1>2, <1>7, <3>1
      <4> QED
        BY <1>2, <2>1, <4>1 DEF CtlIInv, CursorHonest, n
    <3>2. CASE i > n
      <4>1. i \in n + 1 .. n + last
        BY <1>n, <1>7, <3>2
      <4> QED
        BY <1>n, <1>6, <1>7, <2>1, <4>1
    <3> QED
      BY <1>2, <1>7, <3>1, <3>2
  <2>3. \A s \in origin + 1 .. cursor' : s \in origin + 1 .. start + last - 1
    BY <1>n, <1>6
  <2>4. \A s \in origin' + 1 .. cursor' : Covered(s)'
    BY <1>10, <2>1, <2>3
  <2>5. origin' <= cursor' /\ \A i \in 1 .. Len(shown') : origin' < shown'[i] /\ shown'[i] <= cursor'
    BY <1>2, <2>1, <2>2
  <2> QED
    BY <2>4, <2>5, Zenon DEF CursorHonest
<1>12. NoSilentLoss'
  <2> SUFFICES ASSUME NEW s \in origin + 1 .. finished' PROVE Covered(s)'
    BY DEF NoSilentLoss, Covered
  <2>1. s \in Nat /\ (s \in origin + 1 .. finished \/ s \in origin + 1 .. start + last - 1)
    <3>1. finished' = finished \/ (finished' = through /\ last # count)
      BY <1>4 DEF Maximum
    <3> QED
      BY <1>n, <3>1
  <2>2. s \in origin + 1 .. finished => Covered(s)
    BY DEF CtlIInv, NoSilentLoss, Covered
  <2> QED
    BY <1>9, <1>10, <2>1, <2>2
<1>13. ShownOnce'
  <2> SUFFICES ASSUME NEW i \in 1 .. n + last, NEW j \in 1 .. n + last, i < j
               PROVE  shown'[i] < shown'[j]
    BY <1>7 DEF ShownOnce
  <2>1. CASE j <= n
    <3>1. i \in 1 .. n /\ j \in 1 .. n
      BY <1>n, <2>1
    <3> QED
      BY <1>7, <3>1 DEF CtlIInv, ShownOnce, n
  <2>2. CASE i <= n /\ j > n
    <3>1. i \in 1 .. n /\ j \in n + 1 .. n + last
      BY <1>n, <2>2
    <3>2. shown[i] <= cursor /\ shown[i] \in Nat
      BY <1>2, <3>1 DEF CtlIInv, CursorHonest, n
    <3>3. shown'[i] = shown[i] /\ shown'[j] = start + (j - n - 1)
      BY <1>7, <3>1
    <3> QED
      BY <1>n, <3>1, <3>2, <3>3
  <2>3. CASE i > n
    <3>1. i \in n + 1 .. n + last /\ j \in n + 1 .. n + last
      BY <1>n, <2>3
    <3> QED
      BY <1>n, <1>7, <3>1
  <2> QED
    BY <1>n, <2>1, <2>2, <2>3
<1>14. NoFalseAlarm'
  <2>1. first_sequence' = first_sequence /\ rejected' = rejected
    BY DEF ringVars, first_sequence
  <2>2. ASSUME NEW w \in warnings, NEW i \in 1 .. n + last
        PROVE  ~(w[1] < shown'[i] /\ shown'[i] < w[2])
    <3>0. w[1] \in Nat /\ w[2] \in Nat /\ w[2] <= first_sequence
      BY <1>2 DEF CtlIInv, NoFalseAlarm
    <3>1. CASE i <= n
      <4>1. i \in 1 .. n
        BY <1>n, <3>1
      <4> QED
        BY <1>7, <4>1 DEF CtlIInv, NoFalseAlarm, n
    <3>2. CASE i > n
      <4>1. i \in n + 1 .. n + last
        BY <1>n, <3>2
      <4>2. shown'[i] = start + (i - n - 1)
        BY <1>7, <4>1
      <4> QED
        BY <1>n, <3>0, <4>1, <4>2
    <3> QED
      BY <1>n, <3>1, <3>2
  <2>3. ASSUME cursor + 1 < first_sequence, NEW i \in 1 .. n + last
        PROVE  ~(cursor < shown'[i] /\ shown'[i] < start)
    <3>1. CASE i <= n
      <4>1. i \in 1 .. n
        BY <1>n, <3>1
      <4>2. shown[i] <= cursor /\ shown[i] \in Nat
        BY <1>2, <4>1 DEF CtlIInv, CursorHonest, n
      <4> QED
        BY <1>2, <1>7, <4>1, <4>2
    <3>2. CASE i > n
      <4>1. i \in n + 1 .. n + last
        BY <1>n, <3>2
      <4> QED
        BY <1>n, <1>7, <4>1
    <3> QED
      BY <1>n, <3>1, <3>2
  <2>4. ASSUME NEW w \in warnings'
        PROVE  /\ w[1] + 1 < w[2] /\ w[2] <= first_sequence
               /\ \A i \in 1 .. n + last : ~(w[1] < shown'[i] /\ shown'[i] < w[2])
    <3>1. CASE w \in warnings
      BY <2>2, <3>1 DEF CtlIInv, NoFalseAlarm
    <3>2. CASE w \notin warnings
      <4>1. cursor + 1 < first_sequence /\ w = <<cursor, start>>
        BY <1>6, <3>2
      <4>2. start = first_sequence
        BY <1>n, <4>1
      <4> QED
        BY <1>n, <2>3, <4>1, <4>2
    <3> QED
      BY <3>1, <3>2
  <2> QED
    BY <1>7, <2>1, <2>4 DEF CtlIInv, NoFalseAlarm
<1>15. RingInv' /\ through' < next_sequence'
  BY NextRingInv DEF CtlIInv, ringVars
<1> QED
  BY <1>8, <1>11, <1>12, <1>13, <1>14, <1>15 DEF CtlIInv

(* Before the first run nothing is promised and nothing shown.             *)
LEMMA InitCtl == Init => CtlIInv
<1> SUFFICES ASSUME Init PROVE CtlIInv
  OBVIOUS
<1>1. RingInv /\ next_sequence = 1
  BY InitRingInv DEF Init, RingInit
<1>2. CtlTypes /\ through < next_sequence
  <2>1. origin \in 0 .. U64_MAX /\ cursor \in 0 .. U64_MAX
    BY CtlAssumption DEF Init, CtlInit
  <2>2. authorised \in BOOLEAN /\ rejected \in BOOLEAN
    BY Zenon DEF Init, CtlInit
  <2>4. room \in Nat /\ through \in Nat /\ finished \in Nat /\ through < next_sequence
    BY <1>1 DEF Init, CtlInit
  <2>3. shown \in Seq(Nat) /\ warnings \subseteq Nat \X Nat
    BY DEF Init, CtlInit
  <2> QED
    BY <2>1, <2>2, <2>3, <2>4 DEF CtlTypes
<1>3. CursorHonest /\ NoSilentLoss /\ NoFalseAlarm /\ ShownOnce
  <2>1. /\ origin \in Nat /\ cursor = origin /\ finished = 0 /\ shown = << >>
        /\ warnings = {} /\ rejected = FALSE /\ Len(shown) = 0
    BY CtlAssumption, RingAssumption DEF Init, CtlInit
  <2> QED
    BY <2>1 DEF CursorHonest, NoSilentLoss, NoFalseAlarm, ShownOnce
<1> QED
  BY <1>1, <1>2, <1>3 DEF CtlIInv

(* One turn of the reading loop.                                           *)
LEMMA ReadLoopStep == CtlIInv /\ read_loop => CtlIInv'
<1> SUFFICES ASSUME CtlIInv, read_loop PROVE CtlIInv'
  OBVIOUS
<1> DEFINE out == read_records(authorised, BATCH_SIZE, cursor, room)
<1>1. [RingNext]_ringVars
  BY RingStep DEF CtlIInv, Next, Run
<1>2. /\ cursor < through /\ finish_control_call("audit_read", out.errno)
      /\ UNCHANGED <<authorised, room, through, runs, origin>>
  BY Zenon DEF read_loop
<1>3. CASE out.errno # 0
  <2>0. EndRun(1) /\ UNCHANGED rejected
    BY <1>3, Zenon DEF read_loop
  <2>1. finished' = finished /\ UNCHANGED <<cursor, shown, warnings, rejected>>
    BY <2>0 DEF EndRun
  <2>2. CtlTypes'
    BY <1>2, <2>1 DEF CtlIInv, CtlTypes
  <2> QED
    BY <1>1, <1>2, <2>1, <2>2, QuietStep
<1>4. CASE out.errno = 0
  <2>1. UNCHANGED ringVars
    BY <1>2, <1>4, SyscallAssumption, FinishStep
  <2>2. out.records # << >>
    BY <1>2, <1>4, ReadAnswer, Zenon
  <2>3. ValidBatch(out.records)
    BY <1>2, <1>4, AnswerValid
  <2>4. /\ IF out.records = << >> THEN EndRun(0)
           ELSE IF ValidBatch(out.records) THEN ShowBatch(out.records)
           ELSE EndRun(1)
        /\ rejected' = (rejected \/ ~ValidBatch(out.records))
    BY <1>4, Zenon DEF read_loop
  <2> HIDE DEF out
  <2>5. ShowBatch(out.records) /\ rejected' = rejected
    <3>1. rejected = FALSE
      BY DEF CtlIInv, CtlTypes, NoFalseAlarm
    <3>2. rejected' = FALSE
      BY <2>3, <2>4, <3>1, Zenon
    <3>3. ShowBatch(out.records)
      BY <2>2, <2>3, <2>4
    <3> QED
      BY <3>1, <3>2, <3>3, Zenon
  <2> QED
    BY <1>2, <1>4, <2>1, <2>5, ShowStep DEF out
<1> QED
  BY <1>3, <1>4

(* Every step of auditctl and of the processes beside it.                  *)
LEMMA NextCtl == CtlIInv /\ [Next]_vars => CtlIInv'
<1> SUFFICES ASSUME CtlIInv, [Next]_vars PROVE CtlIInv'
  OBVIOUS
<1>0. [RingNext]_ringVars
  BY RingStep DEF CtlIInv
<1>1. CASE UNCHANGED vars \/ Others
  <2>1. UNCHANGED ctlVars
    BY <1>1 DEF vars, Others
  <2>2. /\ UNCHANGED <<cursor, origin, shown, warnings, rejected>> /\ finished' = finished
        /\ through' = through /\ authorised' = authorised /\ room' = room
    BY <2>1 DEF ctlVars
  <2>3. CtlTypes'
    BY <2>2 DEF CtlIInv, CtlTypes
  <2> QED
    BY <1>0, <2>2, <2>3, QuietStep
<1>2. CASE Start
  <2>1. /\ UNCHANGED <<cursor, origin, shown, warnings, rejected>> /\ finished' = finished
        /\ through' = through /\ authorised' \in BOOLEAN /\ room' \in Nat
    BY <1>2, CtlAssumption DEF Start
  <2>2. CtlTypes'
    BY <2>1 DEF CtlIInv, CtlTypes
  <2> QED
    BY <1>0, <2>1, <2>2, QuietStep
<1>3. CASE load_stats
  <2>1. Consistent(stats)
    BY StatsConsistent DEF CtlIInv
  <2>2. /\ UNCHANGED <<cursor, origin, shown, warnings, authorised, room>> /\ finished' = finished
        /\ through' = through \/ through' = next_sequence - 1
    BY <1>3, Zenon DEF load_stats, stats
  <2>3. rejected' = rejected
    <3>1. PICK mapped \in {0, 1} :
            rejected' = (rejected \/ (read_stats(authorised, TRUE, mapped) = 0 /\ ~Consistent(stats)))
      BY <1>3, Zenon DEF load_stats
    <3>2. rejected = FALSE
      BY DEF CtlIInv, CtlTypes, NoFalseAlarm
    <3> QED
      BY <2>1, <3>1, <3>2, Zenon
  <2>4. CtlTypes'
    BY <2>2, <2>3, FirstIs DEF CtlIInv, CtlTypes
  <2> QED
    BY <1>0, <2>2, <2>3, <2>4, QuietStep
<1>4. CASE read_loop
  BY <1>4, ReadLoopStep
<1>5. CASE read_end
  <2>1. /\ UNCHANGED <<cursor, origin, shown, warnings, rejected, authorised, room>>
        /\ through' = through /\ cursor >= through /\ finished' = Maximum(finished, through)
    BY <1>5 DEF read_end, EndRun
  <2>2. CtlTypes' /\ through <= cursor
    BY <2>1, RingAssumption DEF CtlIInv, CtlTypes, Maximum
  <2> QED
    BY <1>0, <2>1, <2>2, QuietStep
<1> QED
  BY <1>1, <1>2, <1>3, <1>4, <1>5 DEF Next, Run

(***************************************************************************)
(* auditctl beside processes that keep writing: once a run ended with      *)
(* status 0, every event from the first cursor to the tail it aimed at was *)
(* shown or lies in a gap that was reported, for every size of the ring    *)
(* and of the buffers, any number of runs and any overwriting in between.  *)
(***************************************************************************)
THEOREM NothingLostSilently == Spec => []NoSilentLoss
<1>1. CtlIInv => NoSilentLoss
  BY DEF CtlIInv
<1> QED
  BY <1>1, InitCtl, NextCtl, PTL DEF Spec

(***************************************************************************)
(* A gap warning of auditctl covers events that are gone from the ring and *)
(* that no run has shown, and its checks on the answers of the kernel      *)
(* ("inconsistent audit statistics", "invalid audit record") never fire.   *)
(***************************************************************************)
THEOREM WarningsAreTrue == Spec => []NoFalseAlarm
<1>1. CtlIInv => NoFalseAlarm
  BY DEF CtlIInv
<1> QED
  BY <1>1, InitCtl, NextCtl, PTL DEF Spec

(***************************************************************************)
(* Over a whole chain of runs, retries after a faulted read included,      *)
(* auditctl shows the events in their order and none of them twice.        *)
(***************************************************************************)
THEOREM EventsShownOnce == Spec => []ShownOnce
<1>1. CtlIInv => ShownOnce
  BY DEF CtlIInv
<1> QED
  BY <1>1, InitCtl, NextCtl, PTL DEF Spec
=============================================================================
