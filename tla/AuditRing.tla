----------------------------- MODULE AuditRing -----------------------------
(***************************************************************************)
(* The bounded audit ring of the kernel (os/src/security/audit.rs).        *)
(*                                                                         *)
(* The ring keeps the AUDIT_RING_CAPACITY most recent events in an array   *)
(* and numbers every accepted event with a sequence that starts at 1 and   *)
(* is never reused.  The kernel runs on one hart and is not preempted, so  *)
(* each operation on the global ring is one step.                          *)
(***************************************************************************)
EXTENDS Integers, Sequences

CONSTANTS
  AUDIT_RING_CAPACITY,     \* slots of the ring (256 in the kernel)
  AUDIT_READ_MAX_RECORDS,  \* largest batch of one read (32 in the kernel)
  U64_MAX,                 \* largest value of the sequence type
  Bodies,                  \* what an event says besides sequence and errno
  Errnos                   \* errno of an event, 0 when the operation succeeded

ASSUME RingAssumption ==
  /\ AUDIT_RING_CAPACITY \in Nat \ {0}
  /\ AUDIT_READ_MAX_RECORDS \in Nat \ {0}
  /\ U64_MAX \in Nat \ {0}
  /\ Errnos \subseteq Nat

VARIABLES
  events,              \* the array of slots
  head,                \* slot of the oldest retained event
  len,                 \* number of retained events
  next_sequence,       \* sequence of the next accepted event
  total_events,
  successful_events,
  failed_events,
  overwritten_events

ringVars == <<events, head, len, next_sequence, total_events,
              successful_events, failed_events, overwritten_events>>

Slots == 0 .. AUDIT_RING_CAPACITY - 1

Minimum(a, b) == IF a < b THEN a ELSE b
Maximum(a, b) == IF a > b THEN a ELSE b

(***************************************************************************)
(* An event with its sequence.  EMPTY fills the slots of a new ring.       *)
(***************************************************************************)
Event == [sequence : 0 .. U64_MAX, errno : Errnos \cup {0},
          body : Bodies \cup {"none"}]

EMPTY == [sequence |-> 0, errno |-> 0, body |-> "none"]

RingInit ==
  /\ events = [i \in Slots |-> EMPTY]
  /\ head = 0
  /\ len = 0
  /\ next_sequence = 1
  /\ total_events = 0
  /\ successful_events = 0
  /\ failed_events = 0
  /\ overwritten_events = 0

-----------------------------------------------------------------------------
(***************************************************************************)
(* AuditRing::push.  At U64_MAX the sequence is exhausted and the event is *)
(* dropped; otherwise a free slot is filled, or the oldest event is        *)
(* overwritten, and the counters follow.                                   *)
(***************************************************************************)
FillSlot(event) ==
  /\ len < AUDIT_RING_CAPACITY
  /\ events' = [events EXCEPT ![(head + len) % AUDIT_RING_CAPACITY] = event]
  /\ len' = len + 1
  /\ UNCHANGED <<head, overwritten_events>>

(* Faulty variants: the head runs past the last slot; the head stays on    *)
(* the slot that now holds the newest event.                               *)
OverwriteOldest_no_wrap(event) ==
  /\ len >= AUDIT_RING_CAPACITY
  /\ events' = [events EXCEPT ![head] = event]
  /\ head' = head + 1
  /\ overwritten_events' = overwritten_events + 1
  /\ UNCHANGED len

OverwriteOldest_keep_head(event) ==
  /\ len >= AUDIT_RING_CAPACITY
  /\ events' = [events EXCEPT ![head] = event]
  /\ overwritten_events' = overwritten_events + 1
  /\ UNCHANGED <<len, head>>

OverwriteOldest(event) ==
  /\ len >= AUDIT_RING_CAPACITY
  /\ events' = [events EXCEPT ![head] = event]
  /\ head' = (head + 1) % AUDIT_RING_CAPACITY
  /\ overwritten_events' = overwritten_events + 1
  /\ UNCHANGED len

CountEvent(errno) ==
  /\ total_events' = total_events + 1
  /\ successful_events' = successful_events + (IF errno = 0 THEN 1 ELSE 0)
  /\ failed_events' = failed_events + (IF errno = 0 THEN 0 ELSE 1)

NumberAndStore(errno, body) ==
  LET event == [sequence |-> next_sequence, errno |-> errno, body |-> body]
  IN  /\ next_sequence' = next_sequence + 1
      /\ FillSlot(event) \/ OverwriteOldest(event)
      /\ CountEvent(errno)

(* Faulty variants: an event that finds no sequence left is still counted; *)
(* the sequence starts over when it is exhausted.                          *)
push_counts_dropped(errno, body) ==
  \/ /\ next_sequence = U64_MAX
     /\ CountEvent(errno)
     /\ UNCHANGED <<events, head, len, next_sequence, overwritten_events>>
  \/ next_sequence # U64_MAX /\ NumberAndStore(errno, body)

push_wraps(errno, body) ==
  \/ /\ next_sequence = U64_MAX
     /\ next_sequence' = 1
     /\ UNCHANGED <<events, head, len, overwritten_events, total_events,
                    successful_events, failed_events>>
  \/ next_sequence # U64_MAX /\ NumberAndStore(errno, body)

push(errno, body) ==
  \/ next_sequence = U64_MAX /\ UNCHANGED ringVars
  \/ next_sequence # U64_MAX /\ NumberAndStore(errno, body)

(***************************************************************************)
(* AuditRing::first_sequence.                                              *)
(***************************************************************************)
first_sequence ==
  IF len = 0 THEN next_sequence ELSE events[head].sequence

(***************************************************************************)
(* AuditRing::snapshot.  The batch is a value: a sequence of events and    *)
(* the flag that the reader missed overwritten events.                     *)
(***************************************************************************)
EmptyBatch == [events |-> << >>, gap_before |-> FALSE]

(* The batch of count retained events that starts at sequence start.       *)
BatchFrom(start, count, gap) ==
  [events     |-> [i \in 1 .. count |->
                     events[(head + (start - first_sequence) + (i - 1))
                              % AUDIT_RING_CAPACITY]],
   gap_before |-> gap]

(* Faulty variant: a reader that is exactly at the edge gets a gap mark.   *)
snapshot_gap_at_edge(after_sequence, requested_capacity) ==
  LET limit  == Minimum(requested_capacity, AUDIT_READ_MAX_RECORDS)
      start  == Maximum(after_sequence + 1, first_sequence)
  IN  IF limit = 0 \/ len = 0 \/ after_sequence = U64_MAX \/ start >= next_sequence
      THEN EmptyBatch
      ELSE BatchFrom(start, Minimum(next_sequence - start, limit),
                     after_sequence + 1 <= first_sequence)

snapshot(after_sequence, requested_capacity) ==
  LET limit  == Minimum(requested_capacity, AUDIT_READ_MAX_RECORDS)
      wanted == after_sequence + 1
      start  == Maximum(wanted, first_sequence)
  IN  IF limit = 0 \/ len = 0 \/ after_sequence = U64_MAX \/ start >= next_sequence
      THEN EmptyBatch
      ELSE BatchFrom(start, Minimum(next_sequence - start, limit),
                     wanted < first_sequence)

(***************************************************************************)
(* AuditRing::stats, one consistent value.                                 *)
(***************************************************************************)
stats ==
  [capacity           |-> AUDIT_RING_CAPACITY,
   retained           |-> len,
   first_sequence     |-> first_sequence,
   next_sequence      |-> next_sequence,
   total_events       |-> total_events,
   successful_events  |-> successful_events,
   failed_events      |-> failed_events,
   overwritten_events |-> overwritten_events]

-----------------------------------------------------------------------------
RingNext == \E errno \in Errnos, body \in Bodies : push(errno, body)

RingSpec == RingInit /\ [][RingNext]_ringVars

-----------------------------------------------------------------------------
(***************************************************************************)
(* Type invariant.                                                         *)
(***************************************************************************)
RingTypeOK ==
  /\ events \in [Slots -> Event]
  /\ head \in Slots
  /\ len \in 0 .. AUDIT_RING_CAPACITY
  /\ next_sequence \in 1 .. U64_MAX
  /\ total_events \in Nat
  /\ successful_events \in Nat
  /\ failed_events \in Nat
  /\ overwritten_events \in Nat

(***************************************************************************)
(* The retained events, read from the head and around the end of the       *)
(* array, carry consecutive sequences that end just before next_sequence.  *)
(* snapshot relies on it when it turns a sequence into an array index.     *)
(***************************************************************************)
RetainedContiguous ==
  \A i \in 0 .. len - 1 :
    events[(head + i) % AUDIT_RING_CAPACITY].sequence = next_sequence - len + i

(***************************************************************************)
(* The counters tell one story at all times, after wrap-around and after   *)
(* the sequence is exhausted too: every accepted event succeeded or        *)
(* failed, is retained or was overwritten, and used up one sequence.       *)
(***************************************************************************)
CountersAgree ==
  /\ total_events = successful_events + failed_events
  /\ total_events = len + overwritten_events
  /\ next_sequence = total_events + 1
  /\ overwritten_events > 0 => len = AUDIT_RING_CAPACITY

(***************************************************************************)
(* The ring is well formed: the slots are in range, the retained sequences *)
(* are consecutive across the end of the array, and the counters agree.    *)
(* The three hold together only: push reads each to keep the others.       *)
(***************************************************************************)
RingInv == RingTypeOK /\ RetainedContiguous /\ CountersAgree

(***************************************************************************)
(* The ring implements the abstract log.                                   *)
(***************************************************************************)
Retained == [i \in 1 .. len |-> events[(head + (i - 1)) % AUDIT_RING_CAPACITY]]

Log == INSTANCE AuditLog WITH
         window    <- Retained,
         accepted  <- total_events,
         succeeded <- successful_events

(***************************************************************************)
(* Every push appends to the log and drops at most its oldest event, and   *)
(* nothing else changes it: push implements the abstract log.              *)
(***************************************************************************)
ImplementsLog == Log!LogSpec

(***************************************************************************)
(* For every cursor and every buffer size, zero and U64_MAX included, the  *)
(* index arithmetic of snapshot returns what the abstract log promises:    *)
(* the oldest unseen events without hole or duplicate, and the gap mark    *)
(* exactly when an event the reader has not seen was overwritten.          *)
(***************************************************************************)
SnapshotExact ==
  \A after \in 0 .. U64_MAX, n \in 0 .. AUDIT_READ_MAX_RECORDS + 1 :
    LET batch == snapshot(after, n)
    IN  /\ batch.events = Log!ReadBatch(after, n)
        /\ batch.events # << >> => batch.gap_before = Log!Missed(after)

=============================================================================
