------------------------------ MODULE AuditLog ------------------------------
(***************************************************************************)
(* What the audit ring promises, without slots, head or wrap-around: the   *)
(* last AUDIT_RING_CAPACITY accepted events in the order they happened,    *)
(* and how many events were ever accepted and how many of them succeeded.  *)
(* A read by cursor never removes anything.                                *)
(***************************************************************************)
EXTENDS Integers, Sequences

CONSTANTS AUDIT_RING_CAPACITY, AUDIT_READ_MAX_RECORDS, U64_MAX, Bodies, Errnos

VARIABLES
  window,     \* the retained events, oldest first
  accepted,   \* number of events accepted since boot
  succeeded   \* how many of them had errno 0

logVars == <<window, accepted, succeeded>>

LogInit ==
  /\ window = << >>
  /\ accepted = 0
  /\ succeeded = 0

(***************************************************************************)
(* One accepted event.  The sequence is the number of the event, so no     *)
(* sequence is ever used twice; the log closes when they run out.          *)
(***************************************************************************)
Accept(errno, body) ==
  /\ accepted + 1 < U64_MAX
  /\ accepted' = accepted + 1
  /\ succeeded' = succeeded + (IF errno = 0 THEN 1 ELSE 0)
  /\ window' = Append(IF Len(window) = AUDIT_RING_CAPACITY
                      THEN Tail(window) ELSE window,
                      [sequence |-> accepted + 1, errno |-> errno, body |-> body])

LogNext == \E errno \in Errnos, body \in Bodies : Accept(errno, body)

LogSpec == LogInit /\ [][LogNext]_logVars

(***************************************************************************)
(* What a reader with cursor after and room for n records must get: the    *)
(* oldest retained events it has not seen, at most one batch of them, and  *)
(* a gap mark when an event it has not seen is no longer retained.         *)
(***************************************************************************)
(* The retained events it has seen come first: so many of them.            *)
Seen(after) ==
  CHOOSE k \in 0 .. Len(window) :
    \A i \in 1 .. Len(window) : i > k <=> window[i].sequence > after

ReadBatch(after, n) ==
  LET seen   == Seen(after)
      unseen == Len(window) - seen
      limit  == IF n < AUDIT_READ_MAX_RECORDS THEN n ELSE AUDIT_READ_MAX_RECORDS
  IN  SubSeq(window, seen + 1, seen + (IF unseen < limit THEN unseen ELSE limit))

Missed(after) == \E s \in after + 1 .. accepted :
                   \A i \in 1 .. Len(window) : window[i].sequence # s

=============================================================================
