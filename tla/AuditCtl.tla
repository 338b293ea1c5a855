------------------------------ MODULE AuditCtl ------------------------------
(***************************************************************************)
(* The log reader user/src/bin/auditctl.rs, running beside processes that  *)
(* keep writing to the ring.  Between two of its system calls any number   *)
(* of events may be recorded; what it does after a system call and before  *)
(* the next one touches nothing shared, so it belongs to the same step.    *)
(*                                                                         *)
(* A user who follows the log runs auditctl again and again, with the      *)
(* cursor the last run printed ("cursor=" at the end, "retry with" after   *)
(* an error).                                                              *)
(***************************************************************************)
EXTENDS AuditSyscalls

CONSTANTS
  BATCH_SIZE,    \* records in the buffer of auditctl (32)
  Cursors,       \* cursors the first run may be given
  MaxRuns        \* bound: how often auditctl is run

ASSUME CtlAssumption ==
  /\ BATCH_SIZE \in Nat \ {0}
  /\ Cursors \subseteq 0 .. U64_MAX
  /\ MaxRuns \in Nat

VARIABLES
  pc,           \* "idle" between runs, "stat" and "read": the next system call
  authorised,   \* whether this run has uid 0 or AUDIT_READ
  room,         \* records that fit in the mapped part of its buffer
  cursor,       \* last sequence shown, or the argument of the first run
  through,      \* the tail of the log when the run started
  runs,         \* runs started so far
  origin,       \* cursor of the first run
  shown,        \* history: the sequences shown, in order
  warnings,     \* history: the cursor and the sequence of every gap warning
  finished,     \* history: the highest through of a run that ended with status 0
  rejected      \* history: a run found the answer of the kernel inconsistent

ctlVars == <<pc, authorised, room, cursor, through, runs, origin, shown, warnings,
             finished, rejected>>

vars == <<ringVars, ctlVars>>

CtlInit ==
  /\ pc = "idle"
  /\ authorised = FALSE
  /\ room = 0
  /\ origin \in Cursors
  /\ cursor = origin
  /\ through = 0
  /\ runs = 0
  /\ shown = << >>
  /\ warnings = {}
  /\ finished = 0
  /\ rejected = FALSE

-----------------------------------------------------------------------------
(***************************************************************************)
(* main with the argument read: a new run with the printed cursor.         *)
(***************************************************************************)
Start ==
  /\ pc = "idle"
  /\ runs < MaxRuns
  /\ pc' = "stat"
  /\ runs' = runs + 1
  /\ authorised' \in BOOLEAN
  /\ room' \in 0 .. BATCH_SIZE
  /\ UNCHANGED <<cursor, through, origin, shown, warnings, finished, rejected, ringVars>>

(***************************************************************************)
(* load_stats: ipc_stat, the check of its answer, and the tail to stop at. *)
(***************************************************************************)
Consistent(s) ==
  /\ s.retained <= s.capacity
  /\ s.successful_events + s.failed_events = s.total_events
  /\ s.first_sequence # 0
  /\ s.next_sequence - s.first_sequence = s.retained

load_stats ==
  /\ pc = "stat"
  /\ \E mapped \in {0, 1} :
       LET errno == read_stats(authorised, TRUE, mapped)
       IN  /\ finish_control_call("ipc_stat", errno)
           /\ IF errno = 0 /\ Consistent(stats)
              THEN pc' = "read" /\ through' = stats.next_sequence - 1
              ELSE pc' = "idle" /\ UNCHANGED through
           /\ rejected' = (rejected \/ (errno = 0 /\ ~Consistent(stats)))
  /\ UNCHANGED <<authorised, room, cursor, runs, origin, shown, warnings, finished>>

(***************************************************************************)
(* The check of a whole batch before anything of it is shown.              *)
(***************************************************************************)
ValidBatch(records) ==
  \A i \in 1 .. Len(records) :
    /\ records[i].sequence > (IF i = 1 THEN cursor ELSE records[i - 1].sequence)
    /\ i # 1 => ~records[i].gap

(***************************************************************************)
(* Showing a valid batch: warn of the gap, show up to the initial tail,    *)
(* and stop the run at the first record past it.                           *)
(***************************************************************************)
Visible(records) == {i \in 1 .. Len(records) : records[i].sequence <= through}

(* Faulty variants: the record past the tail ends the run before its gap   *)
(* is reported; the cursor moves only when a whole batch was shown.        *)
ShowBatch_tail_before_gap(records) ==
  LET visible == Visible(records)
      last    == IF visible = {} THEN 0 ELSE CHOOSE i \in visible : i + 1 \notin visible
      stop    == last # Len(records)
  IN  /\ warnings' = IF records[1].gap /\ last # 0
                     THEN warnings \cup {<<cursor, records[1].sequence>>} ELSE warnings
      /\ shown' = shown \o [i \in 1 .. last |-> records[i].sequence]
      /\ cursor' = IF last = 0 THEN cursor ELSE records[last].sequence
      /\ pc' = IF stop THEN "idle" ELSE "read"
      /\ finished' = IF stop THEN Maximum(finished, through) ELSE finished

ShowBatch_cursor_at_end(records) ==
  LET visible == Visible(records)
      last    == IF visible = {} THEN 0 ELSE CHOOSE i \in visible : i + 1 \notin visible
      stop    == last # Len(records)
  IN  /\ warnings' = IF records[1].gap
                     THEN warnings \cup {<<cursor, records[1].sequence>>} ELSE warnings
      /\ shown' = shown \o [i \in 1 .. last |-> records[i].sequence]
      /\ cursor' = IF stop THEN cursor ELSE records[last].sequence
      /\ pc' = IF stop THEN "idle" ELSE "read"
      /\ finished' = IF stop THEN Maximum(finished, through) ELSE finished


ShowBatch(records) ==
  LET visible == Visible(records)
      last    == IF visible = {} THEN 0 ELSE CHOOSE i \in visible : i + 1 \notin visible
      stop    == last # Len(records)
  IN  /\ warnings' = IF records[1].gap
                     THEN warnings \cup {<<cursor, records[1].sequence>>} ELSE warnings
      /\ shown' = shown \o [i \in 1 .. last |-> records[i].sequence]
      /\ cursor' = IF last = 0 THEN cursor ELSE records[last].sequence
      /\ pc' = IF stop THEN "idle" ELSE "read"
      /\ finished' = IF stop THEN Maximum(finished, through) ELSE finished

EndRun(code) ==
  /\ pc' = "idle"
  /\ finished' = IF code = 0 THEN Maximum(finished, through) ELSE finished
  /\ UNCHANGED <<cursor, shown, warnings>>

(***************************************************************************)
(* One turn of the loop of read_records: audit_read and all that follows.  *)
(* After an error the prefix in the buffer is neither shown nor skipped.   *)
(***************************************************************************)
read_loop ==
  /\ pc = "read"
  /\ cursor < through
  /\ LET out == read_records(authorised, BATCH_SIZE, cursor, room)
     IN  /\ finish_control_call("audit_read", out.errno)
         /\ \/ out.errno # 0 /\ EndRun(1) /\ UNCHANGED rejected
            \/ /\ out.errno = 0
               /\ IF out.records = << >> THEN EndRun(0)
                  ELSE IF ValidBatch(out.records) THEN ShowBatch(out.records)
                  ELSE EndRun(1)
               /\ rejected' = (rejected \/ ~ValidBatch(out.records))
  /\ UNCHANGED <<authorised, room, through, runs, origin>>

read_end ==
  /\ pc = "read"
  /\ cursor >= through
  /\ EndRun(0)
  /\ UNCHANGED <<authorised, room, through, runs, origin, rejected, ringVars>>

-----------------------------------------------------------------------------
Others == (IpcCompletes \/ sys_audit_read \/ sys_ipc_stat) /\ UNCHANGED ctlVars

Run == load_stats \/ read_loop \/ read_end

Next == Start \/ Run \/ Others

Init == RingInit /\ CtlInit

(* The round-robin scheduler gives every ready process its turn, so a run  *)
(* that is under way keeps making its system calls.                        *)
Spec == Init /\ [][Next]_vars /\ WF_vars(Run)

-----------------------------------------------------------------------------
(***************************************************************************)
(* No silent loss: once a run of auditctl ended with status 0, every event *)
(* between the first cursor and the tail that run aimed at was shown by    *)
(* some run of the chain, or lies in a gap that was reported, however the  *)
(* ring was overwritten between the system calls.                          *)
(***************************************************************************)
NoSilentLoss ==
  \A s \in origin + 1 .. finished :
    \/ \E w \in warnings : w[1] < s /\ s < w[2]
    \/ \E i \in 1 .. Len(shown) : shown[i] = s

(***************************************************************************)
(* No false alarm: a gap warning covers at least one event, and all those  *)
(* it covers are gone from the ring and were never shown; and the checks   *)
(* auditctl makes on the answers of the kernel ("inconsistent audit        *)
(* statistics", "invalid audit record") never fire.                        *)
(***************************************************************************)
NoFalseAlarm ==
  /\ \A w \in warnings :
       /\ w[1] + 1 < w[2]
       /\ w[2] <= first_sequence
       /\ \A i \in 1 .. Len(shown) : ~(w[1] < shown[i] /\ shown[i] < w[2])
  /\ ~rejected

(***************************************************************************)
(* No event is shown twice or out of order over the whole chain of runs,   *)
(* retries after a faulted read included.                                  *)
(***************************************************************************)
ShownOnce ==
  \A i, j \in 1 .. Len(shown) : i < j => shown[i] < shown[j]


=============================================================================
