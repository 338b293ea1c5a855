----------------------------- MODULE BlockStore -----------------------------
(***************************************************************************)
(* What easy-fs expects of the blocks it works on, whatever is cached: a   *)
(* block changes only while an operation holds it and writes to it, an     *)
(* operation that has returned has everything it wrote on the device, and  *)
(* a loss of power leaves what is on the device.                           *)
(***************************************************************************)
EXTENDS Integers, Sequences

CONSTANTS Blocks, Contents

VARIABLES
  mem,      \* the contents of every block, as an operation sees them
  durable,  \* what the device holds
  inside,   \* the blocks the operation is working on, innermost last
  busy      \* an operation of the file system is going on

storeVars == <<mem, durable, inside, busy>>

Init ==
  /\ durable \in [Blocks -> Contents]
  /\ mem = durable
  /\ inside = << >>
  /\ busy = FALSE

Begin ==
  /\ ~busy
  /\ busy' = TRUE
  /\ UNCHANGED <<mem, durable, inside>>

(* Taking a block may bring another one back to the device, in any order.  *)
Take(b) ==
  /\ busy
  /\ inside' = Append(inside, b)
  /\ \/ UNCHANGED durable
     \/ \E v \in Blocks : durable' = [durable EXCEPT ![v] = mem[v]]
  /\ UNCHANGED <<mem, busy>>

Write(c) ==
  /\ inside # << >>
  /\ mem' = [mem EXCEPT ![inside[Len(inside)]] = c]
  /\ UNCHANGED <<durable, inside, busy>>

Leave ==
  /\ inside # << >>
  /\ inside' = SubSeq(inside, 1, Len(inside) - 1)
  /\ UNCHANGED <<mem, durable, busy>>

WriteBack(b) ==
  /\ busy
  /\ durable' = [durable EXCEPT ![b] = mem[b]]
  /\ UNCHANGED <<mem, inside, busy>>

(* An operation returns when nothing of it is missing from the device.     *)
Return ==
  /\ busy
  /\ mem = durable
  /\ inside = << >>
  /\ busy' = FALSE
  /\ UNCHANGED <<mem, durable, inside>>

PowerLoss ==
  /\ mem' = durable
  /\ inside' = << >>
  /\ busy' = FALSE
  /\ UNCHANGED durable

Next ==
  \/ Begin
  \/ \E b \in Blocks : Take(b) \/ WriteBack(b)
  \/ \E c \in Contents : Write(c)
  \/ Leave
  \/ Return
  \/ PowerLoss

Spec == Init /\ [][Next]_storeVars

=============================================================================
