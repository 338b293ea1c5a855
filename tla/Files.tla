------------------------------- MODULE Files -------------------------------
(***************************************************************************)
(* What a process may expect of files: a name stands for a file, a file is *)
(* a sequence of cells, and an open file is one of them and an offset.  A  *)
(* write past the end leaves zeros in between.                             *)
(***************************************************************************)
EXTENDS Integers, Sequences, FiniteSetsExt, Functions

CONSTANTS Names, Ids, Handles, Buffers, Modes, Zero, Closed

VARIABLES
  names,   \* from the names there are to files
  files,   \* from the files there are to contents
  opened   \* per handle: Closed, or a file and an offset

fileVars == <<names, files, opened>>

(* A buffer is a sequence of slices, given by their lengths.               *)
Total(buffer) == SumFunction(buffer)

Overwritten(content, offset, len, v) ==
  [i \in 1 .. Max({Len(content), offset + len}) |->
     IF i > offset /\ i <= offset + len THEN v
     ELSE IF i <= Len(content) THEN content[i]
     ELSE Zero]

Init ==
  /\ names = [n \in {} |-> 0]
  /\ files = [i \in {} |-> << >>]
  /\ opened = [h \in Handles |-> Closed]

Opens(h, i) ==
  /\ opened[h] = Closed
  /\ opened' = [opened EXCEPT ![h] = [inode |-> i, offset |-> 0]]

(* CREATE makes the file; CREATE and TRUNC empty one that is there.        *)
Open(h, n, mode) ==
  /\ n \in DOMAIN names
  /\ Opens(h, names[n])
  /\ files' = IF mode \intersect {"CREATE", "TRUNC"} = {} THEN files
              ELSE [files EXCEPT ![names[n]] = << >>]
  /\ UNCHANGED names

Create(h, n, i) ==
  /\ n \notin DOMAIN names
  /\ i \notin DOMAIN files
  /\ Opens(h, i)
  /\ names' = [m \in DOMAIN names \union {n} |-> IF m = n THEN i ELSE names[m]]
  /\ files' = [j \in DOMAIN files \union {i} |-> IF j = i THEN << >> ELSE files[j]]

Read(h, buffer) ==
  /\ opened[h] # Closed
  /\ LET end == Min({opened[h].offset + Total(buffer), Len(files[opened[h].inode])})
     IN  opened' = [opened EXCEPT ![h].offset = Max({@, end})]
  /\ UNCHANGED <<names, files>>

Write(h, buffer) ==
  /\ opened[h] # Closed
  /\ opened' = [opened EXCEPT ![h].offset = @ + Total(buffer)]
  /\ files' = [files EXCEPT ![opened[h].inode] =
                 Overwritten(@, opened[h].offset, Total(buffer), h)]
  /\ UNCHANGED names

Close(h) ==
  /\ opened' = [opened EXCEPT ![h] = Closed]
  /\ UNCHANGED <<names, files>>

Next ==
  \/ \E h \in Handles, n \in Names :
       \/ \E mode \in Modes : Open(h, n, mode)
       \/ \E i \in Ids : Create(h, n, i)
  \/ \E h \in Handles, buffer \in Buffers : Read(h, buffer) \/ Write(h, buffer)
  \/ \E h \in Handles : Close(h)

Spec == Init /\ [][Next]_fileVars

=============================================================================
