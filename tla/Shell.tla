------------------------------- MODULE Shell -------------------------------
(***************************************************************************)
(* The user shell (user/src/bin/user_shell.rs) running a line: it parses   *)
(* the commands, makes the pipes between them, forks a child per command,  *)
(* which arranges its descriptors and execs, closes its own pipe ends and  *)
(* waits for the children in order.                                        *)
(*                                                                         *)
(* A line is a sequence of commands and a command one of tokens.  A        *)
(* program is known by whether it reads its input to the end (count_lines) *)
(* and by how much it then writes.  A pipe is the number of bytes in it;   *)
(* Pipe has its inside, FdQuota the accounts.  A step is a system call;    *)
(* closing the two ends of a pipe is one step, because nothing in the      *)
(* kernel looks for read ends.                                             *)
(***************************************************************************)
EXTENDS Integers, Sequences, FiniteSets, FiniteSetsExt

CONSTANTS
  Lines,          \* what may be typed
  Program,        \* per program: [reads, writes]
  Files,          \* the files there are to redirect input from
  MaxStages,      \* bound: the commands of a line
  RING_BUFFER_SIZE, MAX_OPEN_FILES, MAX_OPEN_PIPE_FDS,
  ERROR_LEN, PANIC_LEN   \* what a child writes if exec fails, and if it panics

ASSUME ShellAssumption ==
  /\ MaxStages \in Nat
  /\ \A typed \in Lines : \E n \in 1 .. MaxStages : DOMAIN typed = 1 .. n
  /\ RING_BUFFER_SIZE \in Nat \ {0}
  /\ ERROR_LEN <= RING_BUFFER_SIZE /\ RING_BUFFER_SIZE < PANIC_LEN

(* 16 pipe descriptors of 32: only whole pipes fit, and they run out       *)
(* before the files do.                                                    *)
ASSUME QuotaAssumption ==
  /\ MAX_OPEN_FILES \in Nat
  /\ MAX_OPEN_PIPE_FDS \in Nat \ {0} /\ MAX_OPEN_PIPE_FDS % 2 = 0
  /\ MAX_OPEN_PIPE_FDS + 3 <= MAX_OPEN_FILES

VARIABLES
  line,       \* the line being run
  pipes_fd,   \* the shell's pipes_fd, as the children inherit it
  k,          \* the shell's loop counter
  pc,         \* per process: where it is
  fds,        \* per process: descriptor -> what it refers to
  left,       \* per child: bytes it has still to write
  bytes,      \* per pipe of the line: the bytes in it
  failed,     \* history: a pipe() of the shell has failed
  stopped     \* the kernel has stopped

shellVars == <<line, pipes_fd, k, pc, fds, left, bytes, failed, stopped>>

Sh == 0
Stages == 1 .. MaxStages
Procs == {Sh} \cup Stages

(* What a descriptor refers to: the kind of file and, of pipes, which.     *)
Stdin == <<"stdin", 0>>
Stdout == <<"stdout", 0>>
DiskFile == <<"file", 0>>
ReadEnd(j) == <<"read", j>>
WriteEnd(j) == <<"write", j>>
Ends == {ReadEnd(j) : j \in Stages} \cup {WriteEnd(j) : j \in Stages}

NoFds == [fd \in {} |-> Stdin]
Standard == [fd \in 0 .. 2 |-> IF fd = 0 THEN Stdin ELSE Stdout]

ShellInit ==
  /\ line = << >> /\ pipes_fd = << >> /\ k = 0
  /\ pc = [p \in Procs |-> IF p = Sh THEN "prompt" ELSE "none"]
  /\ fds = [p \in Procs |-> IF p = Sh THEN Standard ELSE NoFds]
  /\ left = [c \in Stages |-> 0]
  /\ bytes = [j \in Stages |-> 0]
  /\ failed = FALSE /\ stopped = FALSE

-----------------------------------------------------------------------------
(***************************************************************************)
(* Descriptor tables, as sys_open, sys_dup, sys_pipe and sys_close leave   *)
(* them.                                                                   *)
(***************************************************************************)
alloc_fd(t) == Min((0 .. Cardinality(DOMAIN t)) \ DOMAIN t)
Install(t, o) ==
  [fd \in DOMAIN t \cup {alloc_fd(t)} |-> IF fd \in DOMAIN t THEN t[fd] ELSE o]
Closed(t, fd) == [f \in DOMAIN t \ {fd} |-> t[f]]
PipeFds(t) == {fd \in DOMAIN t : t[fd] \in Ends}

Reservable(t, n, ends) ==
  /\ Cardinality(DOMAIN t) + n <= MAX_OPEN_FILES
  /\ Cardinality(PipeFds(t)) + ends <= MAX_OPEN_PIPE_FDS

dup_ok(t, fd) ==
  fd \in DOMAIN t /\ Reservable(t, 1, IF t[fd] \in Ends THEN 1 ELSE 0)

WithoutPipe(t, pipe_fd) == Closed(Closed(t, pipe_fd[1]), pipe_fd[2])

-----------------------------------------------------------------------------
(***************************************************************************)
(* ProcessArguments::new.  A redirection takes the token behind it; if     *)
(* there is none the index is out of bounds and the shell panics.          *)
(***************************************************************************)
Redirect(tokens, mark) ==
  LET at == {i \in DOMAIN tokens : tokens[i] = mark}
  IN  IF at = {} THEN [file |-> "", rest |-> tokens, panic |-> FALSE]
      ELSE IF Min(at) = Len(tokens) THEN [file |-> "", rest |-> << >>, panic |-> TRUE]
      ELSE [file |-> tokens[Min(at) + 1], panic |-> FALSE,
            rest |-> SubSeq(tokens, 1, Min(at) - 1) \o SubSeq(tokens, Min(at) + 2, Len(tokens))]

ProcessArguments(tokens) ==
  LET input == Redirect(tokens, "<")
      output == Redirect(input.rest, ">")
  IN  [input |-> input.file, output |-> output.file, args |-> output.rest,
       panic |-> input.panic \/ output.panic]

(* Input may be redirected for the first command, output for the last.     *)
Valid(list) ==
  \/ Len(list) = 1
  \/ \A i \in DOMAIN list :
       /\ i < Len(list) => list[i].output = ""
       /\ i > 1 => list[i].input = ""

(* A line is typed.                                                        *)
Enter(typed) ==
  LET list == [i \in DOMAIN typed |-> ProcessArguments(typed[i])]
  IN  /\ ~stopped /\ pc[Sh] = "prompt" /\ 0 \in DOMAIN fds[Sh]
      /\ IF \E i \in DOMAIN list : list[i].panic
         THEN pc' = [pc EXCEPT ![Sh] = "gone"] /\ UNCHANGED line
         ELSE IF ~Valid(list) THEN UNCHANGED <<pc, line>>
         ELSE pc' = [pc EXCEPT ![Sh] = "pipes"] /\ line' = list
      /\ pipes_fd' = << >> /\ k' = 1
      /\ bytes' = [j \in Stages |-> 0]
      /\ UNCHANGED <<fds, left, failed, stopped>>

(* The shell's next loop.                                                  *)
Go(next) == pc' = [pc EXCEPT ![Sh] = next] /\ k' = 1

(* pipe(), whose result the shell does not look at.                        *)
MakePipe ==
  /\ ~stopped /\ pc[Sh] = "pipes"
  /\ IF k = Len(line) THEN Go("fork") /\ UNCHANGED <<pipes_fd, fds, failed>>
     ELSE /\ IF Reservable(fds[Sh], 2, 2)
             THEN LET read == Install(fds[Sh], ReadEnd(k))
                  IN  /\ fds' = [fds EXCEPT ![Sh] = Install(read, WriteEnd(k))]
                      /\ pipes_fd' = Append(pipes_fd, <<alloc_fd(fds[Sh]), alloc_fd(read)>>)
                      /\ UNCHANGED failed
             ELSE /\ pipes_fd' = Append(pipes_fd, <<0, 0>>)
                  /\ failed' = TRUE
                  /\ UNCHANGED fds
          /\ k' = k + 1
          /\ UNCHANGED pc
  /\ UNCHANGED <<line, left, bytes, stopped>>

(* fork(): the child has the descriptors of the shell.                     *)
Fork ==
  /\ ~stopped /\ pc[Sh] = "fork"
  /\ IF k > Len(line) THEN Go("close") /\ UNCHANGED fds
     ELSE /\ pc' = [pc EXCEPT ![k] = "input"]
          /\ fds' = [fds EXCEPT ![k] = fds[Sh]]
          /\ k' = k + 1
  /\ UNCHANGED <<line, pipes_fd, left, bytes, failed, stopped>>

(* Faulty variant: the read end is left open.                              *)
ShellWithout_write(t, pipe_fd) == Closed(t, pipe_fd[2])

ShellWithout(t, pipe_fd) == WithoutPipe(t, pipe_fd)

ClosePipe ==
  /\ ~stopped /\ pc[Sh] = "close"
  /\ IF k = Len(line) THEN Go("wait") /\ UNCHANGED fds
     ELSE /\ fds' = [fds EXCEPT ![Sh] = ShellWithout(@, pipes_fd[k])]
          /\ k' = k + 1
          /\ UNCHANGED pc
  /\ UNCHANGED <<line, pipes_fd, left, bytes, failed, stopped>>

(* waitpid() on the children in the order they were made.                  *)
Wait ==
  /\ ~stopped /\ pc[Sh] = "wait"
  /\ IF k > Len(line) THEN Go("prompt")
     ELSE /\ pc[k] = "zombie"
          /\ pc' = [pc EXCEPT ![k] = "none"]
          /\ k' = k + 1
  /\ UNCHANGED <<line, pipes_fd, fds, left, bytes, failed, stopped>>

-----------------------------------------------------------------------------
(***************************************************************************)
(* The child of command c, up to exec.                                     *)
(***************************************************************************)
Over(c) == fds' = [fds EXCEPT ![c] = NoFds] /\ pc' = [pc EXCEPT ![c] = "zombie"]

Proceed(c, next, t) == fds' = [fds EXCEPT ![c] = t] /\ pc' = [pc EXCEPT ![c] = next]

(* open(); close(fd); dup(), which must yield fd; close().                 *)
Redirected(c, fd, exists, next) ==
  LET opened == Install(fds[c], DiskFile)
      dupped == Install(Closed(opened, fd), DiskFile)
  IN  IF exists /\ Reservable(fds[c], 1, 0)
      THEN Proceed(c, next, Closed(dupped, alloc_fd(fds[c])))
      ELSE Over(c)

RedirectInput(c) ==
  /\ ~stopped /\ pc[c] = "input"
  /\ IF line[c].input = "" THEN Proceed(c, "output", fds[c])
     ELSE Redirected(c, 0, line[c].input \in Files, "output")
  /\ UNCHANGED <<line, pipes_fd, k, left, bytes, failed, stopped>>

RedirectOutput(c) ==
  /\ ~stopped /\ pc[c] = "output"
  /\ IF line[c].output = "" THEN Proceed(c, "stdin", fds[c])
     ELSE Redirected(c, 1, TRUE, "stdin")
  /\ UNCHANGED <<line, pipes_fd, k, left, bytes, failed, stopped>>

(* close(fd); assert_eq!(dup(end), fd).                                    *)
Moved(c, fd, end, next) ==
  LET t == Closed(fds[c], fd)
  IN  IF dup_ok(t, end) /\ alloc_fd(t) = fd THEN Proceed(c, next, Install(t, t[end]))
      ELSE Over(c)

TakeStdin(c) ==
  /\ ~stopped /\ pc[c] = "stdin"
  /\ IF c = 1 THEN Proceed(c, "stdout", fds[c])
     ELSE Moved(c, 0, pipes_fd[c - 1][1], "stdout")
  /\ UNCHANGED <<line, pipes_fd, k, left, bytes, failed, stopped>>

TakeStdout(c) ==
  /\ ~stopped /\ pc[c] = "stdout"
  /\ IF c = Len(line) THEN Proceed(c, "exec", fds[c])
     ELSE Moved(c, 1, pipes_fd[c][2], "exec")
  /\ UNCHANGED <<line, pipes_fd, k, left, bytes, failed, stopped>>

(* Faulty variant: the child closes the ends of the pipes next to it.      *)
Inherited_near(c) == {j \in DOMAIN pipes_fd : j \in {c - 1, c}}

(* The pipes whose ends the child closes.                                  *)
Inherited(c) == DOMAIN pipes_fd

(* The closes, and exec().  A program that is not there makes the child    *)
(* print and exit, an empty command makes it panic; both write to its      *)
(* standard output, which may be a pipe by now.                            *)
Exec(c) ==
  LET ends == {pipes_fd[j][i] : j \in Inherited(c), i \in {1, 2}}
      t == [fd \in DOMAIN fds[c] \ ends |-> fds[c][fd]]
      args == line[c].args
      known == args # << >> /\ args[1] \in DOMAIN Program
  IN  /\ ~stopped /\ pc[c] = "exec"
      /\ Proceed(c, IF known /\ Program[args[1]].reads THEN "read" ELSE "write", t)
      /\ left' = [left EXCEPT ![c] = IF known THEN Program[args[1]].writes
                                     ELSE IF args = << >> THEN PANIC_LEN ELSE ERROR_LEN]
      /\ UNCHANGED <<line, pipes_fd, k, bytes, failed, stopped>>

-----------------------------------------------------------------------------
(***************************************************************************)
(* The programs.  Pipe::read waits for bytes as long as a write end is     *)
(* open, Pipe::write for room.  A file has an end.  Stdin::read asserts    *)
(* that one byte is asked for, and these programs ask for more.            *)
(***************************************************************************)
Held(o) == \E p \in Procs : \E fd \in DOMAIN fds[p] : fds[p][fd] = o

(* Faulty variant: the wrong end is asked for.                             *)
all_write_ends_closed_read(j) == ~Held(ReadEnd(j))

all_write_ends_closed(j) == ~Held(WriteEnd(j))

Read(c) ==
  LET in == fds[c][0]
  IN  /\ ~stopped /\ pc[c] = "read"
      /\ \/ /\ in \in Ends /\ bytes[in[2]] > 0
            /\ bytes' = [bytes EXCEPT ![in[2]] = @ - 1]
            /\ UNCHANGED <<pc, stopped>>
         \/ /\ in = DiskFile \/ (in \in Ends /\ bytes[in[2]] = 0 /\ all_write_ends_closed(in[2]))
            /\ pc' = [pc EXCEPT ![c] = "write"]
            /\ UNCHANGED <<bytes, stopped>>
         \/ /\ in = Stdin
            /\ stopped' = TRUE
            /\ UNCHANGED <<pc, bytes>>
      /\ UNCHANGED <<line, pipes_fd, k, fds, left, failed>>

Write(c) ==
  LET out == fds[c][1]
  IN  /\ ~stopped /\ pc[c] = "write" /\ left[c] > 0
      /\ \/ /\ out \in Ends /\ bytes[out[2]] < RING_BUFFER_SIZE
            /\ bytes' = [bytes EXCEPT ![out[2]] = @ + 1]
            /\ left' = [left EXCEPT ![c] = @ - 1]
         \/ /\ out \notin Ends
            /\ left' = [left EXCEPT ![c] = 0]
            /\ UNCHANGED bytes
      /\ UNCHANGED <<line, pipes_fd, k, pc, fds, failed, stopped>>

Exit(c) ==
  /\ ~stopped /\ pc[c] = "write" /\ left[c] = 0
  /\ Over(c)
  /\ UNCHANGED <<line, pipes_fd, k, left, bytes, failed, stopped>>

ShellStep == MakePipe \/ Fork \/ ClosePipe \/ Wait
ChildStep(c) ==
  \/ RedirectInput(c) \/ RedirectOutput(c) \/ TakeStdin(c) \/ TakeStdout(c) \/ Exec(c)
  \/ Read(c) \/ Write(c) \/ Exit(c)

ShellNext ==
  \/ \E typed \in Lines : Enter(typed)
  \/ ShellStep
  \/ \E c \in Stages : ChildStep(c)

(* Every process that can run is run: the ready queue is first in, first   *)
(* out, and a call that waits suspends and looks again.                    *)
Fairness == WF_shellVars(ShellStep) /\ \A c \in Stages : WF_shellVars(ChildStep(c))

ShellSpec == ShellInit /\ [][ShellNext]_shellVars /\ Fairness

-----------------------------------------------------------------------------
(***************************************************************************)
(* A command that runs holds the ends of its own pipes and of no other:    *)
(* its input is the pipe from the command before it, its output the pipe   *)
(* to the one behind it, and there is no third pipe descriptor, which      *)
(* would keep a reader from ever seeing the end of its input.              *)
(***************************************************************************)
Wired ==
  \A c \in Stages : pc[c] \in {"read", "write"} =>
    /\ fds[c][0] = IF c > 1 THEN ReadEnd(c - 1)
                   ELSE IF line[c].input # "" THEN DiskFile ELSE Stdin
    /\ fds[c][1] = IF c < Len(line) THEN WriteEnd(c)
                   ELSE IF line[c].output # "" THEN DiskFile ELSE Stdout
    /\ DOMAIN fds[c] = 0 .. 2 /\ fds[c][2] = Stdout

(***************************************************************************)
(* Back at the prompt the shell has the descriptors it started with, and   *)
(* every child of the line has been waited for, unless a pipe() failed:    *)
(* the shell then closes descriptor 0 in place of the ends it never got.   *)
(***************************************************************************)
PromptIsClean ==
  pc[Sh] = "prompt" =>
    /\ fds[Sh] = IF failed THEN Closed(Standard, 0) ELSE Standard
    /\ \A c \in Stages : pc[c] = "none" /\ fds[c] = NoFds

(* A child waits to write to a full pipe that no process can read from.    *)
Stuck ==
  \E c \in Stages :
    /\ pc[c] = "write" /\ left[c] > 0 /\ fds[c][1] \in Ends
    /\ bytes[fds[c][1][2]] = RING_BUFFER_SIZE
    /\ ~Held(ReadEnd(fds[c][1][2]))

(***************************************************************************)
(* A line ends: the shell is at the prompt again, whatever the commands    *)
(* and however they are scheduled, or a command is writing to a pipe that  *)
(* has lost its reader, or the kernel has stopped in Stdin::read.          *)
(***************************************************************************)
PromptReturns == pc[Sh] = "pipes" ~> (pc[Sh] = "prompt" \/ Stuck \/ stopped)

=============================================================================
