--------------------------- MODULE AddressSpaces ---------------------------
(***************************************************************************)
(* Page frames and the address spaces built from them: os/src/mm           *)
(* (StackFrameAllocator, PageTable, MemorySet), the kernel stacks of       *)
(* os/src/task/pid.rs, and what TaskControlBlock::new, fork and exec, the  *)
(* exit of a process and the drop of its control block do with them.       *)
(*                                                                         *)
(* A page is its contents as a whole: zero, a page of the program file,    *)
(* something the process stored, or a trap context with the value its next *)
(* return to user mode delivers.  The tables of the code have three levels *)
(* of 512 entries; here a root and one level of FANOUT.  In what order     *)
(* processes are freed is the subject of Tasks; here a zombie may be freed *)
(* at any time.                                                            *)
(***************************************************************************)
EXTENDS Integers, Sequences, FiniteSets, Functions

CONSTANTS
  Procs,        \* bound: the processes there may be at a time
  FirstProc,    \* the first of them, which does not exit
  FANOUT,       \* entries to a page table
  TRAMPOLINE,   \* the highest page of every address space
  ImageSizes,   \* the pages of the programs there are
  USER_STACK,   \* pages of a user stack
  KERNEL_STACK, \* pages of a kernel stack
  MEMORY_END,   \* bound: the frames of the machine are 1 .. MEMORY_END - 1
  MaxBuilt      \* bound: the address spaces fork and exec build

TRAP_CONTEXT == TRAMPOLINE - 1

ASSUME SpacesAssumption ==
  /\ IsFiniteSet(Procs) /\ FirstProc \in Procs
  /\ FANOUT \in Nat \ {0} /\ MEMORY_END \in Nat \ {0} /\ TRAMPOLINE \in Nat
  /\ ImageSizes \subseteq Nat \ {0} /\ ImageSizes # {}
  /\ USER_STACK \in Nat /\ KERNEL_STACK \in Nat
  /\ \A n \in ImageSizes : n + 1 + USER_STACK < TRAP_CONTEXT

VARIABLES
  frame_current, frame_recycled,  \* StackFrameAllocator
  mem,          \* what each frame holds
  memory_set,   \* per process: tables, entries and the frames of its areas
  trap_cx_ppn,  \* per process: the frame its trap context is reached by
  kernel_stack, \* per process: the frames of its kernel stack
  status,       \* per process: "free", "live" or "zombie"
  expected,     \* history: what each process must find in its pages
  oom,          \* frame_alloc().unwrap() met None
  built         \* counts towards MaxBuilt

vars == <<frame_current, frame_recycled, mem, memory_set, trap_cx_ppn,
          kernel_stack, status, expected, oom, built>>

Frames == 1 .. MEMORY_END - 1
None == [i \in {} |-> 0]
NoSpace == [tables |-> << >>, pte |-> None, areas |-> << >>]

-----------------------------------------------------------------------------
(***************************************************************************)
(* The frame allocator hands out the frame returned last, or a new one.    *)
(***************************************************************************)
Available == Len(frame_recycled) + MEMORY_END - frame_current

(* What n calls of frame_alloc return.                                     *)
frame_alloc(n) ==
  [j \in 1 .. n |->
     IF j <= Len(frame_recycled) THEN frame_recycled[Len(frame_recycled) - j + 1]
     ELSE frame_current + j - Len(frame_recycled) - 1]

(* The allocator after n allocations and the return of a list of frames.   *)
Allocate(n, freed) ==
  LET popped == IF n < Len(frame_recycled) THEN n ELSE Len(frame_recycled)
  IN  /\ frame_recycled' = SubSeq(frame_recycled, 1, Len(frame_recycled) - popped) \o freed
      /\ frame_current' = frame_current + n - popped

(* Faulty variant: a frame is handed out with what it held.                *)
Cleared_not(fs) == mem

(* FrameTracker::new.                                                      *)
Cleared(fs) == [f \in Frames |-> IF f \in Range(fs) THEN "zero" ELSE mem[f]]

-----------------------------------------------------------------------------
(***************************************************************************)
(* Address spaces.  Mapping a page takes a frame for it and then one for   *)
(* every table on the way that is not there.                               *)
(***************************************************************************)
Table(vpn) == vpn \div FANOUT

(* The pages of from_elf: the program, above a guard page the stack, and   *)
(* the trap context.                                                       *)
ElfPages(n) ==
  [j \in 1 .. n |-> j - 1] \o [j \in 1 .. USER_STACK |-> n + j] \o <<TRAP_CONTEXT>>

(* The page whose mapping creates its table; the trampoline's is there.    *)
NewTable(pages, j) ==
  /\ Table(pages[j]) # Table(TRAMPOLINE)
  /\ \A i \in 1 .. j - 1 : Table(pages[i]) # Table(pages[j])

(* The place of a page among the allocations: behind the root, the table   *)
(* of the trampoline, the pages before it and the tables they created.     *)
TablesBefore(pages, j) == Cardinality({i \in 1 .. j - 1 : NewTable(pages, i)})
PageAt(pages, j) == 2 + j + TablesBefore(pages, j)

(* The allocations an address space with these pages takes.                *)
Needed(pages) == PageAt(pages, Len(pages) + 1) - 1

(* The place of the k-th table: directly behind the page that created it.  *)
TableAt(pages, k) ==
  IF k <= 2 THEN k
  ELSE 1 + PageAt(pages, CHOOSE j \in DOMAIN pages :
                           NewTable(pages, j) /\ TablesBefore(pages, j) = k - 3)

(* The address space that results from the allocations fs.  An area keeps  *)
(* its frames in the order of its pages.                                   *)
Space(pages, fs) ==
  [tables |-> [k \in 1 .. Needed(pages) - Len(pages) |-> fs[TableAt(pages, k)]],
   pte |-> [vpn \in Range(pages) |->
              fs[PageAt(pages, CHOOSE j \in DOMAIN pages : pages[j] = vpn)]],
   areas |-> [j \in DOMAIN pages |-> [vpn |-> pages[j], ppn |-> fs[PageAt(pages, j)]]]]

(* The pages of the areas and the frames they keep.                        *)
Pages(ms) == [j \in DOMAIN ms.areas |-> ms.areas[j].vpn]
AreaFrames(ms) == [j \in DOMAIN ms.areas |-> ms.areas[j].ppn]

(* MemorySet's drop: the page table, then the areas.                       *)
Dropped(ms) == ms.tables \o AreaFrames(ms)

translate(p, vpn) == memory_set[p].pte[vpn]

(* Writes a page table leads to: cs gives the contents of some pages.      *)
Put(contents, ms, cs) ==
  [f \in Frames |-> IF \E vpn \in DOMAIN cs : ms.pte[vpn] = f
                    THEN cs[CHOOSE vpn \in DOMAIN cs : ms.pte[vpn] = f]
                    ELSE contents[f]]

(* A fresh program: copy_data fills its pages, the rest is as allocated,   *)
(* and the trap context is app_init_context.                               *)
ElfContents(n) ==
  [vpn \in Range(ElfPages(n)) |->
     IF vpn < n THEN "elf" ELSE IF vpn = TRAP_CONTEXT THEN "entry" ELSE "zero"]

Written(n) == [vpn \in {v \in Range(ElfPages(n)) : v < n \/ v = TRAP_CONTEXT} |->
                 ElfContents(n)[vpn]]

-----------------------------------------------------------------------------
(* The first process: TaskControlBlock::new, on a machine with all its     *)
(* frames free.                                                            *)
InitImage == CHOOSE n \in ImageSizes : \A m \in ImageSizes : n <= m
InitPages == ElfPages(InitImage)
InitSpace == Space(InitPages, [j \in 1 .. Needed(InitPages) |-> j])

(* A machine that boots.                                                   *)
ASSUME BootAssumption == Needed(InitPages) + KERNEL_STACK < MEMORY_END

Init ==
  /\ frame_current = 1 + Needed(InitPages) + KERNEL_STACK
  /\ frame_recycled = << >>
  /\ memory_set = [p \in Procs |-> IF p = FirstProc THEN InitSpace ELSE NoSpace]
  /\ trap_cx_ppn = [p \in Procs |-> IF p = FirstProc THEN InitSpace.pte[TRAP_CONTEXT] ELSE 0]
  /\ kernel_stack = [p \in Procs |-> IF p = FirstProc
                                     THEN [j \in 1 .. KERNEL_STACK |-> Needed(InitPages) + j]
                                     ELSE << >>]
  /\ mem = Put([f \in Frames |-> "zero"], InitSpace, Written(InitImage))
  /\ status = [p \in Procs |-> IF p = FirstProc THEN "live" ELSE "free"]
  /\ expected = [p \in Procs |-> IF p = FirstProc THEN ElfContents(InitImage) ELSE None]
  /\ oom = FALSE
  /\ built = 0

OutOfMemory ==
  /\ oom' = TRUE
  /\ UNCHANGED <<frame_current, frame_recycled, mem, memory_set, trap_cx_ppn,
                 kernel_stack, status, expected, built>>

(* Faulty variant: the old address space is forgotten, not dropped.        *)
ReplacedBy_leak(p) == << >>

(* What exec gives back when it replaces the address space of p.           *)
ReplacedBy(p) == Dropped(memory_set[p])

(* TaskControlBlock::exec: the new address space is complete before the    *)
(* old one is dropped.  The value sys_exec returns goes into the new trap  *)
(* context.                                                                *)
exec(p, n) ==
  /\ ~oom /\ built < MaxBuilt /\ status[p] = "live"
  /\ LET pages == ElfPages(n)
         fs == frame_alloc(Needed(pages))
         new == Space(pages, fs)
     IN  IF Needed(pages) > Available THEN OutOfMemory
         ELSE /\ Allocate(Needed(pages), ReplacedBy(p))
              /\ mem' = Put(Cleared(fs), new, Written(n))
              /\ memory_set' = [memory_set EXCEPT ![p] = new]
              /\ trap_cx_ppn' = [trap_cx_ppn EXCEPT ![p] = new.pte[TRAP_CONTEXT]]
              /\ expected' = [expected EXCEPT ![p] = ElfContents(n)]
              /\ built' = built + 1
              /\ UNCHANGED <<kernel_stack, status, oom>>

(* MemorySet::from_existed_user, TaskControlBlock::fork and sys_fork: the  *)
(* pages of every area are copied, the trap context among them, in which   *)
(* the child then finds 0 and the parent the child's pid.                  *)
fork(p, child) ==
  /\ ~oom /\ built < MaxBuilt /\ status[p] = "live" /\ status[child] = "free"
  /\ LET pages == Pages(memory_set[p])
         n == Needed(pages)
         fs == frame_alloc(n + KERNEL_STACK)
         new == Space(pages, fs)
         copied == Put(Cleared(fs), new, [vpn \in Range(pages) |-> mem[translate(p, vpn)]])
     IN  IF n + KERNEL_STACK > Available THEN OutOfMemory
         ELSE /\ Allocate(n + KERNEL_STACK, << >>)
              /\ mem' = [copied EXCEPT ![new.pte[TRAP_CONTEXT]] = "child",
                                       ![trap_cx_ppn[p]] = "parent"]
              /\ memory_set' = [memory_set EXCEPT ![child] = new]
              /\ trap_cx_ppn' = [trap_cx_ppn EXCEPT ![child] = new.pte[TRAP_CONTEXT]]
              /\ kernel_stack' = [kernel_stack EXCEPT ![child] =
                                    [j \in 1 .. KERNEL_STACK |-> fs[n + j]]]
              /\ status' = [status EXCEPT ![child] = "live"]
              /\ expected' = [expected EXCEPT
                    ![child] = [expected[p] EXCEPT ![TRAP_CONTEXT] = "child"],
                    ![p] = [@ EXCEPT ![TRAP_CONTEXT] = "parent"]]
              /\ built' = built + 1
              /\ UNCHANGED oom

(* exit_current_and_run_next: recycle_data_pages drops the areas.  The     *)
(* tables stay, and so do the entries in them.                             *)
exit(p) ==
  /\ ~oom /\ status[p] = "live" /\ p # FirstProc
  /\ Allocate(0, AreaFrames(memory_set[p]))
  /\ memory_set' = [memory_set EXCEPT ![p].areas = << >>]
  /\ status' = [status EXCEPT ![p] = "zombie"]
  /\ UNCHANGED <<mem, trap_cx_ppn, kernel_stack, expected, oom, built>>

(* The control block is dropped: the kernel stack, then the address space. *)
reap(p) ==
  /\ ~oom /\ status[p] = "zombie"
  /\ Allocate(0, kernel_stack[p] \o Dropped(memory_set[p]))
  /\ memory_set' = [memory_set EXCEPT ![p] = NoSpace]
  /\ trap_cx_ppn' = [trap_cx_ppn EXCEPT ![p] = 0]
  /\ kernel_stack' = [kernel_stack EXCEPT ![p] = << >>]
  /\ status' = [status EXCEPT ![p] = "free"]
  /\ expected' = [expected EXCEPT ![p] = None]
  /\ UNCHANGED <<mem, oom, built>>

(* The process stores to a page it may write: the last one of its stack.   *)
store(p) ==
  /\ ~oom /\ status[p] = "live"
  /\ LET below == {vpn \in DOMAIN memory_set[p].pte : vpn < TRAP_CONTEXT}
         vpn == CHOOSE v \in below : \A w \in below : w <= v
     IN  /\ mem' = [mem EXCEPT ![translate(p, vpn)] = "stored"]
         /\ expected' = [expected EXCEPT ![p][vpn] = "stored"]
  /\ UNCHANGED <<frame_current, frame_recycled, memory_set, trap_cx_ppn,
                 kernel_stack, status, oom, built>>

Next ==
  \/ \E p \in Procs, n \in ImageSizes : exec(p, n)
  \/ \E p, child \in Procs : fork(p, child)
  \/ \E p \in Procs : exit(p) \/ reap(p) \/ store(p)

Spec == Init /\ [][Next]_vars

-----------------------------------------------------------------------------
(* The frames a process owns, one entry per owner.                         *)
Owned(p) == Dropped(memory_set[p]) \o kernel_stack[p]

(***************************************************************************)
(* Every frame handed out has exactly one owner, a table, an area or a     *)
(* kernel stack, or has been returned, once: whatever order processes      *)
(* fork, exec, exit and are freed in, no frame is shared, none is lost,    *)
(* and the panic of dealloc ("has not been allocated") is not reached.     *)
(***************************************************************************)
FramesExact ==
  /\ \A p \in Procs :
       /\ IsInjective(Owned(p))
       /\ Range(Owned(p)) \cap Range(frame_recycled) = {}
       /\ \A q \in Procs \ {p} : Range(Owned(p)) \cap Range(Owned(q)) = {}
  /\ IsInjective(frame_recycled)
  /\ Range(frame_recycled) \cup UNION {Range(Owned(p)) : p \in Procs}
       = 1 .. frame_current - 1
  /\ frame_current <= MEMORY_END

(***************************************************************************)
(* Memory is private: every page a live process can reach is a frame of    *)
(* its own, and holds what the process itself put there since exec or      *)
(* what its parent had there at the fork, and zeros elsewhere, whoever     *)
(* owned the frame before; its trap context is where the kernel looks.     *)
(***************************************************************************)
PrivateMemory ==
  \A p \in Procs : status[p] = "live" =>
    /\ DOMAIN memory_set[p].pte = Range(Pages(memory_set[p]))
    /\ \A a \in Range(memory_set[p].areas) : translate(p, a.vpn) = a.ppn
    /\ trap_cx_ppn[p] = translate(p, TRAP_CONTEXT)
    /\ [vpn \in DOMAIN memory_set[p].pte |-> mem[translate(p, vpn)]] = expected[p]

=============================================================================
