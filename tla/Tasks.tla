------------------------------- MODULE Tasks -------------------------------
(***************************************************************************)
(* The life of processes: os/src/task (PidAllocator, TaskManager, PID2TCB, *)
(* Processor, exit and suspend) with sys_fork, sys_exit, sys_yield and     *)
(* sys_waitpid of os/src/syscall/process.rs.                               *)
(*                                                                         *)
(* A task is a TaskControlBlock behind an Arc.  It exists ("Ready",        *)
(* "Running" or "Zombie") as long as some strong reference to it does; its *)
(* PidHandle and with it its pid and kernel stack go with the last one.    *)
(***************************************************************************)
EXTENDS Integers, Sequences, FiniteSets, Functions

CONSTANTS
  Tasks,       \* bound: the task control blocks there is memory for
  INITPROC,    \* the first of them
  NoTask       \* what an Option<Arc<TaskControlBlock>> is when it is None

ASSUME TasksAssumption ==
  /\ IsFiniteSet(Tasks)
  /\ INITPROC \in Tasks
  /\ NoTask \notin Tasks

IDLE_PID == 1

VARIABLES
  pid_current, recycled,  \* PidAllocator
  pid,          \* per task: its PidHandle
  task_status,  \* per task: "Free", "Ready", "Running" or "Zombie"
  parent,       \* per task: a weak reference
  children,     \* per task: a sequence of strong references
  PID2TCB,      \* from pids to tasks
  ready_queue,  \* TaskManager
  current,      \* Processor.current
  halted        \* the machine was shut down

taskVars == <<pid_current, recycled, pid, task_status, parent, children,
              PID2TCB, ready_queue, current, halted>>

Pids == 1 .. Cardinality(Tasks)

(* The kernel after add_initproc, on its way into run_tasks.               *)
Init ==
  /\ pid_current = IDLE_PID + 1
  /\ recycled = << >>
  /\ pid = [t \in Tasks |-> IF t = INITPROC THEN IDLE_PID ELSE 0]
  /\ task_status = [t \in Tasks |-> IF t = INITPROC THEN "Ready" ELSE "Free"]
  /\ parent = [t \in Tasks |-> NoTask]
  /\ children = [t \in Tasks |-> << >>]
  /\ PID2TCB = [p \in {IDLE_PID} |-> INITPROC]
  /\ ready_queue = <<INITPROC>>
  /\ current = NoTask
  /\ halted = FALSE

-----------------------------------------------------------------------------
(***************************************************************************)
(* The pid allocator hands out the pid returned last, or a new one.        *)
(***************************************************************************)
(* Faulty variant: a recycled pid stays in the list.                       *)
pid_alloc_no_pop(t) ==
  IF recycled # << >>
  THEN /\ pid' = [pid EXCEPT ![t] = recycled[Len(recycled)]]
       /\ UNCHANGED <<recycled, pid_current>>
  ELSE /\ pid' = [pid EXCEPT ![t] = pid_current]
       /\ pid_current' = pid_current + 1
       /\ UNCHANGED recycled

pid_alloc(t) ==
  IF recycled # << >>
  THEN /\ pid' = [pid EXCEPT ![t] = recycled[Len(recycled)]]
       /\ recycled' = SubSeq(recycled, 1, Len(recycled) - 1)
       /\ UNCHANGED pid_current
  ELSE /\ pid' = [pid EXCEPT ![t] = pid_current]
       /\ pid_current' = pid_current + 1
       /\ UNCHANGED recycled

(* PidHandle::drop, when the last strong reference to t goes away.  That   *)
(* its assertions hold is part of PidsPartition.                           *)
pid_dealloc(t) ==
  /\ recycled' = Append(recycled, pid[t])
  /\ pid' = [pid EXCEPT ![t] = 0]
  /\ UNCHANGED pid_current

(* add_task enters the pid, again if it is there, and queues the task.     *)
WithPid(p, t) == [q \in DOMAIN PID2TCB \union {p} |-> IF q = p THEN t ELSE PID2TCB[q]]
WithoutPid(p) == [q \in DOMAIN PID2TCB \ {p} |-> PID2TCB[q]]

(***************************************************************************)
(* The idle loop of the processor.                                         *)
(***************************************************************************)
run_tasks ==
  /\ ~halted
  /\ current = NoTask
  /\ ready_queue # << >>
  /\ current' = Head(ready_queue)
  /\ ready_queue' = Tail(ready_queue)
  /\ task_status' = [task_status EXCEPT ![current'] = "Running"]
  /\ UNCHANGED <<pid_current, recycled, pid, parent, children, PID2TCB, halted>>

(* The timer interrupt, sys_yield, and every wait inside the kernel.       *)
(* Faulty variant: the task stays current although it is queued.           *)
suspend_still_current ==
  /\ current # NoTask
  /\ task_status' = [task_status EXCEPT ![current] = "Ready"]
  /\ ready_queue' = Append(ready_queue, current)
  /\ UNCHANGED <<pid_current, recycled, pid, parent, children, PID2TCB,
                 current, halted>>

suspend_current_and_run_next ==
  /\ current # NoTask
  /\ task_status' = [task_status EXCEPT ![current] = "Ready"]
  /\ PID2TCB' = WithPid(pid[current], current)
  /\ ready_queue' = Append(ready_queue, current)
  /\ current' = NoTask
  /\ UNCHANGED <<pid_current, recycled, pid, parent, children, halted>>

sys_fork(child) ==
  /\ current # NoTask
  /\ task_status[child] = "Free"
  /\ pid_alloc(child)
  /\ task_status' = [task_status EXCEPT ![child] = "Ready"]
  /\ parent' = [parent EXCEPT ![child] = current]
  /\ children' = [children EXCEPT ![current] = Append(@, child)]
  /\ PID2TCB' = WithPid(pid'[child], child)
  /\ ready_queue' = Append(ready_queue, child)
  /\ UNCHANGED <<current, halted>>

(***************************************************************************)
(* exit_current_and_run_next: the first process takes the machine down     *)
(* with it; another becomes a zombie and leaves its children to INITPROC.  *)
(***************************************************************************)
Shutdown ==
  /\ current # NoTask
  /\ pid[current] = IDLE_PID
  /\ halted' = TRUE
  /\ current' = NoTask
  /\ UNCHANGED <<pid_current, recycled, pid, task_status, parent, children,
                 PID2TCB, ready_queue>>

(* Faulty variant: the pid of a process that exits stays in PID2TCB.       *)
exit_keep_pid ==
  /\ current # NoTask
  /\ pid[current] # IDLE_PID
  /\ task_status' = [task_status EXCEPT ![current] = "Zombie"]
  /\ parent' = [t \in Tasks |-> IF t \in Range(children[current]) THEN INITPROC ELSE parent[t]]
  /\ children' = [children EXCEPT ![INITPROC] = @ \o children[current],
                                  ![current] = << >>]
  /\ current' = NoTask
  /\ UNCHANGED <<pid_current, recycled, pid, PID2TCB, ready_queue, halted>>

(* Faulty variant: orphans are put in front of the children of INITPROC,   *)
(* still naming their old parent.                                          *)
exit_keep_parent ==
  /\ current # NoTask
  /\ pid[current] # IDLE_PID
  /\ PID2TCB' = WithoutPid(pid[current])
  /\ task_status' = [task_status EXCEPT ![current] = "Zombie"]
  /\ children' = [children EXCEPT ![INITPROC] = children[current] \o @,
                                  ![current] = << >>]
  /\ current' = NoTask
  /\ UNCHANGED <<pid_current, recycled, pid, parent, ready_queue, halted>>

exit_current_and_run_next ==
  /\ current # NoTask
  /\ pid[current] # IDLE_PID
  /\ PID2TCB' = WithoutPid(pid[current])
  /\ task_status' = [task_status EXCEPT ![current] = "Zombie"]
  /\ parent' = [t \in Tasks |-> IF t \in Range(children[current]) THEN INITPROC ELSE parent[t]]
  /\ children' = [children EXCEPT ![INITPROC] = @ \o children[current],
                                  ![current] = << >>]
  /\ current' = NoTask
  /\ UNCHANGED <<pid_current, recycled, pid, ready_queue, halted>>

-----------------------------------------------------------------------------
(***************************************************************************)
(* sys_waitpid: the first zombie among the children that match is removed  *)
(* and freed.  With no match (-1), no zombie (-2) or a bad pointer (-14)   *)
(* nothing changes.                                                        *)
(***************************************************************************)
(* Faulty variant: -1 does not stand for any child.                        *)
Matches_pid_only(arg, t) == arg = pid[t]

Matches(arg, t) == arg = -1 \/ arg = pid[t]

(* The strong references to a task, counted.                               *)
strong_count(t) ==
    Cardinality({i \in 1 .. Len(ready_queue) : ready_queue[i] = t})
  + Cardinality({p \in DOMAIN PID2TCB : PID2TCB[p] = t})
  + Cardinality(UNION {{<<q, i>> : i \in {j \in 1 .. Len(children[q]) : children[q][j] = t}}
                        : q \in Tasks})
  + (IF current = t THEN 1 ELSE 0)

(* Faulty variant: a child is taken whether it is a zombie or not.         *)
Reapable_any(arg) ==
  {i \in 1 .. Len(children[current]) : Matches(arg, children[current][i])}

Reapable(arg) ==
  {i \in 1 .. Len(children[current]) :
     /\ task_status[children[current][i]] = "Zombie"
     /\ Matches(arg, children[current][i])}

(* The entry of the list that find returns.                                *)
FirstReapable(arg) == CHOOSE i \in Reapable(arg) : \A j \in Reapable(arg) : i <= j

sys_waitpid(arg) ==
  /\ current # NoTask
  /\ Reapable(arg) # {}
  /\ LET i == FirstReapable(arg)
         child == children[current][i]
     IN  /\ children' = [children EXCEPT
                           ![current] = SubSeq(@, 1, i - 1) \o SubSeq(@, i + 1, Len(@))]
         /\ task_status' = [task_status EXCEPT ![child] = "Free"]
         /\ parent' = [parent EXCEPT ![child] = NoTask]
         /\ pid_dealloc(child)
  /\ UNCHANGED <<PID2TCB, ready_queue, current, halted>>

TaskNext ==
  \/ run_tasks
  \/ suspend_current_and_run_next
  \/ \E child \in Tasks : sys_fork(child)
  \/ Shutdown
  \/ exit_current_and_run_next
  \/ \E arg \in {-1} \union Pids : sys_waitpid(arg)

(* A machine that was shut down does nothing any more.                     *)
PoweredOff == halted /\ UNCHANGED taskVars

Next == TaskNext \/ PoweredOff

(* initproc.rs calls wait again and again.                                 *)
InitprocWaits == current = INITPROC /\ sys_waitpid(-1)

(* The idle loop runs; a process in user mode that neither returns to the  *)
(* kernel nor leaves it meets the timer; initproc follows its program.     *)
Spec ==
  /\ Init
  /\ [][Next]_taskVars
  /\ WF_taskVars(run_tasks)
  /\ SF_taskVars(suspend_current_and_run_next)
  /\ SF_taskVars(InitprocWaits)

-----------------------------------------------------------------------------
Exists(t) == task_status[t] # "Free"

(***************************************************************************)
(* Type invariant.                                                         *)
(***************************************************************************)
TaskTypeOK ==
  /\ pid_current \in 2 .. Cardinality(Tasks) + 1
  /\ recycled \in Seq(Pids)
  /\ pid \in [Tasks -> {0} \union Pids]
  /\ task_status \in [Tasks -> {"Free", "Ready", "Running", "Zombie"}]
  /\ parent \in [Tasks -> Tasks \union {NoTask}]
  /\ children \in [Tasks -> Seq(Tasks)]
  /\ DOMAIN PID2TCB \subseteq Pids
  /\ \A p \in DOMAIN PID2TCB : PID2TCB[p] \in Tasks
  /\ ready_queue \in Seq(Tasks)
  /\ current \in Tasks \union {NoTask}
  /\ halted \in BOOLEAN

(***************************************************************************)
(* Pids name processes: the pids in use and the recycled ones split the    *)
(* pids handed out so far, without repetition, however processes come and  *)
(* go.  The kernel stack of a process is placed by its pid.                *)
(***************************************************************************)
PidsPartition ==
  LET used == {pid[t] : t \in {u \in Tasks : Exists(u)}}
  IN  /\ Cardinality(used) = Cardinality({t \in Tasks : Exists(t)})
      /\ IsInjective(recycled)
      /\ used \intersect Range(recycled) = {}
      /\ used \union Range(recycled) = 1 .. pid_current - 1

(***************************************************************************)
(* PID2TCB is the set of processes that have not exited, each under its    *)
(* own pid: what pid2task finds can be signalled, and nothing else can.    *)
(***************************************************************************)
Pid2TaskExact ==
  /\ \A t \in Tasks : task_status[t] \in {"Ready", "Running"}
                        <=> (pid[t] \in DOMAIN PID2TCB /\ PID2TCB[pid[t]] = t)
  /\ \A p \in DOMAIN PID2TCB : pid[PID2TCB[p]] = p

(***************************************************************************)
(* A ready task is in the queue exactly once, the running one is current,  *)
(* and a task that exited is neither.                                      *)
(***************************************************************************)
QueueExact ==
  \A t \in Tasks :
    /\ Cardinality({i \in 1 .. Len(ready_queue) : ready_queue[i] = t})
         = IF task_status[t] = "Ready" THEN 1 ELSE 0
    /\ ~halted => (task_status[t] = "Running" <=> current = t)

(***************************************************************************)
(* No process is lost: every one but INITPROC is in the children list of   *)
(* exactly one process, its parent, which has not exited.                  *)
(***************************************************************************)
FamilyTree ==
  \A t \in Tasks \ {INITPROC} :
    LET lists == {q \in Tasks : t \in Range(children[q])}
    IN  IF Exists(t)
        THEN /\ lists = {parent[t]}
             /\ IsInjective(children[parent[t]])
             /\ task_status[parent[t]] \in {"Ready", "Running"}
        ELSE lists = {}

(***************************************************************************)
(* The four tables that refer to processes (pids, PID2TCB, the ready queue *)
(* and the children lists) agree after any sequence of fork, exit, waitpid *)
(* and preemption.                                                         *)
(***************************************************************************)
TasksInv == TaskTypeOK /\ PidsPartition /\ Pid2TaskExact /\ QueueExact /\ FamilyTree

(***************************************************************************)
(* The assertion of sys_waitpid: a zombie is referred to by the children   *)
(* list it is in and by nothing else, so removing it there frees it.       *)
(***************************************************************************)
ZombieCountIsOne ==
  \A t \in Tasks : task_status[t] = "Zombie" => strong_count(t) = 1

(***************************************************************************)
(* INITPROC frees every zombie that was left to it.                        *)
(***************************************************************************)
OrphansReaped ==
  \A t \in Tasks :
    (task_status[t] = "Zombie" /\ parent[t] = INITPROC) ~> (task_status[t] = "Free" \/ halted)

=============================================================================
