---------------------------- MODULE TasksProofs ----------------------------
(***************************************************************************)
(* Proofs about Tasks: for any finite number of task control blocks the    *)
(* tables of the kernel agree about its processes, and a zombie is freed   *)
(* by the one removal from its parent's list.  And, on top of them, about  *)
(* Credentials: for any number of processes and any uids, the capabilities *)
(* are root's, pending signals come from nobody foreign, and root is not   *)
(* regained.                                                               *)
(***************************************************************************)
EXTENDS Credentials, DataFacts, FiniteSetTheorems

(* The provers a leaf is tried with, unless it names one.                   *)
USE SMTT(30), ZenonT(30)

Live(t) == task_status[t] \in {"Ready", "Running"}

(* The queue holds the ready tasks, each once, and current the running one.*)
Scheduled ==
  /\ current # NoTask => task_status[current] = "Running" /\ ~halted
  /\ \A i \in 1 .. Len(ready_queue) : task_status[ready_queue[i]] = "Ready"
  /\ \A i, j \in 1 .. Len(ready_queue) : ready_queue[i] = ready_queue[j] => i = j
  /\ \A t \in Tasks : task_status[t] = "Ready" => \E i \in 1 .. Len(ready_queue) : ready_queue[i] = t
  /\ ~halted => \A t \in Tasks : task_status[t] = "Running" => current = t

(* Every pid handed out belongs to one task, or is recycled, once.         *)
PidsOwned ==
  /\ pid[INITPROC] = IDLE_PID
  /\ \A t \in Tasks : IF Exists(t) THEN pid[t] \in 1 .. pid_current - 1 ELSE pid[t] = 0
  /\ \A t, u \in Tasks : Exists(t) /\ pid[t] = pid[u] => t = u
  /\ \A i \in 1 .. Len(recycled) : recycled[i] \in 1 .. pid_current - 1
  /\ \A i \in 1 .. Len(recycled) : \A t \in Tasks : pid[t] # recycled[i]
  /\ \A i, j \in 1 .. Len(recycled) : recycled[i] = recycled[j] => i = j
  /\ \A p \in 1 .. pid_current - 1 :
       (\E t \in Tasks : pid[t] = p) \/ (\E i \in 1 .. Len(recycled) : recycled[i] = p)

(* PID2TCB has the tasks that have not exited, under their pids.           *)
Findable ==
  /\ \A p \in DOMAIN PID2TCB : Live(PID2TCB[p]) /\ pid[PID2TCB[p]] = p
  /\ \A t \in Tasks : Live(t) => pid[t] \in DOMAIN PID2TCB /\ PID2TCB[pid[t]] = t

(* A list has no task twice; what is in it exists and has its owner, who   *)
(* has not exited, as parent; and every task but INITPROC is in a list.    *)
Families ==
  /\ Live(INITPROC)
  /\ \A q \in Tasks : \A i, j \in 1 .. Len(children[q]) : children[q][i] = children[q][j] => i = j
  /\ \A q \in Tasks : \A i \in 1 .. Len(children[q]) :
       /\ children[q][i] # INITPROC /\ Exists(children[q][i])
       /\ parent[children[q][i]] = q /\ Live(q)
  /\ \A t \in Tasks \ {INITPROC} : Exists(t) =>
       /\ parent[t] \in Tasks
       /\ \E i \in 1 .. Len(children[parent[t]]) : children[parent[t]][i] = t

(***************************************************************************)
(* The inductive invariant: TasksInv, with what it says about numbers of   *)
(* occurrences said about the occurrences themselves.                      *)
(***************************************************************************)
TasksIInv == TaskTypeOK /\ Scheduled /\ PidsOwned /\ Findable /\ Families
-----------------------------------------------------------------------------
LEMMA TaskBound == Cardinality(Tasks) \in Nat \ {0}
<1>1. Cardinality(Tasks) \in Nat
  BY TasksAssumption, FS_CardinalityType
<1>2. Cardinality(Tasks) # 0
  BY TasksAssumption, FS_EmptySet
<1> QED
  BY <1>1, <1>2

(* The three parts of Families, for one list or one task.                  *)
LEMMA Once ==
  ASSUME Families, NEW q \in Tasks
  PROVE  \A i, j \in 1 .. Len(children[q]) : children[q][i] = children[q][j] => i = j
BY DEF Families

LEMMA Listed ==
  ASSUME Families, NEW q \in Tasks, NEW i \in 1 .. Len(children[q])
  PROVE  /\ children[q][i] # INITPROC /\ Exists(children[q][i])
         /\ parent[children[q][i]] = q /\ Live(q)
BY Zenon DEF Families

LEMMA HasParent ==
  ASSUME Families, NEW t \in Tasks \ {INITPROC}, Exists(t)
  PROVE  /\ parent[t] \in Tasks
         /\ \E i \in 1 .. Len(children[parent[t]]) : children[parent[t]][i] = t
BY Zenon DEF Families

LEMMA InitTasks == Init => TasksIInv
<1> SUFFICES ASSUME Init PROVE TasksIInv
  OBVIOUS
<1> USE TasksAssumption, TaskBound DEF Init, IDLE_PID
<1>1. TaskTypeOK
  <2>1. 1 \in Pids /\ 2 \in 2 .. Cardinality(Tasks) + 1
    BY DEF Pids
  <2>2. recycled \in Seq(Pids) /\ ready_queue \in Seq(Tasks) /\ children \in [Tasks -> Seq(Tasks)]
    OBVIOUS
  <2>3. DOMAIN PID2TCB \subseteq Pids /\ \A p \in DOMAIN PID2TCB : PID2TCB[p] \in Tasks
    BY <2>1
  <2>4. pid \in [Tasks -> {0} \union Pids] /\ pid_current \in 2 .. Cardinality(Tasks) + 1
    BY <2>1
  <2>5. task_status \in [Tasks -> {"Free", "Ready", "Running", "Zombie"}]
    OBVIOUS
  <2>6. parent \in [Tasks -> Tasks \union {NoTask}] /\ current \in Tasks \union {NoTask}
    OBVIOUS
  <2> QED
    BY <2>2, <2>3, <2>4, <2>5, <2>6, Zenon DEF TaskTypeOK
<1>2. Scheduled
  BY DEF Scheduled
<1>3. PidsOwned
  BY DEF PidsOwned, Exists
<1>4. Findable
  BY DEF Findable, Live
<1>5. Families
  BY DEF Families, Live, Exists
<1> QED
  BY <1>1, <1>2, <1>3, <1>4, <1>5 DEF TasksIInv

-----------------------------------------------------------------------------
(* A step of the scheduler allocates no pid and moves no child.            *)
LEMMA SamePids ==
  ASSUME PidsOwned, UNCHANGED <<pid_current, recycled, pid>>,
         \A t \in Tasks : Exists(t)' <=> Exists(t)
  PROVE  PidsOwned'
BY DEF PidsOwned, Exists

LEMMA SameFamilies ==
  ASSUME TaskTypeOK, Families, UNCHANGED <<parent, children>>,
         \A t \in Tasks : Exists(t) => Exists(t)',
         \A t \in Tasks : Exists(t)' => Exists(t),
         \A t \in Tasks : Live(t) => Live(t)'
  PROVE  Families'
<1>1. \A q \in Tasks : \A i \in 1 .. Len(children[q]) : children[q][i] \in Tasks
  BY DEF TaskTypeOK
<1>2. Live(INITPROC)'
  BY TasksAssumption DEF Families
<1> QED
  BY <1>1, <1>2 DEF Families

LEMMA SameFindable ==
  ASSUME TaskTypeOK, Findable, UNCHANGED pid,
         DOMAIN PID2TCB' = DOMAIN PID2TCB, \A p \in DOMAIN PID2TCB : PID2TCB'[p] = PID2TCB[p],
         \A t \in Tasks : Live(t)' <=> Live(t)
  PROVE  Findable'
<1>1. \A p \in DOMAIN PID2TCB : PID2TCB[p] \in Tasks
  BY DEF TaskTypeOK
<1> QED
  BY <1>1 DEF Findable

(* The queue with a task behind it that was not in it.                     *)
LEMMA Queued ==
  ASSUME TaskTypeOK, Scheduled, NEW t \in Tasks, task_status[t] # "Ready",
         ready_queue' = Append(ready_queue, t),
         task_status' = [task_status EXCEPT ![t] = "Ready"]
  PROVE  /\ ready_queue' \in Seq(Tasks)
         /\ \A i \in 1 .. Len(ready_queue') : task_status'[ready_queue'[i]] = "Ready"
         /\ \A i, j \in 1 .. Len(ready_queue') : ready_queue'[i] = ready_queue'[j] => i = j
         /\ \A u \in Tasks : task_status'[u] = "Ready"
              => \E i \in 1 .. Len(ready_queue') : ready_queue'[i] = u
<1>1. /\ ready_queue' \in Seq(Tasks) /\ Len(ready_queue') = Len(ready_queue) + 1
      /\ ready_queue'[Len(ready_queue) + 1] = t
      /\ \A i \in 1 .. Len(ready_queue) : ready_queue'[i] = ready_queue[i]
      /\ Len(ready_queue) \in Nat /\ \A i \in 1 .. Len(ready_queue) : ready_queue[i] \in Tasks
  BY AppendFacts DEF TaskTypeOK
<1>2. \A u \in Tasks : task_status'[u] = IF u = t THEN "Ready" ELSE task_status[u]
  BY DEF TaskTypeOK
<1>3. \A i \in 1 .. Len(ready_queue) : ready_queue[i] # t
  BY DEF Scheduled
<1>4. ASSUME NEW i \in 1 .. Len(ready_queue') PROVE task_status'[ready_queue'[i]] = "Ready"
  <2>1. CASE i \in 1 .. Len(ready_queue)
    BY <1>1, <1>2, <2>1 DEF Scheduled
  <2>2. CASE i = Len(ready_queue) + 1
    BY <1>1, <1>2, <2>2
  <2> QED
    BY <1>1, <2>1, <2>2
<1>5. \A i, j \in 1 .. Len(ready_queue') : ready_queue'[i] = ready_queue'[j] => i = j
  BY <1>1, <1>3 DEF Scheduled
<1>6. ASSUME NEW u \in Tasks, task_status'[u] = "Ready"
      PROVE  \E i \in 1 .. Len(ready_queue') : ready_queue'[i] = u
  <2>1. CASE u = t
    <3>1. Len(ready_queue) + 1 \in 1 .. Len(ready_queue')
      BY <1>1
    <3> QED
      BY <1>1, <2>1, <3>1
  <2>2. CASE u # t
    <3>1. PICK i \in 1 .. Len(ready_queue) : ready_queue[i] = u
      BY <1>2, <1>6, <2>2 DEF Scheduled
    <3> QED
      BY <1>1, <3>1
  <2> QED
    BY <2>1, <2>2
<1> QED
  BY <1>1, <1>4, <1>5, <1>6

LEMMA RunStep == TasksIInv /\ run_tasks => TasksIInv'
<1> SUFFICES ASSUME TasksIInv, run_tasks PROVE TasksIInv'
  OBVIOUS
<1> USE DEF TasksIInv
<1>1. /\ current' = ready_queue[1] /\ 1 \in 1 .. Len(ready_queue) /\ Len(ready_queue) \in Nat
      /\ ready_queue' \in Seq(Tasks) /\ Len(ready_queue') = Len(ready_queue) - 1
      /\ \A i \in 1 .. Len(ready_queue') : ready_queue'[i] = ready_queue[i + 1]
      /\ \A i \in 1 .. Len(ready_queue) : ready_queue[i] \in Tasks
  BY DEF TaskTypeOK, run_tasks
<1>2. /\ current' \in Tasks /\ task_status[current'] = "Ready"
      /\ current = NoTask /\ halted = FALSE
      /\ task_status' = [task_status EXCEPT ![current'] = "Running"]
      /\ UNCHANGED <<pid_current, recycled, pid, parent, children, PID2TCB, halted>>
  BY <1>1 DEF run_tasks, Scheduled, TaskTypeOK
<1>3. \A t \in Tasks : task_status'[t] = IF t = current' THEN "Running" ELSE task_status[t]
  BY <1>2 DEF TaskTypeOK
<1>4. TaskTypeOK'
  BY <1>1, <1>2 DEF TaskTypeOK
<1>5. Scheduled'
  <2>1. ASSUME NEW i \in 1 .. Len(ready_queue') PROVE task_status'[ready_queue'[i]] = "Ready"
    <3>1. i + 1 \in 1 .. Len(ready_queue) /\ i + 1 # 1 /\ ready_queue'[i] = ready_queue[i + 1]
      BY <1>1
    <3> QED
      BY <1>1, <1>3, <3>1 DEF Scheduled
  <2>2. ASSUME NEW i \in 1 .. Len(ready_queue'), NEW j \in 1 .. Len(ready_queue'),
               ready_queue'[i] = ready_queue'[j]
        PROVE  i = j
    <3>1. /\ i + 1 \in 1 .. Len(ready_queue) /\ j + 1 \in 1 .. Len(ready_queue)
          /\ ready_queue[i + 1] = ready_queue[j + 1]
      BY <1>1, <2>2
    <3>2. i + 1 = j + 1
      BY <3>1 DEF Scheduled
    <3> QED
      BY <3>2
  <2>3. ASSUME NEW t \in Tasks, task_status'[t] = "Ready"
        PROVE  \E i \in 1 .. Len(ready_queue') : ready_queue'[i] = t
    <3>1. PICK i \in 1 .. Len(ready_queue) : ready_queue[i] = t
      BY <1>3, <2>3 DEF Scheduled
    <3>2. i # 1
      BY <1>1, <1>3, <2>3, <3>1
    <3>3. i - 1 \in 1 .. Len(ready_queue') /\ (i - 1) + 1 = i
      BY <1>1, <3>2
    <3> QED
      BY <1>1, <3>1, <3>3, Zenon
  <2>4. \A t \in Tasks : task_status'[t] = "Running" => current' = t
    BY <1>2, <1>3, TasksAssumption DEF Scheduled
  <2>5. task_status'[current'] = "Running" /\ ~halted'
    BY <1>2, <1>3
  <2> QED
    BY <2>1, <2>2, <2>3, <2>4, <2>5 DEF Scheduled
<1>6. \A t \in Tasks : (Exists(t)' <=> Exists(t)) /\ (Live(t)' <=> Live(t))
  BY <1>2, <1>3 DEF Exists, Live
<1>7. PidsOwned'
  BY <1>2, <1>6, SamePids
<1>8. Findable' /\ Families'
  BY <1>2, <1>6, SameFindable, SameFamilies
<1> QED
  BY <1>4, <1>5, <1>7, <1>8

LEMMA SuspendStep == TasksIInv /\ suspend_current_and_run_next => TasksIInv'
<1> SUFFICES ASSUME TasksIInv, suspend_current_and_run_next PROVE TasksIInv'
  OBVIOUS
<1> USE DEF TasksIInv
<1>1. /\ current \in Tasks /\ current' = NoTask
      /\ task_status' = [task_status EXCEPT ![current] = "Ready"]
      /\ ready_queue' = Append(ready_queue, current)
      /\ PID2TCB' = WithPid(pid[current], current)
      /\ UNCHANGED <<pid_current, recycled, pid, parent, children, halted>>
  BY DEF suspend_current_and_run_next, TaskTypeOK
<1>2. task_status[current] = "Running" /\ ~halted
  BY <1>1, TasksAssumption DEF Scheduled
<1>3. \A t \in Tasks : task_status'[t] = IF t = current THEN "Ready" ELSE task_status[t]
  BY <1>1 DEF TaskTypeOK
<1>4. Scheduled' /\ ready_queue' \in Seq(Tasks)
  <2>1. /\ ready_queue' \in Seq(Tasks)
        /\ \A i \in 1 .. Len(ready_queue') : task_status'[ready_queue'[i]] = "Ready"
        /\ \A i, j \in 1 .. Len(ready_queue') : ready_queue'[i] = ready_queue'[j] => i = j
        /\ \A u \in Tasks : task_status'[u] = "Ready"
             => \E i \in 1 .. Len(ready_queue') : ready_queue'[i] = u
    BY <1>1, <1>2, Queued, Zenon
  <2>2. \A t \in Tasks : task_status'[t] # "Running"
    BY <1>2, <1>3 DEF Scheduled
  <2> QED
    BY <1>1, <2>1, <2>2 DEF Scheduled
<1>5. \A t \in Tasks : (Exists(t)' <=> Exists(t)) /\ (Live(t)' <=> Live(t))
  BY <1>2, <1>3 DEF Exists, Live
<1>6. DOMAIN PID2TCB' = DOMAIN PID2TCB /\ \A p \in DOMAIN PID2TCB : PID2TCB'[p] = PID2TCB[p]
  BY <1>1, <1>2, Zenon DEF Findable, Live, WithPid
<1>7. TaskTypeOK'
  BY <1>1, <1>4, <1>6 DEF TaskTypeOK
<1>8. PidsOwned' /\ Findable' /\ Families'
  BY <1>1, <1>5, <1>6, SamePids, SameFindable, SameFamilies
<1> QED
  BY <1>4, <1>7, <1>8

LEMMA ShutdownStep == TasksIInv /\ Shutdown => TasksIInv'
<1> SUFFICES ASSUME TasksIInv, Shutdown PROVE TasksIInv'
  OBVIOUS
<1> USE DEF TasksIInv
<1>1. /\ current' = NoTask /\ halted' = TRUE
      /\ UNCHANGED <<pid_current, recycled, pid, task_status, parent, children,
                     PID2TCB, ready_queue>>
  BY DEF Shutdown
<1>2. TaskTypeOK' /\ Scheduled'
  BY <1>1 DEF TaskTypeOK, Scheduled
<1>3. \A t \in Tasks : (Exists(t)' <=> Exists(t)) /\ (Live(t)' <=> Live(t))
  BY <1>1 DEF Exists, Live
<1>4. PidsOwned' /\ Findable' /\ Families'
  BY <1>1, <1>3, SamePids, SameFindable, SameFamilies
<1> QED
  BY <1>2, <1>4

-----------------------------------------------------------------------------
(***************************************************************************)
(* fork.                                                                   *)
(***************************************************************************)
(* With nothing recycled every pid handed out has its task, which is not   *)
(* the new one: there are no more of them than tasks.                      *)
LEMMA PidsFit ==
  ASSUME TaskTypeOK, PidsOwned, recycled = << >>, NEW child \in Tasks, ~Exists(child)
  PROVE  pid_current <= Cardinality(Tasks)
<1> DEFINE n == pid_current - 1
           others == Tasks \ {child}
           f == [p \in 1 .. n |-> CHOOSE t \in Tasks : pid[t] = p]
<1>1. n \in Nat /\ pid_current = n + 1
  BY TaskBound DEF TaskTypeOK
<1>2. \A p \in 1 .. n : \E t \in Tasks : pid[t] = p
  BY DEF PidsOwned
<1>3. \A p \in 1 .. n : f[p] \in Tasks /\ pid[f[p]] = p
  BY <1>2
<1>4. pid[child] = 0
  BY DEF PidsOwned
<1> HIDE DEF n
<1>5. f \in [1 .. n -> others] /\ \A p, q \in 1 .. n : f[p] = f[q] => p = q
  BY <1>1, <1>3, <1>4
<1> HIDE DEF f
<1>6. f \in Injection(1 .. n, others)
  BY <1>5 DEF Injection, IsInjective
<1>7. IsFiniteSet(others) /\ Cardinality(others) = Cardinality(Tasks) - 1
  BY TasksAssumption, FS_RemoveElement
<1>8. Cardinality(1 .. n) <= Cardinality(others)
  BY <1>6, <1>7, FS_Injection
<1>9. Cardinality(1 .. n) = n
  BY <1>1, FS_Interval
<1> QED
  BY <1>1, <1>7, <1>8, <1>9, TaskBound

(* What pid_alloc gives to a task that has no pid.                         *)
LEMMA PidAllocated ==
  ASSUME TaskTypeOK, PidsOwned, NEW child \in Tasks, ~Exists(child), pid_alloc(child),
         \A t \in Tasks : Exists(t)' <=> t = child \/ Exists(t)
  PROVE  /\ PidsOwned'
         /\ pid_current' \in 2 .. Cardinality(Tasks) + 1
         /\ recycled' \in Seq(Pids)
         /\ pid' \in [Tasks -> {0} \union Pids] /\ pid'[child] \in Pids
         /\ \A t \in Tasks : pid[t] # pid'[child]
         /\ \A t \in Tasks \ {child} : pid'[t] = pid[t]
<1>0. /\ pid[child] = 0 /\ Exists(INITPROC) /\ INITPROC # child
      /\ pid_current \in 2 .. Cardinality(Tasks) + 1 /\ pid_current \in Nat
  <2>1. pid[child] = 0 /\ pid[INITPROC] = 1
    BY DEF PidsOwned, IDLE_PID
  <2> QED
    BY <2>1, TasksAssumption, TaskBound DEF PidsOwned, TaskTypeOK
<1>1. CASE recycled # << >>
  <2> DEFINE n == Len(recycled)
             p == recycled[n]
  <2>1. /\ n \in Nat \ {0} /\ recycled' \in Seq(Pids) /\ Len(recycled') = n - 1
        /\ \A i \in 1 .. n - 1 : recycled'[i] = recycled[i]
        /\ p \in Pids
    <3>1. recycled \in Seq(Pids) /\ recycled' = SubSeq(recycled, 1, Len(recycled) - 1)
      BY <1>1 DEF pid_alloc, TaskTypeOK
    <3>2. LET s == SubSeq(recycled, 1, Len(recycled) - 1)
          IN  /\ Len(recycled) \in Nat \ {0}
              /\ s \in Seq(Pids) /\ Len(s) = Len(recycled) - 1
              /\ \A i \in 1 .. Len(recycled) - 1 : s[i] = recycled[i]
              /\ recycled[Len(recycled)] \in Pids
      BY <1>1, <3>1, FrontFacts, Zenon
    <3> QED
      BY <3>1, <3>2, Zenon
  <2>2. pid' = [pid EXCEPT ![child] = p] /\ pid_current' = pid_current
    BY <1>1 DEF pid_alloc
  <2>3. \A t \in Tasks : pid'[t] = IF t = child THEN p ELSE pid[t]
    BY <2>2 DEF TaskTypeOK
  <2>4. n \in 1 .. Len(recycled)
    BY <2>1
  <2>5. p \in 1 .. pid_current - 1 /\ \A t \in Tasks : pid[t] # p
    BY <2>4 DEF PidsOwned
  <2>6. \A i \in 1 .. n - 1 : i \in 1 .. Len(recycled) /\ i # n
    BY <2>1
  <2>7. \A i \in 1 .. n - 1 : recycled[i] # p
    BY <2>4, <2>6 DEF PidsOwned
  <2> HIDE DEF n, p
  <2>8. PidsOwned'
    <3>1. pid'[INITPROC] = IDLE_PID
      BY <1>0, <2>3, TasksAssumption DEF PidsOwned
    <3>2. \A t \in Tasks : IF Exists(t)' THEN pid'[t] \in 1 .. pid_current' - 1 ELSE pid'[t] = 0
      BY <2>2, <2>3, <2>5 DEF PidsOwned
    <3>3. \A t, u \in Tasks : Exists(t)' /\ pid'[t] = pid'[u] => t = u
      BY <2>3, <2>5 DEF PidsOwned
    <3>4. \A i \in 1 .. Len(recycled') : recycled'[i] \in 1 .. pid_current' - 1
      BY <2>1, <2>2, <2>6 DEF PidsOwned
    <3>5. \A i \in 1 .. Len(recycled') : \A t \in Tasks : pid'[t] # recycled'[i]
      BY <2>1, <2>3, <2>6, <2>7 DEF PidsOwned
    <3>6. \A i, j \in 1 .. Len(recycled') : recycled'[i] = recycled'[j] => i = j
      BY <2>1, <2>6 DEF PidsOwned
    <3>7. ASSUME NEW q \in 1 .. pid_current' - 1
          PROVE  (\E t \in Tasks : pid'[t] = q) \/ (\E i \in 1 .. Len(recycled') : recycled'[i] = q)
      <4>1. CASE q = p
        BY <2>3, <4>1
      <4>2. ASSUME q # p, NEW t \in Tasks, pid[t] = q PROVE pid'[t] = q
        BY <1>0, <2>3, <2>2, <3>7, <4>2
      <4>3. ASSUME q # p, NEW i \in 1 .. Len(recycled), recycled[i] = q
            PROVE  i \in 1 .. Len(recycled') /\ recycled'[i] = q
        <5>1. i # n
          BY <4>3 DEF p
        <5> QED
          BY <2>1, <4>3, <5>1 DEF n
      <4>4. (\E t \in Tasks : pid[t] = q) \/ (\E i \in 1 .. Len(recycled) : recycled[i] = q)
        BY <2>2, <3>7 DEF PidsOwned
      <4> QED
        BY <4>1, <4>2, <4>3, <4>4
    <3> QED
      BY <3>1, <3>2, <3>3, <3>4, <3>5, <3>6, <3>7 DEF PidsOwned
  <2>9. pid' \in [Tasks -> {0} \union Pids]
    BY <2>1, <2>2 DEF TaskTypeOK
  <2> QED
    BY <1>0, <2>1, <2>2, <2>3, <2>5, <2>8, <2>9
<1>2. CASE recycled = << >>
  <2>1. /\ pid' = [pid EXCEPT ![child] = pid_current]
        /\ pid_current' = pid_current + 1 /\ recycled' = recycled /\ Len(recycled) = 0
    BY <1>2 DEF pid_alloc
  <2>2. \A t \in Tasks : pid'[t] = IF t = child THEN pid_current ELSE pid[t]
    BY <2>1 DEF TaskTypeOK
  <2>3. pid_current <= Cardinality(Tasks)
    BY <1>2, PidsFit
  <2>4. /\ pid_current \in Pids /\ pid_current' \in 2 .. Cardinality(Tasks) + 1
        /\ pid_current' - 1 = pid_current
    BY <1>0, <2>1, <2>3, TaskBound DEF Pids
  <2>5. \A t \in Tasks : pid[t] \in Nat /\ pid[t] < pid_current
    <3> TAKE t \in Tasks
    <3>1. CASE Exists(t)
      BY <1>0, <3>1 DEF PidsOwned
    <3>2. CASE ~Exists(t)
      BY <1>0, <3>2 DEF PidsOwned
    <3> QED
      BY <3>1, <3>2
  <2>6. PidsOwned'
    <3>1. pid'[INITPROC] = IDLE_PID
      BY <1>0, <2>2, TasksAssumption DEF PidsOwned
    <3>2. \A t \in Tasks : IF Exists(t)' THEN pid'[t] \in 1 .. pid_current' - 1 ELSE pid'[t] = 0
      <4> TAKE t \in Tasks
      <4>1. CASE t = child
        BY <1>0, <2>1, <2>2, <4>1
      <4>2. CASE t # child /\ Exists(t)
        <5>1. pid[t] \in 1 .. pid_current - 1
          BY <4>2 DEF PidsOwned
        <5> QED
          BY <1>0, <2>1, <2>2, <4>2, <5>1
      <4>3. CASE t # child /\ ~Exists(t)
        <5>1. pid[t] = 0
          BY <4>3 DEF PidsOwned
        <5> QED
          BY <2>2, <4>3, <5>1
      <4> QED
        BY <4>1, <4>2, <4>3
    <3>3. \A t, u \in Tasks : Exists(t)' /\ pid'[t] = pid'[u] => t = u
      BY <1>0, <2>2, <2>5 DEF PidsOwned
    <3>4. ASSUME NEW q \in 1 .. pid_current' - 1 PROVE \E t \in Tasks : pid'[t] = q
      <4>1. CASE q = pid_current
        BY <2>2, <4>1
      <4>2. CASE q # pid_current
        <5>1. q \in 1 .. pid_current - 1
          BY <1>0, <2>1, <3>4, <4>2
        <5>2. PICK t \in Tasks : pid[t] = q
          BY <2>1, <5>1 DEF PidsOwned
        <5>3. t # child
          BY <1>0, <5>1, <5>2
        <5> QED
          BY <2>2, <5>2, <5>3
      <4> QED
        BY <4>1, <4>2
    <3> QED
      BY <2>1, <3>1, <3>2, <3>3, <3>4 DEF PidsOwned
  <2>7. pid' \in [Tasks -> {0} \union Pids] /\ recycled' \in Seq(Pids)
    BY <2>1, <2>4 DEF TaskTypeOK
  <2>8. \A t \in Tasks : pid[t] # pid'[child]
    BY <1>0, <2>2, <2>5
  <2> QED
    BY <2>2, <2>4, <2>6, <2>7, <2>8
<1> QED
  BY <1>1, <1>2

LEMMA ForkStep ==
  ASSUME TasksIInv, NEW child \in Tasks, sys_fork(child)
  PROVE  TasksIInv'
<1> USE DEF TasksIInv
<1>1. /\ current \in Tasks /\ current' = current /\ task_status[child] = "Free"
      /\ task_status' = [task_status EXCEPT ![child] = "Ready"]
      /\ parent' = [parent EXCEPT ![child] = current]
      /\ children' = [children EXCEPT ![current] = Append(children[current], child)]
      /\ PID2TCB' = WithPid(pid'[child], child)
      /\ ready_queue' = Append(ready_queue, child)
      /\ halted' = halted /\ pid_alloc(child)
  BY DEF sys_fork, TaskTypeOK
<1>2. /\ task_status[current] = "Running" /\ ~halted /\ current # child
      /\ ~Exists(child) /\ ~Live(child)
  BY <1>1, TasksAssumption DEF Scheduled, Exists, Live
<1>3. \A t \in Tasks : task_status'[t] = IF t = child THEN "Ready" ELSE task_status[t]
  BY <1>1 DEF TaskTypeOK
<1>4. /\ \A t \in Tasks : Exists(t)' <=> t = child \/ Exists(t)
      /\ \A t \in Tasks : Live(t)' <=> t = child \/ Live(t)
  BY <1>3 DEF Exists, Live
<1>5. /\ PidsOwned'
      /\ pid_current' \in 2 .. Cardinality(Tasks) + 1
      /\ recycled' \in Seq(Pids)
      /\ pid' \in [Tasks -> {0} \union Pids] /\ pid'[child] \in Pids
      /\ \A t \in Tasks : pid[t] # pid'[child]
      /\ \A t \in Tasks \ {child} : pid'[t] = pid[t]
  BY <1>1, <1>2, <1>4, PidAllocated
<1>6. Scheduled' /\ ready_queue' \in Seq(Tasks)
  <2>1. /\ ready_queue' \in Seq(Tasks)
        /\ \A i \in 1 .. Len(ready_queue') : task_status'[ready_queue'[i]] = "Ready"
        /\ \A i, j \in 1 .. Len(ready_queue') : ready_queue'[i] = ready_queue'[j] => i = j
        /\ \A u \in Tasks : task_status'[u] = "Ready"
             => \E i \in 1 .. Len(ready_queue') : ready_queue'[i] = u
    BY <1>1, Queued, Zenon
  <2>2. /\ task_status'[current'] = "Running" /\ ~halted'
        /\ \A t \in Tasks : task_status'[t] = "Running" => current' = t
    BY <1>1, <1>2, <1>3 DEF Scheduled
  <2> QED
    BY <2>1, <2>2 DEF Scheduled
<1>7. /\ DOMAIN PID2TCB' = DOMAIN PID2TCB \union {pid'[child]}
      /\ PID2TCB'[pid'[child]] = child
      /\ \A p \in DOMAIN PID2TCB : p # pid'[child] /\ PID2TCB'[p] = PID2TCB[p]
      /\ \A p \in DOMAIN PID2TCB : PID2TCB[p] \in Tasks \ {child}
  <2>1. \A p \in DOMAIN PID2TCB : PID2TCB[p] \in Tasks
    BY DEF TaskTypeOK
  <2>2. \A p \in DOMAIN PID2TCB : p # pid'[child] /\ PID2TCB[p] # child
    BY <1>2, <1>5, <2>1 DEF Findable
  <2> QED
    BY <1>1, <2>1, <2>2 DEF WithPid
<1>8. Findable'
  <2>1. ASSUME NEW p \in DOMAIN PID2TCB' PROVE Live(PID2TCB[p])' /\ pid'[PID2TCB'[p]] = p
    <3>1. CASE p = pid'[child]
      BY <1>4, <1>7, <3>1
    <3>2. CASE p \in DOMAIN PID2TCB
      <4>1. Live(PID2TCB[p]) /\ pid[PID2TCB[p]] = p /\ PID2TCB[p] \in Tasks \ {child}
        BY <1>7, <3>2 DEF Findable
      <4>2. PID2TCB'[p] = PID2TCB[p] /\ task_status'[PID2TCB[p]] = task_status[PID2TCB[p]]
        BY <1>3, <1>7, <3>2
      <4> QED
        BY <1>5, <4>1, <4>2 DEF Live
    <3> QED
      BY <1>7, <3>1, <3>2
  <2>2. ASSUME NEW t \in Tasks, Live(t)'
        PROVE  pid'[t] \in DOMAIN PID2TCB' /\ PID2TCB'[pid'[t]] = t
    BY <1>4, <1>5, <1>7, <2>2 DEF Findable
  <2> QED
    BY <2>1, <2>2 DEF Findable
<1>9. /\ children' \in [Tasks -> Seq(Tasks)]
      /\ \A q \in Tasks \ {current} : children'[q] = children[q]
      /\ Len(children'[current]) = Len(children[current]) + 1
      /\ children'[current][Len(children[current]) + 1] = child
      /\ \A i \in 1 .. Len(children[current]) : children'[current][i] = children[current][i]
      /\ \A q \in Tasks : Len(children[q]) \in Nat
      /\ \A q \in Tasks : \A i \in 1 .. Len(children[q]) : children[q][i] \in Tasks
  <2>1. children[current] \in Seq(Tasks)
    BY <1>1 DEF TaskTypeOK
  <2> DEFINE s == Append(children[current], child)
  <2>2. /\ s \in Seq(Tasks) /\ Len(s) = Len(children[current]) + 1
        /\ s[Len(children[current]) + 1] = child
        /\ \A i \in 1 .. Len(children[current]) : s[i] = children[current][i]
    BY <2>1, AppendFacts
  <2> HIDE DEF s
  <2>3. children' = [children EXCEPT ![current] = s]
    BY <1>1 DEF s
  <2>4. children'[current] = s
    BY <1>1, <2>3 DEF TaskTypeOK
  <2> QED
    BY <1>1, <2>2, <2>3, <2>4 DEF TaskTypeOK
<1>10. Families'
  <2>0. /\ \A t \in Tasks : parent'[t] = IF t = child THEN current ELSE parent[t]
        /\ child # INITPROC /\ Live(INITPROC)'
    <3>1. \A t \in Tasks : parent'[t] = IF t = child THEN current ELSE parent[t]
      BY <1>1 DEF TaskTypeOK
    <3>2. Live(INITPROC)
      BY DEF Families
    <3>3. child # INITPROC
      BY <1>2, <3>2 DEF Live, Exists
    <3> QED
      BY <1>4, <3>1, <3>2, <3>3, TasksAssumption
  <2>1. \A q \in Tasks : \A i \in 1 .. Len(children[q]) : children[q][i] # child
    BY <1>2 DEF Families
  <2>2. ASSUME NEW q \in Tasks, NEW i \in 1 .. Len(children'[q])
        PROVE  \/ q = current /\ i = Len(children[current]) + 1 /\ children'[q][i] = child
               \/ i \in 1 .. Len(children[q]) /\ children'[q][i] = children[q][i]
    BY <1>1, <1>9
  <2>3. ASSUME NEW q \in Tasks, NEW i \in 1 .. Len(children'[q]), NEW j \in 1 .. Len(children'[q]),
               children'[q][i] = children'[q][j]
        PROVE  i = j
    <3>1. \/ q = current /\ i = Len(children[current]) + 1 /\ children'[q][i] = child
          \/ i \in 1 .. Len(children[q]) /\ children'[q][i] = children[q][i]
      BY <2>2
    <3>2. \/ q = current /\ j = Len(children[current]) + 1 /\ children'[q][j] = child
          \/ j \in 1 .. Len(children[q]) /\ children'[q][j] = children[q][j]
      BY <2>2
    <3> QED
      BY <2>1, <2>3, <3>1, <3>2 DEF Families
  <2>4. ASSUME NEW q \in Tasks, NEW i \in 1 .. Len(children'[q])
        PROVE  /\ children'[q][i] # INITPROC /\ Exists(children[q][i])'
               /\ parent'[children'[q][i]] = q /\ Live(q)'
    <3>1. CASE q = current /\ i = Len(children[current]) + 1 /\ children'[q][i] = child
      BY <1>1, <1>2, <1>3, <2>0, <3>1 DEF Live, Exists
    <3>2. CASE i \in 1 .. Len(children[q]) /\ children'[q][i] = children[q][i]
      <4>1. /\ children[q][i] # INITPROC /\ Exists(children[q][i])
            /\ parent[children[q][i]] = q /\ Live(q)
        BY <3>2 DEF Families
      <4>2. children[q][i] \in Tasks /\ children[q][i] # child
        BY <1>9, <2>1, <3>2
      <4>3. task_status'[children[q][i]] = task_status[children[q][i]]
        BY <1>3, <4>2
      <4> QED
        BY <1>4, <2>0, <3>2, <4>1, <4>2, <4>3 DEF Exists
    <3> QED
      BY <2>2, <3>1, <3>2
  <2>5. ASSUME NEW t \in Tasks \ {INITPROC}, Exists(t)'
        PROVE  /\ parent'[t] \in Tasks
               /\ \E i \in 1 .. Len(children'[parent'[t]]) : children'[parent'[t]][i] = t
    <3>1. CASE t = child
      <4>1. parent'[t] = current /\ Len(children[current]) + 1 \in 1 .. Len(children'[current])
        BY <1>1, <1>9, <2>0, <3>1
      <4> QED
        BY <1>1, <1>9, <3>1, <4>1
    <3>2. CASE t # child
      <4>1. parent[t] \in Tasks /\ parent'[t] = parent[t]
        BY <1>4, <2>0, <2>5, <3>2 DEF Families
      <4>2. PICK i \in 1 .. Len(children[parent[t]]) : children[parent[t]][i] = t
        BY <1>4, <2>5, <3>2 DEF Families
      <4>3. i \in 1 .. Len(children'[parent[t]]) /\ children'[parent[t]][i] = t
        BY <1>1, <1>9, <4>1, <4>2
      <4> QED
        BY <4>1, <4>3
    <3> QED
      BY <3>1, <3>2
  <2> QED
    BY <2>0, <2>3, <2>4, <2>5 DEF Families
<1>11. TaskTypeOK'
  BY <1>1, <1>5, <1>6, <1>7, <1>9 DEF TaskTypeOK
<1> QED
  BY <1>5, <1>6, <1>8, <1>10, <1>11

-----------------------------------------------------------------------------
(***************************************************************************)
(* exit: the children of the task that exits are in its list only, so the  *)
(* list of INITPROC has none of them twice afterwards.                     *)
(***************************************************************************)
LEMMA ExitStep == TasksIInv /\ exit_current_and_run_next => TasksIInv'
<1> SUFFICES ASSUME TasksIInv, exit_current_and_run_next PROVE TasksIInv'
  OBVIOUS
<1> USE TasksAssumption DEF TasksIInv
<1> DEFINE a == children[INITPROC]
           b == children[current]
<1>1. /\ current \in Tasks /\ pid[current] # IDLE_PID /\ current' = NoTask
      /\ PID2TCB' = WithoutPid(pid[current])
      /\ task_status' = [task_status EXCEPT ![current] = "Zombie"]
      /\ parent' = [t \in Tasks |-> IF t \in Range(b) THEN INITPROC ELSE parent[t]]
      /\ children' = [children EXCEPT ![INITPROC] = a \o b, ![current] = << >>]
      /\ UNCHANGED <<pid_current, recycled, pid, ready_queue, halted>>
  BY DEF exit_current_and_run_next, TaskTypeOK
<1>2. task_status[current] = "Running" /\ ~halted /\ current # INITPROC
  BY <1>1 DEF Scheduled, PidsOwned
<1>3. \A t \in Tasks : task_status'[t] = IF t = current THEN "Zombie" ELSE task_status[t]
  BY <1>1 DEF TaskTypeOK
<1>4. /\ \A t \in Tasks : Exists(t)' <=> Exists(t)
      /\ \A t \in Tasks : Live(t)' <=> Live(t) /\ t # current
  BY <1>2, <1>3 DEF Exists, Live
<1>5. Scheduled'
  <2>1. \A i \in 1 .. Len(ready_queue) : ready_queue[i] \in Tasks /\ ready_queue[i] # current
    BY <1>2 DEF Scheduled, TaskTypeOK
  <2>2. /\ current' = NoTask /\ ready_queue' = ready_queue /\ halted' = halted
        /\ \A t \in Tasks : task_status[t] = "Running" => t = current
    BY <1>1, <1>2 DEF Scheduled
  <2>3. \A t \in Tasks : /\ task_status'[t] = "Ready" <=> task_status[t] = "Ready"
                         /\ task_status'[t] # "Running"
    BY <1>2, <1>3, <2>2
  <2> QED
    BY <2>1, <2>2, <2>3 DEF Scheduled
<1>6. PidsOwned'
  BY <1>1, <1>4, SamePids
<1>7. /\ DOMAIN PID2TCB' = DOMAIN PID2TCB \ {pid[current]}
      /\ \A p \in DOMAIN PID2TCB' : PID2TCB'[p] = PID2TCB[p]
      /\ \A p \in DOMAIN PID2TCB : PID2TCB[p] \in Tasks
  BY <1>1 DEF WithoutPid, TaskTypeOK
<1>8. Findable'
  <2>1. ASSUME NEW p \in DOMAIN PID2TCB' PROVE Live(PID2TCB[p])' /\ pid'[PID2TCB'[p]] = p
    <3>1. /\ p \in DOMAIN PID2TCB /\ p # pid[current] /\ PID2TCB'[p] = PID2TCB[p]
          /\ Live(PID2TCB[p]) /\ pid[PID2TCB[p]] = p /\ PID2TCB[p] \in Tasks
      BY <1>7 DEF Findable
    <3>2. task_status'[PID2TCB[p]] = task_status[PID2TCB[p]]
      BY <1>3, <3>1
    <3> QED
      BY <1>1, <3>1, <3>2 DEF Live
  <2>2. ASSUME NEW t \in Tasks, Live(t)'
        PROVE  pid'[t] \in DOMAIN PID2TCB' /\ PID2TCB'[pid'[t]] = t
    <3>1. Live(t) /\ t # current /\ Exists(t)
      BY <1>4, <2>2 DEF Live, Exists
    <3>2. pid[t] # pid[current]
      BY <1>1, <3>1 DEF PidsOwned
    <3> QED
      BY <1>1, <1>7, <3>1, <3>2 DEF Findable
  <2> QED
    BY <2>1, <2>2 DEF Findable
<1>9. /\ a \in Seq(Tasks) /\ b \in Seq(Tasks) /\ a \o b \in Seq(Tasks)
      /\ Len(a) \in Nat /\ Len(b) \in Nat /\ Len(a \o b) = Len(a) + Len(b)
      /\ \A i \in 1 .. Len(a) : a[i] \in Tasks /\ (a \o b)[i] = a[i]
      /\ \A i \in 1 .. Len(b) : b[i] \in Tasks /\ (a \o b)[Len(a) + i] = b[i]
  <2>1. a \in Seq(Tasks) /\ b \in Seq(Tasks)
    BY <1>1 DEF TaskTypeOK
  <2> HIDE DEF a, b
  <2> QED
    BY <2>1, ConcatFacts
<1>10. /\ children' \in [Tasks -> Seq(Tasks)]
       /\ children'[INITPROC] = a \o b /\ children'[current] = << >>
       /\ \A q \in Tasks \ {INITPROC, current} : children'[q] = children[q]
  <2> DEFINE c == a \o b
  <2>1. c \in Seq(Tasks)
    BY <1>9
  <2>2. children' = [children EXCEPT ![INITPROC] = c, ![current] = << >>]
    BY <1>1
  <2> HIDE DEF c
  <2>3. children \in [Tasks -> Seq(Tasks)] /\ << >> \in Seq(Tasks)
    BY DEF TaskTypeOK
  <2>4. children' \in [Tasks -> Seq(Tasks)]
    BY <2>1, <2>2, <2>3, Zenon
  <2>5. \A q \in Tasks : children'[q] = IF q = current THEN << >>
                                       ELSE IF q = INITPROC THEN c ELSE children[q]
    BY <1>2, <2>2, <2>3
  <2> QED
    BY <1>1, <1>2, <2>4, <2>5, Zenon DEF c
<1>11. /\ \A i \in 1 .. Len(a) : a[i] # INITPROC /\ Exists(a[i]) /\ parent[a[i]] = INITPROC
       /\ \A i \in 1 .. Len(b) : b[i] # INITPROC /\ Exists(b[i]) /\ parent[b[i]] = current
       /\ \A i, j \in 1 .. Len(a) : a[i] = a[j] => i = j
       /\ \A i, j \in 1 .. Len(b) : b[i] = b[j] => i = j
  BY <1>1 DEF Families
<1>12. \A t \in Tasks : parent'[t] = IF \E i \in 1 .. Len(b) : b[i] = t THEN INITPROC ELSE parent[t]
  <2>1. DOMAIN b = 1 .. Len(b)
    BY <1>1 DEF TaskTypeOK
  <2>2. \A t : t \in Range(b) <=> \E i \in 1 .. Len(b) : b[i] = t
    BY <2>1 DEF Range
  <2> QED
    BY <1>1, <2>2
<1> DEFINE c == a \o b
<1> HIDE DEF a, b
<1>13. ASSUME NEW i \in 1 .. Len(c)
       PROVE  \/ i \in 1 .. Len(a) /\ c[i] = a[i]
              \/ i - Len(a) \in 1 .. Len(b) /\ c[i] = b[i - Len(a)]
  <2>1. CASE i <= Len(a)
    BY <1>9, <2>1
  <2>2. CASE ~(i <= Len(a))
    <3>1. i - Len(a) \in 1 .. Len(b) /\ Len(a) + (i - Len(a)) = i
      BY <1>9, <2>2
    <3> QED
      BY <1>9, <3>1
  <2> QED
    BY <2>1, <2>2
<1> HIDE DEF c
<1>14. Families'
  <2>1. Live(INITPROC)'
    BY <1>2, <1>4 DEF Families
  <2>2. ASSUME NEW q \in Tasks, NEW i \in 1 .. Len(children'[q]), NEW j \in 1 .. Len(children'[q]),
               children'[q][i] = children'[q][j]
        PROVE  i = j
    <3>1. CASE q = INITPROC
      <4>0. children'[q] = c /\ Len(a) \in Nat /\ i \in Int /\ j \in Int
        <5>1. children'[q] = c
          BY <1>10, <3>1 DEF c
        <5>2. Len(a) \in Nat
          BY <1>9
        <5> QED
          BY <5>1, <5>2
      <4>1. \/ i \in 1 .. Len(a) /\ c[i] = a[i]
            \/ i - Len(a) \in 1 .. Len(b) /\ c[i] = b[i - Len(a)]
        BY <1>13, <4>0
      <4>2. \/ j \in 1 .. Len(a) /\ c[j] = a[j]
            \/ j - Len(a) \in 1 .. Len(b) /\ c[j] = b[j - Len(a)]
        BY <1>13, <4>0
      <4>3. c[i] = c[j]
        BY <2>2, <4>0
      <4>4. CASE i \in 1 .. Len(a) /\ c[i] = a[i] /\ j \in 1 .. Len(a) /\ c[j] = a[j]
        BY <1>11, <4>3, <4>4, Zenon
      <4>5. CASE /\ i - Len(a) \in 1 .. Len(b) /\ c[i] = b[i - Len(a)]
                 /\ j - Len(a) \in 1 .. Len(b) /\ c[j] = b[j - Len(a)]
        <5>1. i - Len(a) = j - Len(a)
          BY <1>11, <4>3, <4>5, Zenon
        <5> QED
          BY <4>0, <5>1
      <4>6. \A m \in 1 .. Len(a), n \in 1 .. Len(b) : a[m] # b[n]
        BY <1>2, <1>11
      <4> QED
        BY <4>1, <4>2, <4>3, <4>4, <4>5, <4>6
    <3>2. CASE q = current
      BY <1>10, <3>2
    <3>3. CASE q # INITPROC /\ q # current
      <4>1. children'[q] = children[q]
        BY <1>10, <3>3
      <4> QED
        BY <2>2, <4>1, Once
    <3> QED
      BY <3>1, <3>2, <3>3
  <2>3. ASSUME NEW q \in Tasks, NEW i \in 1 .. Len(children'[q])
        PROVE  /\ children'[q][i] # INITPROC /\ Exists(children[q][i])'
               /\ parent'[children'[q][i]] = q /\ Live(q)'
    <3>0. \A t \in Tasks : Exists(t) => task_status'[t] # "Free"
      BY <1>4 DEF Exists
    <3>1. CASE q = INITPROC
      <4>0. children'[q] = c
        BY <1>10, <3>1 DEF c
      <4>1. \/ i \in 1 .. Len(a) /\ c[i] = a[i]
            \/ i - Len(a) \in 1 .. Len(b) /\ c[i] = b[i - Len(a)]
        BY <1>13, <4>0
      <4>2. CASE i \in 1 .. Len(a) /\ c[i] = a[i]
        <5>1. /\ a[i] # INITPROC /\ Exists(a[i]) /\ parent[a[i]] = INITPROC /\ a[i] \in Tasks
              /\ \A j \in 1 .. Len(b) : b[j] # a[i]
          BY <1>2, <1>9, <1>11, <4>2
        <5>2. parent'[a[i]] = INITPROC
          BY <1>12, <5>1
        <5> QED
          BY <2>1, <3>0, <3>1, <4>0, <4>2, <5>1, <5>2 DEF Exists
      <4>3. CASE i - Len(a) \in 1 .. Len(b) /\ c[i] = b[i - Len(a)]
        <5> DEFINE n == i - Len(a)
        <5>0. n \in 1 .. Len(b) /\ c[i] = b[n]
          BY <4>3
        <5> HIDE DEF n
        <5>1. b[n] # INITPROC /\ Exists(b[n]) /\ b[n] \in Tasks
          BY <1>9, <1>11, <5>0
        <5>2. parent'[b[n]] = INITPROC
          BY <1>12, <5>0, <5>1
        <5> QED
          BY <2>1, <3>0, <3>1, <4>0, <5>0, <5>1, <5>2 DEF Exists
      <4> QED
        BY <4>1, <4>2, <4>3
    <3>2. CASE q = current
      BY <1>10, <3>2
    <3>3. CASE q # INITPROC /\ q # current
      <4>1. children'[q] = children[q] /\ i \in 1 .. Len(children[q])
        BY <1>10, <3>3
      <4> DEFINE x == children[q][i]
      <4>2. x # INITPROC /\ Exists(x) /\ parent[x] = q /\ Live(q) /\ x \in Tasks
        <5>1. children[q] \in Seq(Tasks)
          BY DEF TasksIInv, TaskTypeOK
        <5>2. x \in Tasks
          BY <4>1, <5>1
        <5>3. x # INITPROC /\ Exists(x) /\ parent[x] = q /\ Live(q)
          BY <4>1, ZenonT(40) DEF TasksIInv, Families
        <5> QED
          BY <5>2, <5>3
      <4> HIDE DEF x
      <4>3. parent'[x] = q
        BY <1>11, <1>12, <3>3, <4>2
      <4> QED
        BY <1>4, <3>0, <3>3, <4>1, <4>2, <4>3 DEF Exists, x
    <3> QED
      BY <3>1, <3>2, <3>3
  <2>4. ASSUME NEW t \in Tasks \ {INITPROC}, Exists(t)'
        PROVE  /\ parent'[t] \in Tasks
               /\ \E i \in 1 .. Len(children'[parent'[t]]) : children'[parent'[t]][i] = t
    <3>1. parent[t] \in Tasks
      BY <1>4, <2>4 DEF Families
    <3>2. PICK i \in 1 .. Len(children[parent[t]]) : children[parent[t]][i] = t
      BY <1>4, <2>4 DEF Families
    <3>3. CASE parent[t] = current
      <4>1. i \in 1 .. Len(b) /\ b[i] = t
        BY <3>2, <3>3 DEF b
      <4>2. parent'[t] = INITPROC /\ children'[parent'[t]] = c
        BY <1>10, <1>12, <4>1, Zenon DEF c
      <4>3. Len(a) + i \in 1 .. Len(c) /\ c[Len(a) + i] = t
        BY <1>9, <4>1 DEF c
      <4> QED
        BY <4>2, <4>3
    <3>4. CASE parent[t] # current
      <4>1. parent'[t] = parent[t]
        BY <1>11, <1>12, <3>4
      <4>2. CASE parent[t] = INITPROC
        <5>1. i \in 1 .. Len(a) /\ a[i] = t
          BY <3>2, <4>2 DEF a
        <5>2. i \in 1 .. Len(c) /\ c[i] = t
          BY <1>9, <5>1 DEF c
        <5>3. children'[parent'[t]] = c
          BY <1>10, <4>1, <4>2 DEF c
        <5> QED
          BY <4>1, <4>2, <5>2, <5>3
      <4>3. CASE parent[t] # INITPROC
        BY <1>10, <3>1, <3>2, <3>4, <4>1, <4>3
      <4> QED
        BY <4>2, <4>3
    <3> QED
      BY <3>3, <3>4
  <2> QED
    BY <2>1, <2>2, <2>3, <2>4 DEF Families
<1>15. parent' \in [Tasks -> Tasks \union {NoTask}]
  BY <1>1 DEF TaskTypeOK
<1>16. TaskTypeOK'
  BY <1>1, <1>7, <1>10, <1>15, Zenon DEF TaskTypeOK
<1> QED
  BY <1>5, <1>6, <1>8, <1>14, <1>16

-----------------------------------------------------------------------------
(***************************************************************************)
(* waitpid.                                                                *)
(***************************************************************************)
LEMMA WaitStep ==
  ASSUME TasksIInv, NEW arg, sys_waitpid(arg)
  PROVE  TasksIInv'
<1> USE DEF TasksIInv
<1> DEFINE s == children[current]
           k == FirstReapable(arg)
           child == s[k]
<1>1. current \in Tasks /\ s \in Seq(Tasks) /\ Len(s) \in Nat
  BY DEF sys_waitpid, TaskTypeOK
<1>2. k \in 1 .. Len(s) /\ task_status[child] = "Zombie"
  <2>1. Reapable(arg) # {} /\ Reapable(arg) \subseteq 1 .. Len(s)
    BY DEF sys_waitpid, Reapable
  <2>2. \E j \in Reapable(arg) : \A m \in Reapable(arg) : j <= m
    BY <2>1, Reapable(arg) \in SUBSET Nat, LeastNatural
  <2>3. k \in Reapable(arg)
    BY <2>2 DEF FirstReapable
  <2> QED
    BY <2>3 DEF Reapable
<1>3. /\ children' = [children EXCEPT ![current] = SubSeq(s, 1, k - 1) \o SubSeq(s, k + 1, Len(s))]
      /\ task_status' = [task_status EXCEPT ![child] = "Free"]
      /\ parent' = [parent EXCEPT ![child] = NoTask]
      /\ recycled' = Append(recycled, pid[child])
      /\ pid' = [pid EXCEPT ![child] = 0]
      /\ UNCHANGED <<pid_current, PID2TCB, ready_queue, current, halted>>
  BY <1>1 DEF sys_waitpid, pid_dealloc, TaskTypeOK
<1> DEFINE r == SubSeq(s, 1, k - 1) \o SubSeq(s, k + 1, Len(s))
<1>4. /\ r \in Seq(Tasks) /\ Len(r) = Len(s) - 1
      /\ \A i \in 1 .. Len(s) - 1 : r[i] = IF i < k THEN s[i] ELSE s[i + 1]
  BY <1>1, <1>2, RemoveAtFacts, Zenon
<1>5. child \in Tasks /\ child # INITPROC /\ parent[child] = current
  <2>1. child \in Tasks
    BY <1>1, <1>2
  <2> QED
    BY <1>1, <1>2, <2>1, Listed
<1>6. \A i, j \in 1 .. Len(s) : s[i] = s[j] => i = j
  BY <1>1, Once
<1>7. children' = [children EXCEPT ![current] = r]
  BY <1>3
<1> HIDE DEF r, s, k
<1>8. /\ \A i \in 1 .. Len(r) : \E j \in 1 .. Len(s) : r[i] = s[j] /\ j # k
      /\ \A j \in 1 .. Len(s) : j # k => \E i \in 1 .. Len(r) : r[i] = s[j]
      /\ \A i, j \in 1 .. Len(r) : r[i] = r[j] => i = j
  <2>1. ASSUME NEW i \in 1 .. Len(r)
        PROVE  LET m == IF i < k THEN i ELSE i + 1
               IN  m \in 1 .. Len(s) /\ m # k /\ r[i] = s[m]
    <3>1. CASE i < k
      BY <1>1, <1>2, <1>4, <3>1
    <3>2. CASE ~(i < k)
      BY <1>1, <1>2, <1>4, <3>2
    <3> QED
      BY <3>1, <3>2
  <2>2. ASSUME NEW j \in 1 .. Len(s), j # k PROVE \E i \in 1 .. Len(r) : r[i] = s[j]
    <3>1. CASE j < k
      <4>1. j \in 1 .. Len(r) /\ r[j] = s[j]
        BY <1>1, <1>2, <1>4, <3>1
      <4> QED
        BY <4>1
    <3>2. CASE j > k
      <4>1. j - 1 \in 1 .. Len(r) /\ ~(j - 1 < k) /\ (j - 1) + 1 = j
        BY <1>1, <1>2, <1>4, <3>2
      <4>2. r[j - 1] = s[j]
        BY <1>4, <4>1
      <4> QED
        BY <4>1, <4>2
    <3> QED
      BY <1>1, <1>2, <2>2, <3>1, <3>2
  <2>3. ASSUME NEW i \in 1 .. Len(r), NEW j \in 1 .. Len(r), r[i] = r[j] PROVE i = j
    <3> DEFINE m == IF i < k THEN i ELSE i + 1
               n == IF j < k THEN j ELSE j + 1
    <3>1. m \in 1 .. Len(s) /\ r[i] = s[m] /\ n \in 1 .. Len(s) /\ r[j] = s[n]
      BY <2>1
    <3>2. m = n
      <4> HIDE DEF m, n
      <4> QED
        BY <1>6, <2>3, <3>1, Zenon
    <3> QED
      BY <1>2, <1>4, <3>2
  <2> QED
    BY <2>1, <2>2, <2>3, Zenon
<1> HIDE DEF child
<1>9. /\ \A t \in Tasks : task_status'[t] = IF t = child THEN "Free" ELSE task_status[t]
      /\ \A t \in Tasks : parent'[t] = IF t = child THEN NoTask ELSE parent[t]
      /\ \A t \in Tasks : pid'[t] = IF t = child THEN 0 ELSE pid[t]
      /\ \A q \in Tasks : children'[q] = IF q = current THEN r ELSE children[q]
  BY <1>3, <1>7, Zenon DEF TaskTypeOK
<1>10. /\ \A t \in Tasks : Exists(t)' <=> Exists(t) /\ t # child
       /\ \A t \in Tasks : Live(t)' <=> Live(t)
       /\ ~Live(child) /\ Exists(child)
  BY <1>2, <1>5, <1>9 DEF Exists, Live
<1>11. Scheduled'
  <2>1. \A i \in 1 .. Len(ready_queue) : ready_queue[i] \in Tasks
    BY DEF TaskTypeOK
  <2>2. \A t \in Tasks : \A x \in {"Ready", "Running"} : task_status'[t] = x <=> task_status[t] = x
    BY <1>2, <1>9
  <2> QED
    BY <1>1, <1>3, <2>1, <2>2 DEF Scheduled
<1>12. pid[child] \in 1 .. pid_current - 1 /\ pid[child] \in Pids
  <2>1. pid[child] \in 1 .. pid_current - 1 /\ pid[child] # 0
    BY <1>5, <1>10, TaskBound DEF PidsOwned, TaskTypeOK
  <2> QED
    BY <1>5, <2>1 DEF TaskTypeOK
<1>13. /\ recycled' \in Seq(Pids) /\ Len(recycled') = Len(recycled) + 1 /\ Len(recycled) \in Nat
       /\ recycled'[Len(recycled) + 1] = pid[child]
       /\ \A i \in 1 .. Len(recycled) : recycled'[i] = recycled[i]
  BY <1>3, <1>12, AppendFacts DEF TaskTypeOK
<1>14. ASSUME NEW i \in 1 .. Len(recycled')
       PROVE  \/ i \in 1 .. Len(recycled) /\ recycled'[i] = recycled[i]
              \/ i = Len(recycled) + 1 /\ recycled'[i] = pid[child]
  BY <1>13
<1>15. PidsOwned'
  <2>0. pid_current \in Nat /\ pid_current' = pid_current
    <3>1. pid_current \in 2 .. Cardinality(Tasks) + 1
      BY Zenon DEF TaskTypeOK
    <3> QED
      BY <1>3, <3>1, TaskBound
  <2>1. pid'[INITPROC] = IDLE_PID
    BY <1>5, <1>9, TasksAssumption DEF PidsOwned
  <2>2. \A t \in Tasks : IF Exists(t)' THEN pid'[t] \in 1 .. pid_current' - 1 ELSE pid'[t] = 0
    BY <1>3, <1>9, <1>10 DEF PidsOwned
  <2>3. ASSUME NEW t \in Tasks, NEW u \in Tasks, Exists(t)', pid'[t] = pid'[u] PROVE t = u
    <3>1. Exists(t) /\ t # child /\ pid'[t] = pid[t]
      BY <1>9, <1>10, <2>3, Zenon
    <3>2. pid[t] # 0
      <4>1. pid[t] \in 1 .. pid_current - 1
        BY <3>1, Zenon DEF PidsOwned
      <4> QED
        BY <2>0, <4>1
    <3>3. u # child /\ pid[t] = pid[u]
      BY <1>9, <2>3, <3>1, <3>2, Zenon
    <3> QED
      BY <3>1, <3>3 DEF PidsOwned
  <2>4. \A i \in 1 .. Len(recycled') : recycled'[i] \in 1 .. pid_current' - 1
    BY <1>3, <1>12, <1>14 DEF PidsOwned
  <2>5. ASSUME NEW i \in 1 .. Len(recycled'), NEW t \in Tasks PROVE pid'[t] # recycled'[i]
    <3>1. recycled'[i] # 0
      BY <2>0, <2>4
    <3>2. CASE t = child
      BY <1>9, <3>1, <3>2
    <3>3. CASE t # child
      <4>1. pid'[t] = pid[t] /\ pid[t] # pid[child]
        BY <1>5, <1>9, <1>10, <3>3 DEF PidsOwned
      <4> QED
        BY <1>14, <4>1 DEF PidsOwned
    <3> QED
      BY <3>2, <3>3
  <2>6. ASSUME NEW i \in 1 .. Len(recycled'), NEW j \in 1 .. Len(recycled'), recycled'[i] = recycled'[j]
        PROVE  i = j
    <3>1. \A m \in 1 .. Len(recycled) : recycled[m] # pid[child]
      BY <1>5 DEF PidsOwned
    <3> QED
      BY <1>14, <2>6, <3>1 DEF PidsOwned
  <2>7. ASSUME NEW q \in 1 .. pid_current' - 1
        PROVE  (\E t \in Tasks : pid'[t] = q) \/ (\E i \in 1 .. Len(recycled') : recycled'[i] = q)
    <3>1. (\E t \in Tasks : pid[t] = q) \/ (\E i \in 1 .. Len(recycled) : recycled[i] = q)
      BY <1>3, <2>7 DEF PidsOwned
    <3>2. ASSUME NEW t \in Tasks, pid[t] = q, t # child PROVE pid'[t] = q
      BY <1>9, <3>2
    <3>3. ASSUME pid[child] = q
          PROVE  Len(recycled) + 1 \in 1 .. Len(recycled') /\ recycled'[Len(recycled) + 1] = q
      BY <1>13, <3>3
    <3>4. ASSUME NEW i \in 1 .. Len(recycled), recycled[i] = q
          PROVE  i \in 1 .. Len(recycled') /\ recycled'[i] = q
      BY <1>13, <3>4
    <3> QED
      BY <3>1, <3>2, <3>3, <3>4
  <2> QED
    BY <2>1, <2>2, <2>3, <2>4, <2>5, <2>6, <2>7 DEF PidsOwned
<1>16. Findable'
  <2>1. \A t \in Tasks : Live(t) => pid'[t] = pid[t]
    BY <1>9, <1>10
  <2>2. ASSUME NEW p \in DOMAIN PID2TCB' PROVE Live(PID2TCB[p])' /\ pid'[PID2TCB'[p]] = p
    <3>1. /\ PID2TCB'[p] = PID2TCB[p] /\ PID2TCB[p] \in Tasks
          /\ Live(PID2TCB[p]) /\ pid[PID2TCB[p]] = p
      BY <1>3 DEF Findable, TaskTypeOK
    <3>2. task_status'[PID2TCB[p]] = task_status[PID2TCB[p]]
      BY <1>9, <1>10, <3>1
    <3> QED
      BY <2>1, <3>1, <3>2 DEF Live
  <2> QED
    BY <1>3, <1>10, <2>1, <2>2 DEF Findable
<1>17. \A q \in Tasks : \A i \in 1 .. Len(children[q]) : children[q][i] \in Tasks
  BY DEF TaskTypeOK
<1>18. \A i \in 1 .. Len(s) : i # k => s[i] # child
  BY <1>2, <1>6 DEF child
<1>19. Families'
  <2>1. Live(INITPROC)'
    BY <1>10, TasksAssumption DEF Families
  <2>2. ASSUME NEW q \in Tasks, NEW i \in 1 .. Len(children'[q]), NEW j \in 1 .. Len(children'[q]),
               children'[q][i] = children'[q][j]
        PROVE  i = j
    <3>1. CASE q = current
      BY <1>8, <1>9, <2>2, <3>1
    <3>2. CASE q # current
      <4>1. children'[q] = children[q]
        BY <1>9, <3>2
      <4> QED
        BY <2>2, <4>1, Once
    <3> QED
      BY <3>1, <3>2
  <2>3. ASSUME NEW q \in Tasks, NEW i \in 1 .. Len(children'[q])
        PROVE  \E j \in 1 .. Len(children[q]) :
                 children'[q][i] = children[q][j] /\ children[q][j] # child
    <3>1. CASE q = current
      <4>1. i \in 1 .. Len(r) /\ children'[q][i] = r[i] /\ children[q] = s
        BY <1>9, <3>1 DEF s
      <4>2. PICK j \in 1 .. Len(s) : r[i] = s[j] /\ j # k
        BY <1>8, <4>1
      <4> QED
        BY <1>18, <4>1, <4>2
    <3>2. CASE q # current
      <4>1. children'[q] = children[q] /\ i \in 1 .. Len(children[q])
        BY <1>9, <3>2
      <4>2. parent[children[q][i]] = q
        BY <4>1 DEF Families
      <4> QED
        BY <1>5, <3>2, <4>1, <4>2
    <3> QED
      BY <3>1, <3>2
  <2>4. ASSUME NEW q \in Tasks, NEW i \in 1 .. Len(children'[q])
        PROVE  /\ children'[q][i] # INITPROC /\ Exists(children[q][i])'
               /\ parent'[children'[q][i]] = q /\ Live(q)'
    <3>1. PICK j \in 1 .. Len(children[q]) :
                 children'[q][i] = children[q][j] /\ children[q][j] # child
      BY <2>3
    <3> DEFINE x == children[q][j]
    <3>2. x # INITPROC /\ Exists(x) /\ parent[x] = q /\ Live(q) /\ x \in Tasks /\ x # child
      BY <1>17, <3>1 DEF Families
    <3>3. children'[q][i] = x
      BY <3>1
    <3> HIDE DEF x
    <3>4. parent'[x] = q /\ task_status'[x] = task_status[x] /\ Live(q)'
      BY <1>9, <1>10, <3>2
    <3> QED
      BY <3>2, <3>3, <3>4 DEF Exists
  <2>5. ASSUME NEW t \in Tasks \ {INITPROC}, Exists(t)'
        PROVE  /\ parent'[t] \in Tasks
               /\ \E i \in 1 .. Len(children'[parent'[t]]) : children'[parent'[t]][i] = t
    <3>1. Exists(t) /\ t # child /\ parent'[t] = parent[t] /\ parent[t] \in Tasks
      BY <1>9, <1>10, <2>5, Zenon DEF Families
    <3>2. PICK i \in 1 .. Len(children[parent[t]]) : children[parent[t]][i] = t
      BY <3>1, Zenon DEF Families
    <3>3. CASE parent[t] = current
      <4>1. i \in 1 .. Len(s) /\ s[i] = t /\ children'[parent'[t]] = r
        BY <1>9, <3>1, <3>2, <3>3 DEF s
      <4>2. i # k
        BY <3>1, <4>1 DEF child
      <4> QED
        BY <1>8, <3>1, <4>1, <4>2, ZenonT(40)
    <3>4. CASE parent[t] # current
      <4>1. children'[parent[t]] = children[parent[t]]
        BY <1>9, <3>1, <3>4
      <4> QED
        BY <3>1, <3>2, <4>1
    <3> QED
      BY <3>3, <3>4
  <2> QED
    BY <2>1, <2>2, <2>4, <2>5 DEF Families
<1>20. TaskTypeOK'
  <2>1. children' \in [Tasks -> Seq(Tasks)]
    BY <1>4, <1>7, Zenon DEF TaskTypeOK
  <2>2. pid' \in [Tasks -> {0} \union Pids]
    BY <1>3, Zenon DEF TaskTypeOK
  <2> QED
    BY <1>3, <1>13, <2>1, <2>2 DEF TaskTypeOK
<1> QED
  BY <1>11, <1>15, <1>16, <1>19, <1>20

LEMMA NextTasks == TasksIInv /\ [Next]_taskVars => TasksIInv'
<1> SUFFICES ASSUME TasksIInv, [Next]_taskVars PROVE TasksIInv'
  OBVIOUS
<1>1. CASE UNCHANGED taskVars
  <2> USE <1>1 DEF taskVars, TasksIInv
  <2>1. TaskTypeOK'
    BY DEF TaskTypeOK
  <2>2. Scheduled'
    BY Zenon DEF Scheduled, Live
  <2>3. PidsOwned'
    BY DEF PidsOwned, Exists
  <2>4. Findable'
    BY DEF Findable, Live
  <2>5. Families'
    <3>1. /\ \A t \in Tasks : (Exists(t)' <=> Exists(t)) /\ (Live(t)' <=> Live(t))
          /\ UNCHANGED <<parent, children>>
      BY DEF Exists, Live
    <3> QED
      BY <3>1, SameFamilies
  <2> QED
    BY <2>1, <2>2, <2>3, <2>4, <2>5
<1>2. CASE TaskNext
  BY <1>2, RunStep, SuspendStep, ForkStep, ShutdownStep, ExitStep, WaitStep DEF TaskNext
<1> QED
  BY <1>1, <1>2 DEF Next, PoweredOff

-----------------------------------------------------------------------------
(***************************************************************************)
(* From occurrences to their numbers.                                      *)
(***************************************************************************)
LEMMA InQueue ==
  ASSUME TasksIInv, NEW t \in Tasks
  PROVE  Cardinality({i \in 1 .. Len(ready_queue) : ready_queue[i] = t})
           = IF task_status[t] = "Ready" THEN 1 ELSE 0
<1> DEFINE at == {i \in 1 .. Len(ready_queue) : ready_queue[i] = t}
<1>1. CASE task_status[t] = "Ready"
  <2>1. PICK i \in 1 .. Len(ready_queue) : ready_queue[i] = t
    BY <1>1 DEF TasksIInv, Scheduled
  <2>2. at = {i}
    BY <2>1 DEF TasksIInv, Scheduled
  <2> QED
    BY <1>1, <2>2, FS_Singleton, Zenon
<1>2. CASE task_status[t] # "Ready"
  <2>1. at = {}
    BY <1>2 DEF TasksIInv, Scheduled
  <2> QED
    BY <1>2, <2>1, FS_EmptySet
<1> QED
  BY <1>1, <1>2

LEMMA Partitioned == TasksIInv => PidsPartition
<1> SUFFICES ASSUME TasksIInv PROVE PidsPartition
  OBVIOUS
<1> USE DEF TasksIInv
<1> DEFINE living == {t \in Tasks : Exists(t)}
           used == {pid[t] : t \in living}
           f == [t \in living |-> pid[t]]
<1>1. f \in Bijection(living, used)
  <2>1. f \in [living -> used] /\ \A t, u \in living : f[t] = f[u] => t = u
    BY DEF PidsOwned
  <2>2. \A p \in used : \E t \in living : f[t] = p
    OBVIOUS
  <2> HIDE DEF f, used, living
  <2>3. f \in Injection(living, used)
    BY <2>1 DEF Injection, IsInjective
  <2>4. f \in Surjection(living, used)
    BY <2>1, <2>2 DEF Surjection
  <2> QED
    BY <2>3, <2>4 DEF Bijection
<1>2. Cardinality(used) = Cardinality(living)
  <2>1. IsFiniteSet(living)
    BY TasksAssumption, FS_Subset
  <2>2. ExistsBijection(living, used)
    BY <1>1 DEF ExistsBijection
  <2> HIDE DEF used, living
  <2> QED
    BY <2>1, <2>2, FS_Bijection
<1>3. recycled \in Seq(Pids) /\ DOMAIN recycled = 1 .. Len(recycled)
  BY DEF TaskTypeOK
<1>4. IsInjective(recycled)
  BY <1>3 DEF PidsOwned, IsInjective
<1>5. used \intersect Range(recycled) = {}
  BY <1>3 DEF PidsOwned, Range
<1>6. used \union Range(recycled) = 1 .. pid_current - 1
  <2>1. \A p \in used \union Range(recycled) : p \in 1 .. pid_current - 1
    BY <1>3 DEF PidsOwned, Range
  <2>2. ASSUME NEW p \in 1 .. pid_current - 1 PROVE p \in used \union Range(recycled)
    <3>1. ASSUME NEW t \in Tasks, pid[t] = p PROVE Exists(t)
      <4>1. p # 0
        BY TaskBound DEF TaskTypeOK
      <4> QED
        BY <3>1, <4>1 DEF PidsOwned
    <3>2. (\E t \in Tasks : pid[t] = p) \/ (\E i \in 1 .. Len(recycled) : recycled[i] = p)
      BY DEF PidsOwned
    <3> QED
      BY <1>3, <3>1, <3>2 DEF Range
  <2> QED
    BY <2>1, <2>2
<1> QED
  BY <1>2, <1>4, <1>5, <1>6, Zenon DEF PidsPartition

LEMMA TreeHolds == TasksIInv => FamilyTree
<1> SUFFICES ASSUME TasksIInv, NEW t \in Tasks \ {INITPROC}
             PROVE  LET lists == {q \in Tasks : t \in Range(children[q])}
                    IN  IF Exists(t)
                        THEN /\ lists = {parent[t]}
                             /\ IsInjective(children[parent[t]])
                             /\ task_status[parent[t]] \in {"Ready", "Running"}
                        ELSE lists = {}
  BY DEF FamilyTree
<1> USE DEF TasksIInv
<1> DEFINE lists == {q \in Tasks : t \in Range(children[q])}
<1>0. \A q \in Tasks : DOMAIN children[q] = 1 .. Len(children[q])
  BY DEF TaskTypeOK
<1>1. \A q \in lists : Exists(t) /\ parent[t] = q /\ Live(q)
  <2> SUFFICES ASSUME NEW q \in Tasks, t \in Range(children[q])
               PROVE  Exists(t) /\ parent[t] = q /\ Live(q)
    OBVIOUS
  <2>1. PICK i \in 1 .. Len(children[q]) : children[q][i] = t
    BY <1>0 DEF Range
  <2> QED
    BY <2>1, Listed
<1>2. ASSUME Exists(t) PROVE parent[t] \in lists
  <2>1. parent[t] \in Tasks /\ \E i \in 1 .. Len(children[parent[t]]) : children[parent[t]][i] = t
    BY <1>2, HasParent
  <2> QED
    BY <1>0, <2>1 DEF Range
<1>3. ASSUME Exists(t) PROVE IsInjective(children[parent[t]])
  <2>1. parent[t] \in Tasks
    BY <1>3, HasParent
  <2> QED
    BY <1>0, <2>1, Once DEF IsInjective
<1> QED
  BY <1>1, <1>2, <1>3 DEF Live

LEMMA TablesAgree == TasksIInv => TasksInv
<1> SUFFICES ASSUME TasksIInv PROVE TasksInv
  OBVIOUS
<1>1. Pid2TaskExact
  <2>1. \A t \in Tasks : Live(t) <=> (pid[t] \in DOMAIN PID2TCB /\ PID2TCB[pid[t]] = t)
    BY DEF TasksIInv, Findable
  <2> QED
    BY <2>1 DEF Pid2TaskExact, TasksIInv, Findable, Live
<1>2. \A t \in Tasks : ~halted => (task_status[t] = "Running" <=> current = t)
  BY TasksAssumption DEF TasksIInv, Scheduled
<1>3. QueueExact
  BY <1>2, InQueue DEF QueueExact
<1> QED
  BY <1>1, <1>3, Partitioned, TreeHolds DEF TasksInv, TasksIInv

LEMMA ZombieCounted == TasksIInv => ZombieCountIsOne
<1> SUFFICES ASSUME TasksIInv, NEW t \in Tasks, task_status[t] = "Zombie"
             PROVE  strong_count(t) = 1
  BY DEF ZombieCountIsOne
<1> USE DEF TasksIInv
<1>1. Cardinality({i \in 1 .. Len(ready_queue) : ready_queue[i] = t}) = 0
  BY InQueue
<1>2. Cardinality({p \in DOMAIN PID2TCB : PID2TCB[p] = t}) = 0
  <2>1. {p \in DOMAIN PID2TCB : PID2TCB[p] = t} = {}
    BY DEF Findable, Live
  <2> QED
    BY <2>1, FS_EmptySet
<1> DEFINE in(q) == {<<q, i>> : i \in {j \in 1 .. Len(children[q]) : children[q][j] = t}}
           all == UNION {in(q) : q \in Tasks}
<1>3. Cardinality(all) = 1
  <2>1. t # INITPROC /\ Exists(t)
    BY DEF Families, Live, Exists
  <2>2. PICK i \in 1 .. Len(children[parent[t]]) : children[parent[t]][i] = t
    BY <2>1, HasParent
  <2>3. parent[t] \in Tasks
    BY <2>1, HasParent
  <2>4. ASSUME NEW q \in Tasks, NEW j \in 1 .. Len(children[q]), children[q][j] = t
        PROVE  q = parent[t] /\ j = i
    <3>1. q = parent[t]
      BY <2>4, Listed
    <3> QED
      BY <2>2, <2>3, <2>4, <3>1, Once
  <2>5. ASSUME NEW x \in all PROVE x = <<parent[t], i>>
    <3>1. PICK q \in Tasks : x \in in(q)
      OBVIOUS
    <3>2. PICK j \in 1 .. Len(children[q]) : children[q][j] = t /\ x = <<q, j>>
      BY <3>1
    <3> QED
      BY <2>4, <3>2
  <2>6. <<parent[t], i>> \in all
    <3>1. <<parent[t], i>> \in in(parent[t])
      BY <2>2
    <3> QED
      BY <2>3, <3>1
  <2>7. all = {<<parent[t], i>>}
    BY <2>5, <2>6
  <2> QED
    BY <2>7, FS_Singleton, Zenon
<1>4. current # t
  BY TasksAssumption DEF Scheduled
<1> QED
  BY <1>1, <1>2, <1>3, <1>4 DEF strong_count

(***************************************************************************)
(* The four tables that refer to processes agree, for any number of tasks: *)
(* pids in use and recycled pids split what was handed out, PID2TCB and    *)
(* the ready queue hold exactly who belongs there, and every process but   *)
(* INITPROC has one live parent, after any sequence of fork, exit, waitpid *)
(* and preemption.                                                         *)
(***************************************************************************)
THEOREM ProcessTables == Spec => []TasksInv
<1> QED
  BY TablesAgree, InitTasks, NextTasks, PTL DEF Spec

(***************************************************************************)
(* The assertion of sys_waitpid on strong_count: the children list is the  *)
(* last reference to a zombie, so its removal there frees it.              *)
(***************************************************************************)
THEOREM ReapedIsFreed == Spec => []ZombieCountIsOne
<1> QED
  BY ZombieCounted, InitTasks, NextTasks, PTL DEF Spec

-----------------------------------------------------------------------------
(***************************************************************************)
(* Credentials.                                                            *)
(***************************************************************************)
Sent == [signum : Signums, uid : Uids, pid : Nat]

CredTypes ==
  /\ uid \in [Tasks -> Uids]
  /\ capabilities \in [Tasks -> SUBSET AllCapabilities]
  /\ signals \in [Tasks -> SUBSET Sent]

(* A block that is not in use has no signals left from an earlier task.    *)
Forgets == \A t \in Tasks : ~Exists(t) => signals[t] = {}

(***************************************************************************)
(* The inductive invariant.  The policy is about tasks that exist; that    *)
(* sender, target and parent do follows from the tables of the kernel.     *)
(***************************************************************************)
CredInv == TasksIInv /\ CredTypes /\ Forgets /\ CapabilitiesAreRoots /\ NoForeignSignal

-----------------------------------------------------------------------------
(* Initially there is one task, ready, with all capabilities.              *)
LEMMA InitCredInv == CredInit => CredInv
<1> SUFFICES ASSUME CredInit PROVE CredInv
  OBVIOUS
<1>1. TasksIInv
  BY InitTasks DEF CredInit
<1> USE TasksAssumption, CredentialsAssumption DEF CredInit, Init
<1>2. CredTypes /\ Forgets /\ NoForeignSignal
  BY DEF CredTypes, Forgets, NoForeignSignal, ROOT_UID
<1>3. CapabilitiesAreRoots
  BY DEF CapabilitiesAreRoots, Exists, is_root
<1> QED
  BY <1>1, <1>2, <1>3 DEF CredInv

-----------------------------------------------------------------------------
(***************************************************************************)
(* The steps of Credentials keep CredInv.                                  *)
(***************************************************************************)
(* Scheduling creates and frees no task and changes no pid.                *)
LEMMA ScheduleFacts ==
  ASSUME TasksIInv, Schedule
  PROVE  /\ TasksIInv' /\ pid' = pid
         /\ \A t \in Tasks : Exists(t)' <=> Exists(t)
         /\ UNCHANGED <<uid, capabilities, signals>>
<1>1. UNCHANGED <<uid, capabilities, signals>>
  BY DEF Schedule
<1>2. TasksIInv'
  BY RunStep, SuspendStep, ExitStep, ShutdownStep DEF Schedule
<1>3. pid' = pid
  BY Zenon DEF Schedule, run_tasks, suspend_current_and_run_next, exit_current_and_run_next, Shutdown
<1>4. \A t \in Tasks : Exists(t)' <=> Exists(t)
  <2>1. CASE run_tasks
    <3>1. /\ current' = ready_queue[1] /\ 1 \in 1 .. Len(ready_queue)
          /\ task_status' = [task_status EXCEPT ![current'] = "Running"]
      BY <2>1 DEF run_tasks, TasksIInv, TaskTypeOK
    <3>2. task_status[current'] = "Ready"
      BY <3>1 DEF TasksIInv, Scheduled
    <3> QED
      BY <3>1, <3>2 DEF Exists, TasksIInv, TaskTypeOK
  <2>2. CASE suspend_current_and_run_next \/ exit_current_and_run_next
    <3>1. task_status[current] = "Running"
      BY <2>2, Zenon DEF suspend_current_and_run_next, exit_current_and_run_next, TasksIInv, Scheduled
    <3> QED
      BY <2>2, <3>1, Zenon DEF suspend_current_and_run_next, exit_current_and_run_next, Exists,
                        TasksIInv, TaskTypeOK
  <2>3. CASE Shutdown
    BY <2>3 DEF Shutdown, Exists
  <2> QED
    BY <2>1, <2>2, <2>3 DEF Schedule
<1> QED
  BY <1>1, <1>2, <1>3, <1>4

LEMMA ScheduleInv == CredInv /\ Schedule => CredInv'
<1> SUFFICES ASSUME CredInv, Schedule PROVE CredInv'
  OBVIOUS
<1>1. /\ TasksIInv' /\ pid' = pid
      /\ \A t \in Tasks : Exists(t)' <=> Exists(t)
      /\ UNCHANGED <<uid, capabilities, signals>>
  BY ScheduleFacts DEF CredInv
<1>2. CredTypes' /\ Forgets' /\ NoForeignSignal'
  BY <1>1 DEF CredInv, CredTypes, Forgets, NoForeignSignal
<1>3. CapabilitiesAreRoots'
  BY <1>1 DEF CredInv, CapabilitiesAreRoots, is_root
<1> QED
  BY <1>1, <1>2, <1>3 DEF CredInv

(* What a fork does to the tasks.                                          *)
LEMMA ForkFacts ==
  ASSUME TasksIInv, NEW child \in Tasks, sys_fork(child)
  PROVE  /\ current \in Tasks /\ Exists(current) /\ ~Exists(child)
         /\ Exists(child)' /\ parent'[child] = current
         /\ \A t \in Tasks \ {child} : (Exists(t)' <=> Exists(t)) /\ pid'[t] = pid[t]
<1> USE DEF TasksIInv
<1>1. /\ current \in Tasks /\ task_status[current] = "Running" /\ task_status[child] = "Free"
      /\ task_status' = [task_status EXCEPT ![child] = "Ready"]
      /\ parent' = [parent EXCEPT ![child] = current] /\ pid_alloc(child)
  BY DEF sys_fork, TaskTypeOK, Scheduled
<1>2. ~Exists(child) /\ \A t \in Tasks : Exists(t)' <=> t = child \/ Exists(t)
  BY <1>1 DEF TaskTypeOK, Exists
<1>3. \A t \in Tasks \ {child} : pid'[t] = pid[t]
  BY <1>1, <1>2, PidAllocated
<1>4. parent'[child] = current /\ Exists(current)
  BY <1>1 DEF TaskTypeOK, Exists
<1> QED
  BY <1>1, <1>2, <1>3, <1>4

LEMMA CredForkInv ==
  ASSUME CredInv, NEW child \in Tasks, Fork(child)
  PROVE  CredInv'
<1>1. TasksIInv'
  BY ForkStep DEF CredInv, Fork
<1>2. /\ current \in Tasks /\ Exists(current) /\ ~Exists(child) /\ Exists(child)'
      /\ \A t \in Tasks \ {child} : (Exists(t)' <=> Exists(t)) /\ pid'[t] = pid[t]
  BY ForkFacts DEF CredInv, Fork
<1>3. /\ signals' = signals
      /\ uid' = [uid EXCEPT ![child] = uid[current]]
      /\ capabilities' = [capabilities EXCEPT ![child] = capabilities[current]]
  BY DEF Fork, fork_from
<1>4. signals[child] = {}
  BY <1>2 DEF CredInv, Forgets
<1>5. CredTypes'
  BY <1>2, <1>3 DEF CredInv, CredTypes
<1>6. Forgets'
  BY <1>2, <1>3, <1>4 DEF CredInv, Forgets
<1>7. CapabilitiesAreRoots'
  BY <1>2, <1>3 DEF CredInv, CapabilitiesAreRoots, is_root, CredTypes
<1>8. NoForeignSignal'
  BY <1>2, <1>3, <1>4 DEF CredInv, NoForeignSignal, CredTypes
<1> QED
  BY <1>1, <1>5, <1>6, <1>7, <1>8 DEF CredInv

(* sys_waitpid frees one task.                                             *)
LEMMA WaitFacts ==
  ASSUME TasksIInv, NEW arg, sys_waitpid(arg)
  PROVE  \E child \in Tasks : \A t \in Tasks :
           (Exists(t)' <=> Exists(t) /\ t # child) /\ (t # child => pid'[t] = pid[t])
<1> USE DEF TasksIInv
<1> DEFINE k == FirstReapable(arg)
           child == children[current][k]
<1>1. Reapable(arg) # {} /\ Reapable(arg) \in SUBSET Nat
  <2>1. Reapable(arg) # {}
    BY DEF sys_waitpid
  <2>2. Reapable(arg) \in SUBSET Nat
    BY DEF Reapable
  <2> QED
    BY <2>1, <2>2
<1>2. k \in Reapable(arg)
  <2>1. \E j \in Reapable(arg) : \A m \in Reapable(arg) : j <= m
    BY <1>1, LeastNatural
  <2> QED
    BY <2>1 DEF FirstReapable
<1>3. child \in Tasks
  <2>1. current \in Tasks /\ k \in 1 .. Len(children[current])
    BY <1>2 DEF sys_waitpid, Reapable, TaskTypeOK
  <2> QED
    BY <2>1 DEF TaskTypeOK
<1>4. /\ task_status' = [task_status EXCEPT ![child] = "Free"]
      /\ pid' = [pid EXCEPT ![child] = 0]
  BY DEF sys_waitpid, pid_dealloc
<1> HIDE DEF child
<1>5. \A t \in Tasks :
        (Exists(t)' <=> Exists(t) /\ t # child) /\ (t # child => pid'[t] = pid[t])
  BY <1>3, <1>4 DEF Exists, TaskTypeOK
<1> QED
  BY <1>3, <1>5

LEMMA CredWaitInv ==
  ASSUME CredInv, Waitpid
  PROVE  CredInv'
<1>0. PICK arg \in {-1} \union Pids : sys_waitpid(arg)
  BY DEF Waitpid
<1>1. TasksIInv'
  BY <1>0, WaitStep DEF CredInv
<1>3. PICK child \in Tasks : \A t \in Tasks :
        (Exists(t)' <=> Exists(t) /\ t # child) /\ (t # child => pid'[t] = pid[t])
  BY <1>0, WaitFacts DEF CredInv
<1>4. /\ signals' = [t \in Tasks |-> IF Exists(t)' THEN signals[t] ELSE {}]
      /\ uid' = [t \in Tasks |-> IF Exists(t)' THEN uid[t] ELSE ROOT_UID]
      /\ capabilities' = [t \in Tasks |-> IF Exists(t)' THEN capabilities[t] ELSE {}]
  <2>1. \A t \in Tasks : Forgotten(t) = IF Exists(t)' THEN signals[t] ELSE {}
    BY DEF Forgotten, Exists
  <2>2. signals' = [t \in Tasks |-> Forgotten(t)]
    BY DEF Waitpid
  <2>3. signals' = [t \in Tasks |-> IF Exists(t)' THEN signals[t] ELSE {}]
    BY <2>1, <2>2
  <2> QED
    BY <2>3 DEF Waitpid, Exists
<1>5. CredTypes' /\ Forgets'
  BY <1>4, CredentialsAssumption DEF CredInv, CredTypes, Forgets, ROOT_UID
<1>6. CapabilitiesAreRoots'
  BY <1>3, <1>4 DEF CredInv, CapabilitiesAreRoots, is_root
<1>7. NoForeignSignal'
  BY <1>3, <1>4 DEF CredInv, NoForeignSignal
<1> QED
  BY <1>1, <1>5, <1>6, <1>7 DEF CredInv

LEMMA KillInv ==
  ASSUME CredInv, NEW p \in Pids, NEW signum \in Signums, sys_kill(p, signum)
  PROVE  CredInv'
<1>1. UNCHANGED <<taskVars, uid, capabilities>>
  BY DEF sys_kill
<1>2. TasksIInv' /\ CapabilitiesAreRoots'
  BY <1>1, NextTasks DEF taskVars, CredInv, CapabilitiesAreRoots, Exists, is_root
<1>3. CASE UNCHANGED signals
  BY <1>1, <1>2, <1>3 DEF taskVars, CredInv, CredTypes, Forgets, NoForeignSignal, Exists
<1>4. CASE signals' # signals
  <2> DEFINE target == PID2TCB[p]
             s == [signum |-> signum, uid |-> uid[current], pid |-> pid[current]]
  <2>1. /\ p \in DOMAIN PID2TCB /\ authorize_signal(current, target)
        /\ signals' = [signals EXCEPT ![target] = @ \union {s}]
    BY <1>4 DEF sys_kill, KillRefused, KillRequest
  <2>2. /\ target \in Tasks /\ Exists(target)
        /\ current \in Tasks /\ Exists(current)
    BY <2>1 DEF sys_kill, CredInv, TasksIInv, TaskTypeOK, Scheduled, Findable, Live, Exists
  <2>3. s \in Sent
    <3>1. pid[current] \in Nat
      BY <2>2, TaskBound DEF CredInv, TasksIInv, TaskTypeOK, Pids
    <3> QED
      BY <2>2, <3>1 DEF Sent, CredInv, CredTypes
  <2>4. pid[current] = pid[target] \/ uid[current] \in {ROOT_UID, uid[target]}
    <3>1. "KILL" \in capabilities[current] => uid[current] = ROOT_UID
      BY <2>2 DEF CredInv, CapabilitiesAreRoots, is_root
    <3> QED
      BY <2>1, <3>1 DEF authorize_signal
  <2>5. CredTypes'
    BY <1>1, <2>1, <2>2, <2>3 DEF CredInv, CredTypes
  <2>6. Forgets'
    BY <1>1, <2>1, <2>2 DEF taskVars, CredInv, Forgets, Exists, CredTypes
  <2>7. NoForeignSignal'
    <3>1. s.uid = uid[current] /\ s.pid = pid[current]
      OBVIOUS
    <3> HIDE DEF s
    <3>2. \A t \in Tasks : \A x \in signals'[t] : x \in signals[t] \/ (t = target /\ x = s)
      BY <2>1, <2>2 DEF CredInv, CredTypes
    <3> QED
      BY <1>1, <2>4, <3>1, <3>2 DEF taskVars, CredInv, NoForeignSignal
  <2> QED
    BY <1>2, <2>5, <2>6, <2>7 DEF CredInv
<1> QED
  BY <1>3, <1>4

LEMMA SetuidInv ==
  ASSUME CredInv, NEW u \in Uids, NEW fits \in BOOLEAN, sys_setuid(u, fits)
  PROVE  CredInv'
<1>1. UNCHANGED <<taskVars, signals>>
  BY DEF sys_setuid
<1>2. TasksIInv' /\ Forgets'
  BY <1>1, NextTasks DEF taskVars, CredInv, Forgets, Exists
<1>3. CASE UNCHANGED <<uid, capabilities>>
  BY <1>1, <1>2, <1>3 DEF taskVars, CredInv, CredTypes, CapabilitiesAreRoots, NoForeignSignal,
                          Exists, is_root
<1>4. CASE is_root(current) /\ SetUid(u)
  <2>1. current \in Tasks /\ Exists(current)
    BY DEF sys_setuid, CredInv, TasksIInv, TaskTypeOK, Scheduled, Exists
  <2>2. /\ uid[current] = ROOT_UID
        /\ uid' = [uid EXCEPT ![current] = u]
        /\ capabilities' = [capabilities EXCEPT ![current] = IF u # ROOT_UID THEN {} ELSE @]
    BY <1>4 DEF is_root, SetUid
  <2>3. CredTypes'
    BY <1>1, <2>1, <2>2 DEF CredInv, CredTypes
  <2>4. CapabilitiesAreRoots'
    <3>1. \A t \in Tasks : Exists(t)' <=> Exists(t)
      BY <1>1 DEF taskVars, Exists
    <3>2. {} # AllCapabilities
      BY DEF AllCapabilities
    <3> QED
      BY <2>1, <2>2, <3>1, <3>2 DEF CredInv, CapabilitiesAreRoots, is_root, CredTypes
  <2>5. NoForeignSignal'
    BY <1>1, <2>1, <2>2 DEF taskVars, CredInv, NoForeignSignal, CredTypes
  <2> QED
    BY <1>2, <2>3, <2>4, <2>5 DEF CredInv
<1> QED
  BY <1>3, <1>4 DEF sys_setuid, SetUidRefused

(* Every step keeps the invariant.                                         *)
LEMMA NextCredInv == CredInv /\ [CredNext]_vars => CredInv'
<1> SUFFICES ASSUME CredInv, [CredNext]_vars PROVE CredInv'
  OBVIOUS
<1>1. CASE Schedule
  BY <1>1, ScheduleInv
<1>2. ASSUME NEW child \in Tasks, Fork(child) PROVE CredInv'
  BY <1>2, CredForkInv
<1>3. CASE Waitpid
  BY <1>3, CredWaitInv
<1>4. ASSUME NEW p \in Pids, NEW signum \in Signums, sys_kill(p, signum) PROVE CredInv'
  BY <1>4, KillInv
<1>5. ASSUME NEW u \in Uids, NEW fits \in BOOLEAN, sys_setuid(u, fits) PROVE CredInv'
  BY <1>5, SetuidInv
<1>6. CASE UNCHANGED vars
  <2>1. TasksIInv'
    BY <1>6, NextTasks DEF vars, CredInv
  <2> QED
    BY <1>6, <2>1 DEF vars, taskVars, CredInv, CredTypes, Forgets, CapabilitiesAreRoots,
                      NoForeignSignal, Exists, is_root
<1> QED
  BY <1>1, <1>2, <1>3, <1>4, <1>5, <1>6 DEF CredNext

(***************************************************************************)
(* For any number of processes and any uids: sys_setuid and fork leave the *)
(* capabilities with root alone, and no pending signal came from a process *)
(* of another user that is not root.                                       *)
(***************************************************************************)
THEOREM CapabilitiesStayRoots == CredSpec => []CapabilitiesAreRoots
<1>1. CredInv => CapabilitiesAreRoots
  BY DEF CredInv
<1> QED
  BY <1>1, InitCredInv, NextCredInv, PTL DEF CredSpec

(***************************************************************************)
(* sys_kill and authorize_signal: a pending signal was sent by the process *)
(* itself, by root or under the uid the target has now, for any number of  *)
(* processes.                                                              *)
(***************************************************************************)
THEOREM SignalsAreNotForeign == CredSpec => []NoForeignSignal
<1>1. CredInv => NoForeignSignal
  BY DEF CredInv
<1> QED
  BY <1>1, InitCredInv, NextCredInv, PTL DEF CredSpec

(* The step that RootIsNotRegained is about.                               *)
LEMMA RootStep ==
  ASSUME CredInv, CredNext, NEW t \in Tasks, (Exists(t) /\ is_root(t))'
  PROVE  \/ Exists(t) /\ is_root(t)
         \/ ~Exists(t) /\ is_root(parent'[t])
<1> USE DEF is_root
<1>1. CASE Schedule
  BY <1>1, ScheduleFacts DEF CredInv
<1>2. ASSUME NEW child \in Tasks, Fork(child)
      PROVE  \/ Exists(t) /\ is_root(t)
             \/ ~Exists(t) /\ is_root(parent'[t])
  <2>1. /\ current \in Tasks /\ ~Exists(child) /\ parent'[child] = current
        /\ \A v \in Tasks \ {child} : Exists(v)' <=> Exists(v)
    BY <1>2, ForkFacts DEF CredInv, Fork
  <2>2. uid' = [uid EXCEPT ![child] = uid[current]]
    BY <1>2 DEF Fork, fork_from
  <2> QED
    BY <2>1, <2>2 DEF CredInv, CredTypes
<1>3. CASE Waitpid
  <2>1. PICK arg \in {-1} \union Pids : sys_waitpid(arg)
    BY <1>3 DEF Waitpid
  <2>2. PICK child \in Tasks : \A v \in Tasks :
          (Exists(v)' <=> Exists(v) /\ v # child) /\ (v # child => pid'[v] = pid[v])
    BY <2>1, WaitFacts DEF CredInv
  <2>3. uid'[t] = uid[t]
    BY <1>3 DEF Waitpid, Exists
  <2> QED
    BY <2>2, <2>3
<1>4. ASSUME NEW p \in Pids, NEW signum \in Signums, sys_kill(p, signum)
      PROVE  Exists(t) /\ is_root(t)
  BY <1>4 DEF sys_kill, taskVars, Exists
<1>5. ASSUME NEW u \in Uids, NEW fits \in BOOLEAN, sys_setuid(u, fits)
      PROVE  Exists(t) /\ is_root(t)
  <2>1. Exists(t)
    BY <1>5 DEF sys_setuid, taskVars, Exists
  <2>2. CASE UNCHANGED uid
    BY <2>1, <2>2
  <2>3. CASE is_root(current) /\ SetUid(u)
    BY <2>1, <2>3 DEF SetUid, CredInv, CredTypes
  <2> QED
    BY <1>5, <2>2, <2>3 DEF sys_setuid, SetUidRefused
<1>6. CASE UNCHANGED vars
  BY <1>6 DEF vars, taskVars, Exists
<1> QED
  BY <1>1, <1>2, <1>3, <1>4, <1>5, <1>6 DEF CredNext

(***************************************************************************)
(* A process that gave root up by sys_setuid, and whatever it forks, never *)
(* has it again.                                                           *)
(***************************************************************************)
THEOREM RootStaysGivenUp == CredSpec => RootIsNotRegained
<1>1. CredInv /\ [CredNext]_vars =>
        [\A t \in Tasks : (Exists(t) /\ is_root(t))' =>
           \/ Exists(t) /\ is_root(t)
           \/ ~Exists(t) /\ is_root(parent'[t])]_vars
  BY RootStep
<1> QED
  BY <1>1, InitCredInv, NextCredInv, PTL DEF CredSpec, RootIsNotRegained

=============================================================================
