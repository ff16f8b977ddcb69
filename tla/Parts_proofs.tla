---------------------------- MODULE Parts_proofs ----------------------------
(***************************************************************************)
(* What the scheduling simulation, the tables of the system calls, the     *)
(* picture viewer, the calculator and printf promise, for every size of    *)
(* them, and the types of these parts.                                     *)
(***************************************************************************)
EXTENDS Scheduler, Syscalls, Picture, Calculator, Printf, SequenceTheorems,
        WellFoundedInduction, TLAPS

-----------------------------------------------------------------------------
(***************************************************************************)
(* Round robin is fair, and the lottery never finishes a task, for every   *)
(* number of tasks whose times ascend, and any order of runs.              *)
(***************************************************************************)

SchedTypes ==
  /\ algorithm \in Algorithm \cup {"none"}
  /\ state \in [Task -> 0 .. 2] /\ time_remaining \in [Task -> Int]
  /\ quanta \in [Task -> Int]
  /\ current_task_index \in Task

\* In the round that is going on i has had its turn and j has not.
Between(i, j) == i < current_task_index /\ current_task_index <= j

\* The first of two tasks has less time left, by a quantum if it is one turn
\* ahead, and it has used as many slices, or one more.
RoundRobin ==
  algorithm = "RR" =>
    /\ current_task = current_task_index
    /\ \A i \in Task : state[i] = 2 <=> time_remaining[i] <= 0
    /\ \A i, j \in Task : i < j =>
         \/ time_remaining[i] <= 0
         \/ ~Between(i, j) /\ time_remaining[i] <= time_remaining[j]
         \/ /\ Between(i, j)
            /\ time_remaining[i] <= time_remaining[j] - TimeQuantum
    /\ \A i, j \in Task : i < j /\ state[i] # 2 /\ state[j] # 2 =>
         quanta[i] = quanta[j] + (IF Between(i, j) THEN 1 ELSE 0)
    /\ Finished = Task => current_task_index = 0

\* Only round robin moves the index, and it leaves it at 0.
IndexAtRest == algorithm # "RR" => current_task_index = 0

\* A task of the lottery has all its time, or has won and has one tick less.
OneTick ==
  algorithm = "Lottery" =>
    \A i \in Task :
      \/ state[i] = 0 /\ time_remaining[i] = ExecTime[i]
      \/ state[i] = 1 /\ time_remaining[i] = ExecTime[i] - 1

SchedInv == SchedTypes /\ RoundRobin /\ IndexAtRest /\ OneTick

LEMMA SchedInitInv == SchedInit => SchedInv
<1> SUFFICES ASSUME SchedInit PROVE SchedInv
  OBVIOUS
<1>1. 0 \in Task
  BY NumTasksAssumption DEF Task
<1>2. state \in [Task -> 0 .. 2] /\ quanta \in [Task -> Int]
  BY DEF SchedInit
<1>3. time_remaining \in [Task -> Int] /\ current_task_index \in Task
  BY <1>1, TasksAssumption DEF SchedInit
<1> QED
  BY <1>2, <1>3
  DEF SchedInit, SchedInv, SchedTypes, RoundRobin, IndexAtRest, OneTick, Algorithm

\* A run starts with new control blocks and the index at 0.
LEMMA RunKeepsInv ==
  ASSUME SchedInv, NEW a \in Algorithm, RunScheduler(a)
  PROVE  SchedInv'
<1>1. 0 \in Task /\ current_task_index = 0
  BY NumTasksAssumption DEF Task, SchedInv, IndexAtRest, RunScheduler
<1>2. SchedTypes'
  BY TasksAssumption DEF SchedInv, SchedTypes, RunScheduler, Algorithm
<1>3. \A i \in Task : state'[i] = 0 /\ quanta'[i] = 0
  BY DEF RunScheduler
<1>4. time_remaining' = ExecTime /\ current_task' = 0
      /\ current_task_index' = 0
  BY <1>1 DEF RunScheduler
<1>5. RoundRobin'
  <2>1. Finished' # Task
    BY <1>1, <1>3 DEF Finished
  <2>2. \A i \in Task : ExecTime[i] \in Int /\ ExecTime[i] > 0
    BY TasksAssumption
  <2>3. \A i, j \in Task : ~Between(i, j)'
    BY <1>4 DEF Between, Task
  <2> QED
    BY <1>3, <1>4, <2>1, <2>2, <2>3, TimesAscendAssumption DEF RoundRobin
<1>6. IndexAtRest' /\ OneTick'
  BY <1>3, <1>4 DEF IndexAtRest, OneTick
<1> QED
  BY <1>2, <1>5, <1>6 DEF SchedInv

\* The turn of task current_task_index.
LEMMA RRKeepsInv ==
  ASSUME SchedInv, ScheduleRR
  PROVE  SchedInv'
<1> DEFINE c == current_task_index
           n == (c + 1) % NumTasks
           left == IF time_remaining[c] > 0 THEN time_remaining[c] - TimeQuantum
                   ELSE time_remaining[c]
<1>1. c \in Task /\ current_task = c /\ algorithm = "RR"
  BY DEF SchedInv, SchedTypes, RoundRobin, ScheduleRR
<1>2. n = IF c = NumTasks - 1 THEN 0 ELSE c + 1
  BY <1>1, NumTasksAssumption DEF Task
<1>3. n \in Task
  BY <1>1, <1>2, NumTasksAssumption DEF Task
<1>4. /\ current_task_index' = n /\ current_task' = n
      /\ algorithm' = "RR"
  BY <1>1 DEF ScheduleRR, NextIndex
<1>5. left \in Int
  BY <1>1, QuantumAssumption DEF SchedInv, SchedTypes
<1>6. /\ time_remaining' = [time_remaining EXCEPT ![c] = left]
      /\ state' = [state EXCEPT ![c] = IF left <= 0 THEN 2 ELSE @]
      /\ quanta' = [quanta EXCEPT ![c] = IF time_remaining[c] > 0 THEN @ + 1
                                         ELSE @]
  BY <1>1 DEF ScheduleRR
<1>7. SchedTypes'
  BY <1>1, <1>3, <1>4, <1>5, <1>6 DEF SchedInv, SchedTypes, Algorithm
<1>8. /\ \A i \in Task \ {c} : /\ time_remaining'[i] = time_remaining[i]
                               /\ state'[i] = state[i]
                               /\ quanta'[i] = quanta[i]
      /\ time_remaining'[c] = left
      /\ state'[c] = IF left <= 0 THEN 2 ELSE state[c]
      /\ quanta'[c] = IF time_remaining[c] > 0 THEN quanta[c] + 1
                      ELSE quanta[c]
  BY <1>1, <1>6 DEF SchedInv, SchedTypes
<1>9. \A i \in Task : state[i] = 2 <=> time_remaining[i] <= 0
  BY <1>1 DEF SchedInv, RoundRobin
<1>10. \A i \in Task : /\ time_remaining[i] \in Int /\ quanta[i] \in Int
                       /\ i \in Int /\ i >= 0 /\ i <= NumTasks - 1
  BY NumTasksAssumption DEF SchedInv, SchedTypes, Task
<1>11. \A i, j \in Task : i < j =>
         /\ i # c /\ j # c => (Between(i, j)' <=> Between(i, j))
         /\ i = c => Between(i, j)' /\ ~Between(i, j)
         /\ j = c => ~Between(i, j)' /\ Between(i, j)
  BY <1>1, <1>2, <1>4, <1>10, NumTasksAssumption DEF Between
<1>12. \A i \in Task : state'[i] = 2 <=> time_remaining'[i] <= 0
  BY <1>1, <1>8, <1>9, <1>10, QuantumAssumption
<1>13. ASSUME NEW i \in Task, NEW j \in Task, i < j
       PROVE  \/ time_remaining[i] <= 0
              \/ ~Between(i, j) /\ time_remaining[i] <= time_remaining[j]
              \/ /\ Between(i, j)
                 /\ time_remaining[i] <= time_remaining[j] - TimeQuantum
  BY <1>1, <1>13 DEF SchedInv, RoundRobin
<1>14. ASSUME NEW i \in Task, NEW j \in Task, i < j
       PROVE  \/ time_remaining'[i] <= 0
              \/ ~Between(i, j)' /\ time_remaining'[i] <= time_remaining'[j]
              \/ /\ Between(i, j)'
                 /\ time_remaining'[i] <= time_remaining'[j] - TimeQuantum
  <2>1. CASE i # c /\ j # c
    BY <1>8, <1>11, <1>13, <1>14, <2>1
  <2>2. CASE i = c
    BY <1>8, <1>10, <1>11, <1>13, <1>14, <2>2, QuantumAssumption
  <2>3. CASE j = c
    BY <1>8, <1>10, <1>11, <1>13, <1>14, <2>3, QuantumAssumption
  <2> QED
    BY <2>1, <2>2, <2>3
<1>15. ASSUME NEW i \in Task, NEW j \in Task, i < j,
              state'[i] # 2, state'[j] # 2
       PROVE  quanta'[i] = quanta'[j] + (IF Between(i, j)' THEN 1 ELSE 0)
  <2>1. state[i] # 2 /\ state[j] # 2
    BY <1>1, <1>8, <1>15
  <2>2. quanta[i] = quanta[j] + (IF Between(i, j) THEN 1 ELSE 0)
    BY <1>1, <1>15, <2>1 DEF SchedInv, RoundRobin
  <2>3. time_remaining[i] > 0 /\ time_remaining[j] > 0
    BY <1>9, <1>10, <2>1
  <2>4. CASE i # c /\ j # c
    BY <1>8, <1>11, <1>15, <2>2, <2>4
  <2>5. CASE i = c
    BY <1>8, <1>10, <1>11, <1>15, <2>2, <2>3, <2>5
  <2>6. CASE j = c
    BY <1>8, <1>10, <1>11, <1>15, <2>2, <2>3, <2>6
  <2> QED
    BY <2>4, <2>5, <2>6
<1>16. ASSUME Finished' = Task
       PROVE  n = 0
  <2> DEFINE l == NumTasks - 1
  <2>1. l \in Task
    BY NumTasksAssumption DEF Task
  <2>2. \A i \in Task : state'[i] = 2
    BY <1>16 DEF Finished
  <2>3. PICK i \in Task : state[i] # 2
    BY DEF ScheduleRR, Finished
  <2>4. i = c
    BY <1>8, <2>2, <2>3
  <2>5. time_remaining[c] > 0
    BY <1>9, <1>10, <2>3, <2>4
  <2>6. SUFFICES ASSUME c # l PROVE FALSE
    BY <1>2
  <2>7. c < l /\ time_remaining[l] <= 0
    BY <1>1, <1>8, <1>9, <1>10, <2>1, <2>2, <2>6
  <2>8. time_remaining[c] <= time_remaining[l]
    BY <1>1, <1>10, <1>11, <1>13, <2>1, <2>5, <2>7, QuantumAssumption
  <2> QED
    BY <1>1, <1>10, <2>1, <2>5, <2>7, <2>8
<1>17. RoundRobin'
  BY <1>4, <1>12, <1>14, <1>15, <1>16 DEF RoundRobin
<1> QED
  BY <1>4, <1>7, <1>17 DEF SchedInv, IndexAtRest, OneTick

\* The winner had all its time.
LEMMA LotteryKeepsInv ==
  ASSUME SchedInv, ScheduleLottery
  PROVE  SchedInv'
<1>1. PICK w \in Task :
        /\ state[w] = 0
        /\ time_remaining' = [time_remaining EXCEPT ![w] =
                                time_remaining[w] - 1]
        /\ state' = [state EXCEPT ![w] =
                       IF time_remaining[w] - 1 <= 0 THEN 2 ELSE 1]
  BY DEF ScheduleLottery, Wins, Ready
<1>2. /\ time_remaining[w] = ExecTime[w] /\ ExecTime[w] \in Int
      /\ ExecTime[w] > 1
  BY <1>1, TasksAssumption, LongTasksAssumption
  DEF SchedInv, OneTick, ScheduleLottery
<1>3. SchedTypes'
  BY <1>1 DEF SchedInv, SchedTypes, ScheduleLottery
<1>4. OneTick'
  BY <1>1, <1>2 DEF SchedInv, OneTick, SchedTypes, ScheduleLottery
<1> QED
  BY <1>3, <1>4 DEF SchedInv, RoundRobin, IndexAtRest, ScheduleLottery

LEMMA SchedStepKeepsInv ==
  ASSUME SchedInv, [SchedNext]_schedVars
  PROVE  SchedInv'
<1>1. CASE \E a \in Algorithm : RunScheduler(a)
  BY <1>1, RunKeepsInv
<1>2. CASE ScheduleRR
  BY <1>2, RRKeepsInv
<1>3. CASE ScheduleFCFS
  <2>1. SchedTypes'
    BY <1>3 DEF SchedInv, SchedTypes, ScheduleFCFS, Ready
  <2> QED
    BY <1>3, <2>1
    DEF SchedInv, RoundRobin, IndexAtRest, OneTick, ScheduleFCFS
<1>4. CASE ScheduleLottery
  BY <1>4, LotteryKeepsInv
<1>5. CASE NoTickets
  BY <1>5 DEF NoTickets, SchedInv, SchedTypes, RoundRobin, IndexAtRest, OneTick
<1>6. CASE Completed
  BY <1>6 DEF Completed, SchedInv, SchedTypes, RoundRobin, IndexAtRest, OneTick,
              Finished, Between
<1>7. CASE UNCHANGED schedVars
  BY <1>7 DEF schedVars, SchedInv, SchedTypes, RoundRobin, IndexAtRest, OneTick,
              Finished, Between
<1> QED
  BY <1>1, <1>2, <1>3, <1>4, <1>5, <1>6, <1>7 DEF SchedNext, SchedStep

LEMMA InvIsFair == SchedInv => FairShare
<1> SUFFICES ASSUME SchedInv, algorithm = "RR",
                    NEW i \in Task, NEW j \in Task,
                    i \notin Finished, j \notin Finished
             PROVE  quanta[i] - quanta[j] \in -1 .. 1
  BY DEF FairShare
<1>1. /\ quanta[i] \in Int /\ quanta[j] \in Int
      /\ i \in Int /\ j \in Int
  BY DEF SchedInv, SchedTypes, Task
<1>2. i < j => quanta[i] = quanta[j] + (IF Between(i, j) THEN 1 ELSE 0)
  BY DEF SchedInv, RoundRobin, Finished
<1>3. j < i => quanta[j] = quanta[i] + (IF Between(j, i) THEN 1 ELSE 0)
  BY DEF SchedInv, RoundRobin, Finished
<1> QED
  BY <1>1, <1>2, <1>3

\* Two tasks that are not finished have used the same number of time slices,
\* but for one, in every run of round robin, whatever ran before it.
THEOREM RoundRobinIsFair == SchedSpec => []FairShare
  BY SchedInitInv, SchedStepKeepsInv, InvIsFair, PTL DEF SchedSpec

\* No task is ever finished in a run of the lottery, so run_scheduler cannot
\* return from it.
THEOREM LotteryNeverReturns == SchedSpec => []LotteryFinishesNothing
<1>1. SchedInv => LotteryFinishesNothing
  BY TasksAssumption, LongTasksAssumption
  DEF SchedInv, OneTick, LotteryFinishesNothing, Finished
<1> QED
  BY SchedInitInv, SchedStepKeepsInv, <1>1, PTL DEF SchedSpec

-----------------------------------------------------------------------------
(***************************************************************************)
(* fork stays inside the process table until something is killed, for      *)
(* every size of the tables and any sequence of calls.                     *)
(***************************************************************************)

\* As long as no process was killed the active slots are the first ones, as
\* many as there have been forks, and the next free one is the parent's slot.
SlotsInOrder ==
  ~kills => \A i \in Slot : process_table[i].active <=> i < next_pid - 1

PidsGivenOut == \A i \in Slot : process_table[i].pid < next_pid

TableInv ==
  SyscallsTypeOK /\ SlotsInOrder /\ PidsGivenOut /\ StrayForkNeedsKill

\* Without a kill the first free slot is the one fork takes for the parent.
LEMMA FirstFreeIsParent ==
  ASSUME SyscallsTypeOK, SlotsInOrder, ~kills,
         NEW i \in Slot, FirstFree(i)
  PROVE  i = ParentSlot
<1>1. ~(i < next_pid - 1)
  BY DEF SlotsInOrder, FirstFree
<1>2. ASSUME i > next_pid - 1
      PROVE  FALSE
  <2>1. next_pid - 1 \in Slot
    BY <1>2, TablesAssumption DEF Slot, SyscallsTypeOK
  <2>2. process_table[next_pid - 1].active
    BY <1>2, <2>1 DEF FirstFree
  <2> QED
    BY <2>1, <2>2 DEF SlotsInOrder, SyscallsTypeOK
<1> QED
  BY <1>1, <1>2, TablesAssumption DEF ParentSlot, Slot, SyscallsTypeOK

LEMMA TableInit == SyscallsInit => TableInv
<1> SUFFICES ASSUME SyscallsInit PROVE TableInv
  OBVIOUS
<1>1. [pid |-> 0, active |-> FALSE, memory |-> "null"] \in Process
  BY DEF Process
<1>2. SyscallsTypeOK
  <2>1. process_table \in [Slot -> Process]
    BY <1>1, Zenon DEF SyscallsInit
  <2>2. file_table \in [Fd -> {"null", "file"}]
    BY DEF SyscallsInit
  <2>3. next_pid \in Nat \ {0} /\ heap_end \in Int /\ ret \in Int
    BY SMT DEF SyscallsInit
  <2>4. halted \in BOOLEAN /\ strayed \in BOOLEAN /\ kills \in BOOLEAN
    BY Zenon DEF SyscallsInit
  <2> QED
    BY <2>1, <2>2, <2>3, <2>4, Zenon DEF SyscallsTypeOK
<1>3. \A i \in Slot : process_table[i].pid = 0 /\ ~process_table[i].active
  BY DEF SyscallsInit
<1>4. SlotsInOrder /\ PidsGivenOut /\ StrayForkNeedsKill
  BY <1>3, TablesAssumption
  DEF SyscallsInit, SlotsInOrder, PidsGivenOut, StrayForkNeedsKill, Slot
<1> QED
  BY <1>2, <1>4 DEF TableInv

\* A new process gets a pid that no slot has, and its slot is the parent's
\* unless something was killed.
LEMMA ForkKeepsTable ==
  ASSUME TableInv, Fork, UNCHANGED <<files, heap_end, halted>>
  PROVE  TableInv'
<1>1. CASE \E i \in Slot, m \in {"null", "stray"} :
             /\ FirstFree(i)
             /\ process_table' = [process_table EXCEPT ![i] =
                  [pid |-> next_pid, active |-> TRUE, memory |-> m]]
             /\ next_pid' = next_pid + 1 /\ ret' = next_pid
             /\ strayed' = (strayed \/ ParentSlot \notin Slot)
             /\ UNCHANGED kills
  <2>1. PICK i \in Slot, m \in {"null", "stray"} :
             /\ FirstFree(i)
             /\ process_table' = [process_table EXCEPT ![i] =
                  [pid |-> next_pid, active |-> TRUE, memory |-> m]]
             /\ next_pid' = next_pid + 1 /\ ret' = next_pid
             /\ strayed' = (strayed \/ ParentSlot \notin Slot)
             /\ UNCHANGED kills
    BY <1>1
  <2>2. SyscallsTypeOK'
    BY <2>1 DEF TableInv, SyscallsTypeOK, Process, files
  <2>3. \A j \in Slot : process_table'[j] =
          IF j = i THEN [pid |-> next_pid, active |-> TRUE, memory |-> m]
          ELSE process_table[j]
    BY <2>1 DEF TableInv, SyscallsTypeOK
  <2>4. ~kills => i = next_pid - 1
    BY <2>1, FirstFreeIsParent DEF TableInv, ParentSlot
  <2>5. SlotsInOrder'
    BY <2>1, <2>3, <2>4, TablesAssumption
    DEF TableInv, SlotsInOrder, SyscallsTypeOK, Slot
  <2>6. PidsGivenOut'
    BY <2>1, <2>3 DEF TableInv, PidsGivenOut, SyscallsTypeOK, Process
  <2>7. StrayForkNeedsKill'
    <3>1. strayed' => kills'
      BY <2>1, <2>4 DEF TableInv, StrayForkNeedsKill, ParentSlot
    <3>2. ASSUME NEW j \in Slot, NEW k \in Slot, j # k,
                 process_table'[j].pid # 0
          PROVE  process_table'[j].pid # process_table'[k].pid
      <4>1. \A l \in Slot : process_table[l].pid # next_pid
        BY DEF TableInv, PidsGivenOut, SyscallsTypeOK, Process
      <4> QED
        BY <2>3, <3>2, <4>1 DEF TableInv, StrayForkNeedsKill
    <3> QED
      BY <3>1, <3>2 DEF StrayForkNeedsKill
  <2> QED
    BY <2>2, <2>5, <2>6, <2>7 DEF TableInv
<1>2. CASE ret' = -1 /\ UNCHANGED processes
  BY <1>2 DEF TableInv, SyscallsTypeOK, SlotsInOrder, PidsGivenOut,
              StrayForkNeedsKill, processes, files
<1> QED
  BY <1>1, <1>2 DEF Fork

\* kill changes one flag; without a process to find it changes nothing.
LEMMA KillKeepsTable ==
  ASSUME TableInv, NEW pid, Kill(pid), UNCHANGED <<files, heap_end, halted>>
  PROVE  TableInv'
<1>1. CASE \E i \in Slot :
             /\ process_table' = [process_table EXCEPT ![i].active = FALSE]
             /\ kills' = (kills \/ process_table[i].active) /\ ret' = 0
             /\ UNCHANGED <<next_pid, strayed>>
  <2>1. PICK i \in Slot :
             /\ process_table' = [process_table EXCEPT ![i].active = FALSE]
             /\ kills' = (kills \/ process_table[i].active) /\ ret' = 0
             /\ UNCHANGED <<next_pid, strayed>>
    BY <1>1
  <2>2. \A j \in Slot : /\ process_table[j] \in Process
                        /\ process_table'[j] =
                             IF j = i THEN [process_table[i] EXCEPT
                                              !.active = FALSE]
                             ELSE process_table[j]
    BY <2>1 DEF TableInv, SyscallsTypeOK
  <2>3. \A j \in Slot : /\ process_table'[j].pid = process_table[j].pid
                        /\ process_table'[j].active =
                             (process_table[j].active /\ j # i)
    BY <2>2 DEF Process
  <2>4. SyscallsTypeOK'
    <3>1. [process_table[i] EXCEPT !.active = FALSE] \in Process
      BY <2>2 DEF Process
    <3>2. process_table' \in [Slot -> Process]
      BY <2>1, <3>1 DEF TableInv, SyscallsTypeOK
    <3>3. kills' \in BOOLEAN
      BY <2>1
    <3> QED
      BY <2>1, <3>2, <3>3 DEF TableInv, SyscallsTypeOK, files
  <2>5. SlotsInOrder'
    BY <2>1, <2>3 DEF TableInv, SlotsInOrder
  <2>6. PidsGivenOut' /\ StrayForkNeedsKill'
    BY <2>1, <2>3 DEF TableInv, PidsGivenOut, StrayForkNeedsKill
  <2> QED
    BY <2>4, <2>5, <2>6 DEF TableInv
<1>2. CASE ret' = -1 /\ UNCHANGED processes
  BY <1>2 DEF TableInv, SyscallsTypeOK, SlotsInOrder, PidsGivenOut,
              StrayForkNeedsKill, processes, files
<1> QED
  BY <1>1, <1>2 DEF Kill

\* The other calls leave the process table alone.
LEMMA OthersKeepTable ==
  ASSUME TableInv, UNCHANGED processes,
         file_table' \in [Fd -> {"null", "file"}], heap_end' \in Int,
         ret' \in Int, halted' \in BOOLEAN
  PROVE  TableInv'
  BY DEF TableInv, SyscallsTypeOK, SlotsInOrder, PidsGivenOut,
         StrayForkNeedsKill, processes

LEMMA CallKeepsTable ==
  ASSUME TableInv, NEW number \in CallNumber, SyscallHandler(number)
  PROVE  TableInv'
<1> USE DEF SyscallHandler, CallNumber
<1>1. CASE number = "exit"
  BY <1>1, OthersKeepTable DEF Exit, TableInv, SyscallsTypeOK, files
<1>2. CASE number = "sbrk"
  <2>1. PICK n \in Increment : Sbrk(n)
    BY <1>2
  <2>2. heap_end' \in Int /\ ret' \in Int
    BY <2>1, HeapAssumption DEF Sbrk, TableInv, SyscallsTypeOK
  <2> QED
    BY <1>2, <2>2, OthersKeepTable DEF TableInv, SyscallsTypeOK, files
<1>3. CASE number = "open"
  <2>1. file_table' \in [Fd -> {"null", "file"}] /\ ret' \in Int
    BY <1>3, TablesAssumption DEF Open, TableInv, SyscallsTypeOK, Fd
  <2> QED
    BY <1>3, <2>1, OthersKeepTable DEF TableInv, SyscallsTypeOK
<1>4. CASE number = "close"
  <2>1. file_table' \in [Fd -> {"null", "file"}] /\ ret' \in Int
    BY <1>4 DEF Close, TableInv, SyscallsTypeOK
  <2> QED
    BY <1>4, <2>1, OthersKeepTable DEF TableInv, SyscallsTypeOK
<1>5. CASE number = "fork"  BY <1>5, ForkKeepsTable
<1>6. CASE number = "kill"  BY <1>6, KillKeepsTable
<1>7. CASE number = "other"
  BY <1>7, OthersKeepTable DEF TableInv, SyscallsTypeOK, files
<1> QED
  BY <1>1, <1>2, <1>3, <1>4, <1>5, <1>6, <1>7

LEMMA TableStepKeeps ==
  ASSUME TableInv, [SyscallsNext]_sysVars
  PROVE  TableInv'
<1>1. CASE SyscallsNext
  BY <1>1, CallKeepsTable DEF SyscallsNext
<1>2. CASE UNCHANGED sysVars
  BY <1>2 DEF TableInv, SyscallsTypeOK, SlotsInOrder, PidsGivenOut,
              StrayForkNeedsKill, sysVars
<1> QED
  BY <1>1, <1>2

\* fork leaves the process table only after a process was killed, and no two
\* slots have the same process, whatever is called in whatever order.
THEOREM ForkStaysInside == SyscallsSpec => []StrayForkNeedsKill
<1>1. TableInv => StrayForkNeedsKill
  BY DEF TableInv
<1> QED
  BY TableInit, TableStepKeeps, <1>1, PTL DEF SyscallsSpec

-----------------------------------------------------------------------------
(***************************************************************************)
(* The palette for every number of entries, size of the screen and picture. *)
(***************************************************************************)

PictureTypes ==
  /\ palette = [i \in Entry |-> [colour |-> palette[i].colour,
                                 used |-> palette[i].used]]
  /\ \A i \in Entry : palette[i].used \in Nat
  /\ DOMAIN dac = Entry /\ DOMAIN drawn = Cell /\ DOMAIN vidmem = Cell
  /\ evicted \in BOOLEAN

\* A pixel refers to an entry that is in use, which is why the colour of an
\* unused entry can be set without touching the picture.
PixelsRefer ==
  ~evicted =>
    \A c \in Cell : drawn[c] # -1 =>
      /\ vidmem[c] \in Entry /\ palette[vidmem[c]].used > 0
      /\ dac[vidmem[c]] = drawn[c]

\* display starts with a screen nobody has drawn on.
NothingDrawn == phase = "text" => \A c \in Cell : drawn[c] = -1

PaletteInv == PictureTypes /\ PaletteInStep /\ PixelsRefer /\ NothingDrawn

LEMMA PaletteStarts == PictureInit => PaletteInv
<1> SUFFICES ASSUME PictureInit PROVE PaletteInv
  OBVIOUS
<1>1. \A i \in Entry : palette[i] = [colour |-> 0, used |-> 0]
  BY DEF PictureInit
<1>2. \A i \in Entry : palette[i].colour = 0 /\ palette[i].used = 0
  BY <1>1
<1>3. palette = [i \in Entry |-> [colour |-> palette[i].colour,
                                  used |-> palette[i].used]]
  BY <1>2 DEF PictureInit
<1>4. /\ DOMAIN dac = Entry /\ DOMAIN vidmem = Cell /\ DOMAIN drawn = Cell
      /\ \A c \in Cell : drawn[c] = -1
  BY DEF PictureInit
<1>5. PictureTypes
  BY <1>2, <1>3, <1>4, Zenon DEF PictureInit, PictureTypes
<1>6. PaletteInStep
  BY <1>2 DEF PaletteInStep
<1> QED
  BY <1>4, <1>5, <1>6 DEF PaletteInv, PixelsRefer, NothingDrawn

\* A pixel is drawn.
LEMMA DrawKeepsPalette ==
  ASSUME PaletteInv, phase # "text", phase' # "text",
         NEW x, NEW y, NEW colour, DrawPixel(x, y, colour)
  PROVE  PaletteInv'
<1> DEFINE s == Shade(colour)
           p == <<x, y>>
<1>1. CASE p \notin Cell
  BY <1>1 DEF DrawPixel, PaletteInv, PictureTypes, PaletteInStep, PixelsRefer,
              NothingDrawn
<1>2. CASE p \in Cell
  <2>1. PICK i \in Entry :
          /\ ColourIndex(s, i)
          /\ IF i \in Exact(s)
             THEN /\ palette' = [palette EXCEPT ![i].used = @ + 1]
                  /\ UNCHANGED <<dac, evicted>>
             ELSE /\ palette' = [palette EXCEPT ![i] =
                                   [colour |-> s, used |-> 1]]
                  /\ dac' = [dac EXCEPT ![i] = s]
                  /\ evicted' = (evicted \/ palette[i].used > 0)
          /\ vidmem' = [vidmem EXCEPT ![p] = i]
          /\ drawn' = [drawn EXCEPT ![p] = s]
    BY <1>2 DEF DrawPixel
  <2>2. /\ vidmem'[p] = i /\ drawn'[p] = s
        /\ DOMAIN vidmem' = Cell /\ DOMAIN drawn' = Cell
        /\ \A c \in Cell \ {p} : /\ vidmem'[c] = vidmem[c]
                                 /\ drawn'[c] = drawn[c]
    BY <1>2, <2>1 DEF PaletteInv, PictureTypes
  <2>3. CASE i \in Exact(s)
    <3>1. /\ palette' = [palette EXCEPT ![i].used = @ + 1]
          /\ UNCHANGED <<dac, evicted>>
      BY <2>1, <2>3
    <3>2. /\ \A j \in Entry : /\ palette'[j].colour = palette[j].colour
                              /\ palette'[j].used =
                                   palette[j].used + (IF j = i THEN 1 ELSE 0)
          /\ palette' = [j \in Entry |-> [colour |-> palette'[j].colour,
                                          used |-> palette'[j].used]]
      BY <3>1 DEF PaletteInv, PictureTypes
    <3>3. palette[i].used > 0 /\ palette[i].colour = s
      BY <2>3 DEF Exact
    <3>4. PictureTypes'
      BY <2>2, <3>1, <3>2 DEF PaletteInv, PictureTypes
    <3>5. PaletteInStep'
      BY <3>1, <3>2, <3>3 DEF PaletteInv, PaletteInStep, PictureTypes
    <3>6. ASSUME ~evicted', NEW c \in Cell, drawn'[c] # -1
          PROVE  /\ vidmem'[c] \in Entry /\ palette'[vidmem'[c]].used > 0
                 /\ dac'[vidmem'[c]] = drawn'[c]
      <4>1. CASE c = p
        <5>1. dac[i] = s
          BY <3>3 DEF PaletteInv, PaletteInStep
        <5>2. palette'[i].used > 0
          BY <3>2, <3>3 DEF PaletteInv, PictureTypes
        <5> QED
          BY <2>2, <3>1, <4>1, <5>1, <5>2
      <4>2. CASE c # p
        <5>1. /\ vidmem[c] \in Entry /\ palette[vidmem[c]].used > 0
              /\ dac[vidmem[c]] = drawn[c]
          BY <2>2, <3>1, <3>6, <4>2 DEF PaletteInv, PixelsRefer
        <5>2. palette'[vidmem[c]].used > 0
          BY <3>2, <5>1 DEF PaletteInv, PictureTypes
        <5> QED
          BY <2>2, <3>1, <4>2, <5>1, <5>2
      <4> QED
        BY <4>1, <4>2
    <3> QED
      BY <3>4, <3>5, <3>6 DEF PaletteInv, PixelsRefer, NothingDrawn
  <2>4. CASE i \notin Exact(s)
    <3>1. /\ palette' = [palette EXCEPT ![i] = [colour |-> s, used |-> 1]]
          /\ dac' = [dac EXCEPT ![i] = s]
          /\ evicted' = (evicted \/ palette[i].used > 0)
      BY <2>1, <2>4
    <3>2. Exact(s) = {}
      BY <2>1, <2>4 DEF ColourIndex, IsFirst
    <3>3. /\ palette'[i].colour = s /\ palette'[i].used = 1
          /\ \A j \in Entry \ {i} : palette'[j] = palette[j]
          /\ palette' = [j \in Entry |-> [colour |-> palette'[j].colour,
                                          used |-> palette'[j].used]]
      BY <3>1 DEF PaletteInv, PictureTypes
    <3>4. /\ dac'[i] = s /\ DOMAIN dac' = Entry
          /\ \A j \in Entry \ {i} : dac'[j] = dac[j]
      BY <3>1 DEF PaletteInv, PictureTypes
    <3>5. PictureTypes'
      BY <2>2, <3>1, <3>3, <3>4 DEF PaletteInv, PictureTypes
    <3>6. PaletteInStep'
      BY <3>2, <3>3, <3>4 DEF PaletteInv, PaletteInStep, Exact
    <3>7. ASSUME ~evicted', NEW c \in Cell, drawn'[c] # -1
          PROVE  /\ vidmem'[c] \in Entry /\ palette'[vidmem'[c]].used > 0
                 /\ dac'[vidmem'[c]] = drawn'[c]
      <4>1. CASE c = p
        BY <2>2, <3>3, <3>4, <4>1
      <4>2. CASE c # p
        <5>1. ~evicted /\ ~(palette[i].used > 0)
          BY <3>1, <3>7
        <5>2. /\ vidmem[c] \in Entry /\ palette[vidmem[c]].used > 0
              /\ dac[vidmem[c]] = drawn[c]
          BY <2>2, <3>7, <4>2, <5>1 DEF PaletteInv, PixelsRefer
        <5> QED
          BY <2>2, <3>3, <3>4, <4>2, <5>1, <5>2
      <4> QED
        BY <4>1, <4>2
    <3> QED
      BY <3>5, <3>6, <3>7 DEF PaletteInv, PixelsRefer, NothingDrawn
  <2> QED
    BY <2>3, <2>4
<1> QED
  BY <1>1, <1>2

\* Steps that draw nothing.
LEMMA OthersKeepPalette ==
  ASSUME PaletteInv, UNCHANGED <<palette, dac, vidmem, drawn, evicted>>,
         phase' = "text" => phase = "text"
  PROVE  PaletteInv'
  BY DEF PaletteInv, PictureTypes, PaletteInStep, PixelsRefer, NothingDrawn

LEMMA PictureKeepsPalette ==
  ASSUME PaletteInv, [PictureNext]_pictureVars
  PROVE  PaletteInv'
<1>1. CASE \E picture \in Pictures : Display(picture)
  BY <1>1 DEF Display, PaletteInv, PictureTypes, PaletteInStep, PixelsRefer,
              NothingDrawn
<1>2. CASE ClearScreen
  <2> DEFINE undrawn == {c \in Cell : drawn[c] = -1}
             next == CHOOSE c \in undrawn :
                       \A d \in undrawn :
                         c[1] * Height + c[2] <= d[1] * Height + d[2]
  <2>1. CASE undrawn = {}
    BY <1>2, <2>1, OthersKeepPalette DEF ClearScreen
  <2>2. CASE undrawn # {}
    <3>1. DrawPixel(next[1], next[2], 0) /\ phase = "clear" /\ phase' = phase
      BY <1>2, <2>2 DEF ClearScreen
    <3> QED
      BY <3>1, DrawKeepsPalette
  <2> QED
    BY <2>1, <2>2
<1>3. CASE ReadSector
  BY <1>3, OthersKeepPalette DEF ReadSector
<1>4. CASE ParseChar
  <2>1. phase = "parse" /\ phase' # "text"
    BY <1>4 DEF ParseChar
  <2>2. CASE file[pos + 1] = "}"
    BY <1>4, <2>1, <2>2, DrawKeepsPalette DEF ParseChar
  <2>3. CASE file[pos + 1] # "}"
    BY <1>4, <2>1, <2>3, OthersKeepPalette DEF ParseChar
  <2> QED
    BY <2>2, <2>3
<1>5. CASE Reboot
  <2>1. \A i \in Entry : palette'[i] = [colour |-> 0, used |-> 0]
    BY <1>5 DEF Reboot
  <2>2. \A i \in Entry : palette'[i].colour = 0 /\ palette'[i].used = 0
    BY <2>1
  <2>3. palette' = [i \in Entry |-> [colour |-> palette'[i].colour,
                                     used |-> palette'[i].used]]
    BY <1>5, <2>2 DEF Reboot
  <2>4. /\ DOMAIN dac' = Entry /\ DOMAIN vidmem' = Cell
        /\ DOMAIN drawn' = Cell /\ \A c \in Cell : drawn'[c] = -1
    BY <1>5 DEF Reboot
  <2>5. PictureTypes'
    BY <1>5, <2>2, <2>3, <2>4, Zenon DEF Reboot, PictureTypes
  <2>6. PaletteInStep'
    BY <2>2 DEF PaletteInStep
  <2> QED
    BY <2>4, <2>5, <2>6 DEF PaletteInv, PixelsRefer, NothingDrawn
<1>6. CASE UNCHANGED pictureVars
  BY <1>6, OthersKeepPalette DEF pictureVars
<1> QED
  BY <1>1, <1>2, <1>3, <1>4, <1>5, <1>6 DEF PictureNext

\* The entry that is given up is the least used one, as long as the count of
\* the first fits into min_used.
LEMMA VictimIsLeast ==
  ASSUME PaletteInv, palette[First].used < Range16,
         NEW i \in Replaceable, NEW j \in Replaceable, Victim(i)
  PROVE  palette[i].used <= palette[j].used
<1>1. /\ First \in Entry /\ palette[First].used \in Nat
      /\ i \in Entry /\ j \in Entry
      /\ palette[i].used \in Nat /\ palette[j].used \in Nat
  BY PaletteAssumption DEF PaletteInv, PictureTypes, Entry, Replaceable
<1>2. palette[First].used % Range16 = palette[First].used
  BY <1>1, PaletteAssumption
<1> QED
  BY <1>1, <1>2 DEF Victim, IsLeast

LEMMA InvKeepsColours == PaletteInv => ColoursKept
<1> SUFFICES ASSUME PaletteInv PROVE ColoursKept
  OBVIOUS
<1>1. palette[First].used < Range16 =>
        \A i, j \in Replaceable :
          Victim(i) => palette[i].used <= palette[j].used
  BY VictimIsLeast
<1> QED
  BY <1>1 DEF PaletteInv, PixelsRefer, ColoursKept

\* Colours: as long as no entry is given up every pixel keeps the colour it was
\* drawn with, and the one given up is the least used.
THEOREM PixelsKeepColours == PictureSpec => []ColoursKept
  BY PaletteStarts, PictureKeepsPalette, InvKeepsColours, PTL DEF PictureSpec
-----------------------------------------------------------------------------
(***************************************************************************)
(* The calculator: a loop over a line, character by character.             *)
(***************************************************************************)
LEMMA LeastNumber ==
  ASSUME NEW S, S \subseteq Nat, S # {}
  PROVE  \E m \in S : \A n \in S : m <= n
<1> DEFINE R == OpToRel(<, Nat)
<1>1. IsWellFoundedOn(R, Nat)
  BY NatLessThanWellFounded
<1>2. \A m, n \in Nat : m < n => <<m, n>> \in R
  BY DEF OpToRel
<1> HIDE DEF R
<1>3. PICK m \in S : \A n \in S : ~ (<<n, m>> \in R)
  BY <1>1, WFMin
<1>4. ASSUME NEW n \in S PROVE m <= n
  <2>1. m \in Nat /\ n \in Nat
    OBVIOUS
  <2>2. ~ (n < m)
    BY <1>2, <1>3, <2>1
  <2> QED BY <2>1, <2>2
<1> QED BY <1>4

\* A set of positions has a last one.
LEMMA LastPosition ==
  ASSUME NEW m \in Nat, NEW t \in SUBSET (0 .. m), t # {}
  PROVE  \E i \in t : \A j \in t : i >= j
<1> DEFINE U == {u \in Nat : \A j \in t : j <= u}
<1>1. m \in U
  OBVIOUS
<1>2. PICK u \in U : \A v \in U : u <= v
  <2>1. U \subseteq Nat /\ U # {}
    BY <1>1
  <2> HIDE DEF U
  <2> QED BY <2>1, LeastNumber
<1>3. u \in Nat /\ \A j \in t : j <= u
  BY <1>2
<1>4. u \in t
  <2> SUFFICES ASSUME u \notin t PROVE FALSE
    OBVIOUS
  <2>1. ASSUME NEW j \in t PROVE j \in Nat /\ j <= u - 1
    BY <1>3
  <2>2. u # 0
    <3>1. PICK j \in t : TRUE
      OBVIOUS
    <3> QED BY <1>3, <2>1, <3>1
  <2>3. u - 1 \in U
    BY <1>3, <2>1, <2>2
  <2> QED BY <1>2, <1>3, <2>3
<1> QED BY <1>3, <1>4

LEMMA MaxPosition ==
  ASSUME NEW m \in Nat, NEW t \in SUBSET (1 .. m), t # {}
  PROVE  /\ Max(t) \in t /\ \A j \in t : Max(t) >= j
         /\ m \in t => Max(t) = m
<1>1. Max(t) \in t /\ \A j \in t : Max(t) >= j
  <2>1. t \in SUBSET (0 .. m)
    OBVIOUS
  <2> QED BY <2>1, LastPosition DEF Max
<1>2. ASSUME m \in t PROVE Max(t) = m
  <2>1. Max(t) \in 1 .. m /\ Max(t) >= m
    BY <1>1, <1>2
  <2> QED BY <2>1
<1> QED BY <1>1, <1>2

\* The loops over a sequence: of evaluate_expression, over the digits that its
\* answer is compared with, and of convert_to_int.
Loop == {"scan", "add", "convert"}
Start(loop) == IF loop = "scan" THEN NewLine ELSE 0
Once(loop, a, c) ==
  IF loop = "scan" THEN Scan(a, c)
  ELSE IF loop = "add" THEN AddDigit(a, c) ELSE 10 * a + c

\* FoldLeft recurses over sets of positions.
FoldRow(loop, s, t, it) ==
  IF t = {} THEN Start(loop) ELSE Once(loop, it[t \ {Max(t)}], s[Max(t)])
IsFold(loop, s, m, f) ==
  f = [t \in SUBSET (1 .. m) |-> FoldRow(loop, s, t, f)]

LEMMA FoldExists ==
  ASSUME NEW loop, NEW s, NEW m \in Nat
  PROVE  \E f : IsFold(loop, s, m, f)
<1> DEFINE Is(f, k) == f = [t \in SUBSET (1 .. k) |-> FoldRow(loop, s, t, f)]
           Bad == {k \in Nat : \A f : ~Is(f, k)}
<1>1. ASSUME Bad # {} PROVE FALSE
  <2>1. Bad \subseteq Nat
    OBVIOUS
  <2> HIDE DEF Bad
  <2>2. PICK k \in Bad : \A n \in Bad : k <= n
    BY <1>1, <2>1, LeastNumber
  <2>3. k \in Nat /\ \A f : ~Is(f, k)
    BY <2>2 DEF Bad
  <2>4. CASE k = 0
    <3> DEFINE g == [t \in SUBSET (1 .. 0) |-> FoldRow(loop, s, {}, 0)]
    <3>1. SUBSET (1 .. 0) = {{}}
      OBVIOUS
    <3>2. \A f : FoldRow(loop, s, {}, f) = FoldRow(loop, s, {}, 0)
      BY DEF FoldRow
    <3> HIDE DEF FoldRow
    <3>3. g = [t \in SUBSET (1 .. 0) |-> FoldRow(loop, s, t, g)]
      BY <3>1, <3>2
    <3> HIDE DEF g
    <3> QED BY <2>3, <2>4, <3>3
  <2>5. CASE k # 0
    <3>1. k - 1 \in Nat /\ ~(k <= k - 1)
      BY <2>3, <2>5
    <3>2. k - 1 \notin Bad
      BY <2>2, <3>1
    <3>3. PICK f : Is(f, k - 1)
      <4> HIDE DEF Is
      <4> QED BY <3>1, <3>2 DEF Bad
    <3> DEFINE g == [t \in SUBSET (1 .. k) |->
                       IF k \in t THEN Once(loop, f[t \ {k}], s[k]) ELSE f[t]]
    <3>4. ASSUME NEW t \in SUBSET (1 .. k) PROVE g[t] = FoldRow(loop, s, t, g)
      <4>1. CASE k \in t
        <5>1. Max(t) = k /\ t # {}
          BY <2>3, <4>1, MaxPosition
        <5>2. t \ {k} \in SUBSET (1 .. k) /\ k \notin t \ {k}
          OBVIOUS
        <5>3. g[t \ {k}] = f[t \ {k}]
          BY <5>2
        <5>4. g[t] = Once(loop, f[t \ {k}], s[k])
          BY <4>1
        <5> HIDE DEF g
        <5> QED BY <5>1, <5>3, <5>4 DEF FoldRow
      <4>2. CASE k \notin t
        <5>1. t \in SUBSET (1 .. k - 1)
          BY <2>3, <4>2
        <5>2. g[t] = f[t] /\ f[t] = FoldRow(loop, s, t, f)
          BY <3>3, <4>2, <5>1
        <5>3. ASSUME t # {} PROVE g[t \ {Max(t)}] = f[t \ {Max(t)}]
          <6>1. t \ {Max(t)} \in SUBSET (1 .. k) /\ k \notin t \ {Max(t)}
            BY <4>2
          <6> QED BY <6>1
        <5> HIDE DEF g
        <5> QED BY <5>2, <5>3 DEF FoldRow
      <4> QED BY <4>1, <4>2
    <3>5. g = [t \in SUBSET (1 .. k) |-> g[t]]
      OBVIOUS
    <3> HIDE DEF g
    <3>6. Is(g, k)
      BY <3>4, <3>5
    <3> HIDE DEF Is
    <3> QED BY <2>3, <3>6
  <2> QED BY <2>4, <2>5
<1> QED BY <1>1 DEF IsFold

\* r is what the loop has computed before each character of s, and behind the
\* last one.
Trace(loop, s, r) ==
  /\ r[0] = Start(loop)
  /\ \A k \in 1 .. Len(s) : r[k] = Once(loop, r[k - 1], s[k])

LEMMA FoldTrace ==
  ASSUME NEW loop, NEW S, NEW s \in Seq(S), NEW it,
         IsFold(loop, s, Len(s), it)
  PROVE  \E r : Trace(loop, s, r) /\ r[Len(s)] = it[1 .. Len(s)]
<1> DEFINE n == Len(s)
           r == [k \in 0 .. n |-> it[1 .. k]]
<1>1. n \in Nat
  BY LenProperties
<1>2. it = [t \in SUBSET (1 .. n) |-> FoldRow(loop, s, t, it)]
  BY DEF IsFold
<1> HIDE DEF n
<1>3. r[0] = Start(loop)
  <2>1. 0 \in 0 .. n /\ {} \in SUBSET (1 .. n) /\ 1 .. 0 = {}
    BY <1>1
  <2>2. it[{}] = FoldRow(loop, s, {}, it)
    BY <1>2, <2>1
  <2> QED BY <2>1, <2>2 DEF FoldRow
<1>4. r[n] = it[1 .. n]
  BY <1>1
<1>5. ASSUME NEW k \in 1 .. n PROVE r[k] = Once(loop, r[k - 1], s[k])
  <2>1. /\ k \in 0 .. n /\ k - 1 \in 0 .. n /\ k \in Nat
        /\ 1 .. k \in SUBSET (1 .. n) /\ k \in 1 .. k
    BY <1>1
  <2>2. (1 .. k) \ {k} = 1 .. (k - 1)
    BY <2>1
  <2>3. Max(1 .. k) = k
    BY <2>1, MaxPosition
  <2>4. it[1 .. k] = FoldRow(loop, s, 1 .. k, it) /\ 1 .. k # {}
    BY <1>2, <2>1
  <2>5. it[1 .. k] = Once(loop, it[1 .. (k - 1)], s[k])
    BY <2>2, <2>3, <2>4 DEF FoldRow
  <2> QED BY <2>1, <2>5
<1> HIDE DEF r
<1> QED BY <1>3, <1>4, <1>5 DEF Trace, n

LEMMA ScanTrace ==
  ASSUME NEW S, NEW s \in Seq(S)
  PROVE  \E r : Trace("scan", s, r) /\ r[Len(s)] = FoldLeft(Scan, NewLine, s)
<1> DEFINE Row(t, f) == IF t = {} THEN NewLine ELSE Scan(f[t \ {Max(t)}], s[Max(t)])
           it == CHOOSE f : f = [t \in SUBSET DOMAIN s |-> Row(t, f)]
<1>1. Len(s) \in Nat /\ DOMAIN s = 1 .. Len(s)
  BY LenProperties
<1>2. FoldLeft(Scan, NewLine, s) = it[DOMAIN s]
  BY Zenon DEF FoldLeft, MapThenFoldSet
<1>3. \A t, f : Row(t, f) = FoldRow("scan", s, t, f)
  BY DEF FoldRow, Start, Once
<1> HIDE DEF Row
<1>4. it = [t \in SUBSET DOMAIN s |-> Row(t, it)]
  <2>1. PICK f : IsFold("scan", s, Len(s), f)
    BY <1>1, FoldExists
  <2>2. f = [t \in SUBSET DOMAIN s |-> Row(t, f)]
    BY <1>1, <1>3, <2>1 DEF IsFold
  <2> QED BY <2>2, Zenon
<1> HIDE DEF it
<1>5. IsFold("scan", s, Len(s), it)
  BY <1>1, <1>3, <1>4 DEF IsFold
<1>6. PICK r : Trace("scan", s, r) /\ r[Len(s)] = it[1 .. Len(s)]
  BY <1>5, FoldTrace
<1> QED BY <1>1, <1>2, <1>6

LEMMA AddTrace ==
  ASSUME NEW S, NEW s \in Seq(S)
  PROVE  \E r : Trace("add", s, r) /\ r[Len(s)] = FoldLeft(AddDigit, 0, s)
<1> DEFINE Row(t, f) == IF t = {} THEN 0 ELSE AddDigit(f[t \ {Max(t)}], s[Max(t)])
           it == CHOOSE f : f = [t \in SUBSET DOMAIN s |-> Row(t, f)]
<1>1. Len(s) \in Nat /\ DOMAIN s = 1 .. Len(s)
  BY LenProperties
<1>2. FoldLeft(AddDigit, 0, s) = it[DOMAIN s]
  BY Zenon DEF FoldLeft, MapThenFoldSet
<1>3. \A t, f : Row(t, f) = FoldRow("add", s, t, f)
  BY DEF FoldRow, Start, Once
<1> HIDE DEF Row
<1>4. it = [t \in SUBSET DOMAIN s |-> Row(t, it)]
  <2>1. PICK f : IsFold("add", s, Len(s), f)
    BY <1>1, FoldExists
  <2>2. f = [t \in SUBSET DOMAIN s |-> Row(t, f)]
    BY <1>1, <1>3, <2>1 DEF IsFold
  <2> QED BY <2>2, Zenon
<1> HIDE DEF it
<1>5. IsFold("add", s, Len(s), it)
  BY <1>1, <1>3, <1>4 DEF IsFold
<1>6. PICK r : Trace("add", s, r) /\ r[Len(s)] = it[1 .. Len(s)]
  BY <1>5, FoldTrace
<1> QED BY <1>1, <1>2, <1>6

LEMMA ConvertTrace ==
  ASSUME NEW S, NEW s \in Seq(S)
  PROVE  \E r : Trace("convert", s, r) /\ r[Len(s)] = ConvertToInt(s)
<1> DEFINE Row(t, f) == IF t = {} THEN 0 ELSE 10 * f[t \ {Max(t)}] + s[Max(t)]
           it == CHOOSE f : f = [t \in SUBSET DOMAIN s |-> Row(t, f)]
<1>1. Len(s) \in Nat /\ DOMAIN s = 1 .. Len(s)
  BY LenProperties
<1>2. ConvertToInt(s) = it[DOMAIN s]
  BY Zenon DEF ConvertToInt, FoldLeft, MapThenFoldSet
<1>3. \A t, f : Row(t, f) = FoldRow("convert", s, t, f)
  BY DEF FoldRow, Start, Once
<1> HIDE DEF Row
<1>4. it = [t \in SUBSET DOMAIN s |-> Row(t, it)]
  <2>1. PICK f : IsFold("convert", s, Len(s), f)
    BY <1>1, FoldExists
  <2>2. f = [t \in SUBSET DOMAIN s |-> Row(t, f)]
    BY <1>1, <1>3, <2>1 DEF IsFold
  <2> QED BY <2>2, Zenon
<1> HIDE DEF it
<1>5. IsFold("convert", s, Len(s), it)
  BY <1>1, <1>3, <1>4 DEF IsFold
<1>6. PICK r : Trace("convert", s, r) /\ r[Len(s)] = it[1 .. Len(s)]
  BY <1>5, FoldTrace
<1> QED BY <1>1, <1>2, <1>6

\* The loop computes the same over what two lines have in common.
LEMMA SameTrace ==
  ASSUME NEW loop, NEW s, NEW q, NEW r, NEW u, NEW m \in Nat,
         Trace(loop, s, r), Trace(loop, q, u),
         m <= Len(s), m <= Len(q), Len(s) \in Nat, Len(q) \in Nat,
         \A k \in 1 .. m : s[k] = q[k]
  PROVE  \A k \in 0 .. m : r[k] = u[k]
<1> DEFINE Bad == {k \in Nat : k <= m /\ r[k] # u[k]}
<1>1. ASSUME Bad # {} PROVE FALSE
  <2>1. Bad \subseteq Nat
    OBVIOUS
  <2>2. PICK k \in Bad : \A n \in Bad : k <= n
    <3> HIDE DEF Bad
    <3> QED BY <1>1, <2>1, LeastNumber
  <2>3. k \in Nat /\ k <= m /\ r[k] # u[k]
    BY <2>2
  <2>4. k # 0
    BY <2>3 DEF Trace
  <2>5. k - 1 \in Nat /\ k - 1 <= m /\ ~(k <= k - 1) /\ k \in 1 .. m
    BY <2>3, <2>4
  <2>6. r[k - 1] = u[k - 1]
    BY <2>2, <2>5
  <2>7. k \in 1 .. Len(s) /\ k \in 1 .. Len(q)
    BY <2>5
  <2>8. r[k] = Once(loop, r[k - 1], s[k]) /\ u[k] = Once(loop, u[k - 1], q[k])
    BY <2>7 DEF Trace
  <2> QED BY <2>3, <2>5, <2>6, <2>8
<1>2. ASSUME NEW k \in 0 .. m, r[k] # u[k] PROVE FALSE
  <2>1. k \in Bad
    BY <1>2
  <2> QED BY <1>1, <2>1
<1> QED BY <1>2

-----------------------------------------------------------------------------
(***************************************************************************)
(* The calculator's numbers: it makes no difference whether they are       *)
(* wrapped around after every digit or once at the end.                    *)
(***************************************************************************)
LEMMA Remainder ==
  ASSUME NEW w \in Nat \ {0}, NEW a \in Int
  PROVE  /\ a % w \in 0 .. w - 1 /\ a \div w \in Int
         /\ a = w * (a \div w) + (a % w)
OBVIOUS

LEMMA OneQuotient ==
  ASSUME NEW w \in Nat \ {0}, NEW z \in Int, NEW r \in 0 .. w - 1,
         NEW t \in 0 .. w - 1, w * z + r = t
  PROVE  r = t
<1>1. w * z \in Int
  OBVIOUS
<1>2. w * z < w /\ -w < w * z
  BY <1>1
<1>3. z >= 1 => w * z >= w
  OBVIOUS
<1>4. z <= -1 => w * z <= -w
  OBVIOUS
<1>5. z = 0
  BY <1>1, <1>2, <1>3, <1>4
<1>6. w * z = 0
  BY <1>5
<1> QED BY <1>6

LEMMA SameRemainder ==
  ASSUME NEW w \in Nat \ {0}, NEW a \in Int, NEW b \in Int, NEW k \in Int,
         a = b + w * k
  PROVE  a % w = b % w
<1> DEFINE p == a \div w
           q == b \div w
           r == a % w
           t == b % w
<1>1. r \in 0 .. w - 1 /\ p \in Int /\ a = w * p + r
  BY Remainder
<1>2. t \in 0 .. w - 1 /\ q \in Int /\ b = w * q + t
  BY Remainder
<1> HIDE DEF p, q, r, t
<1>3. w * p + r = (w * q + t) + w * k
  BY <1>1, <1>2
<1>4. w * p \in Int /\ w * q \in Int /\ w * k \in Int
  BY <1>1, <1>2
<1>5. w * ((p - q) - k) = (w * p - w * q) - w * k
  BY <1>1, <1>2
<1>6. w * ((p - q) - k) + r = t
  BY <1>1, <1>2, <1>3, <1>4, <1>5
<1>7. r = t
  <2> DEFINE z == (p - q) - k
  <2>1. z \in Int /\ w * z + r = t
    BY <1>1, <1>2, <1>6
  <2> HIDE DEF z
  <2> QED BY <1>1, <1>2, <2>1, OneQuotient
<1> QED BY <1>7 DEF r, t

LEMMA WrapOnce ==
  ASSUME NEW n \in Int, NEW d \in Int
  PROVE  /\ Wrap(n) \in Int /\ Wrap(0) = 0
         /\ Wrap(Wrap(n)) = Wrap(n)
         /\ Wrap(10 * Wrap(n) + d) = Wrap(10 * n + d)
<1> DEFINE h == 2 ^ (IntBits - 1)
           w == 2 ^ IntBits
           k == (n + h) \div w
<1>1. h \in Nat \ {0} /\ w \in Nat \ {0} /\ w = 2 * h
  BY CalcAssumption
<1>2. \A a \in Int : Wrap(a) = ((a + h) % w) - h
  <2>1. IntMin = -h
    BY DEF IntMin
  <2> HIDE DEF h, w
  <2>2. \A a \in Int : a - (-h) = a + h
    BY <1>1
  <2>3. \A a \in Int : Wrap(a) = ((a - (-h)) % w) + (-h)
    BY <2>1 DEF Wrap, w
  <2>4. \A a \in Int : (a + h) % w \in Int
    BY <1>1
  <2> QED BY <1>1, <2>2, <2>3, <2>4
<1> HIDE DEF h, w
<1>3. k \in Int /\ (n + h) % w \in 0 .. w - 1 /\ n + h = w * k + ((n + h) % w)
  <2>1. n + h \in Int /\ w \in Nat \ {0}
    BY <1>1
  <2> HIDE DEF h, w
  <2> QED BY <2>1, Remainder
<1> HIDE DEF k
<1>4. Wrap(n) \in Int /\ Wrap(n) + h \in 0 .. w - 1 /\ Wrap(n) = n - w * k
  <2>1. (n + h) % w \in Int /\ w * k \in Int
    BY <1>1, <1>3
  <2>2. Wrap(n) = ((n + h) % w) - h
    BY <1>2
  <2> QED BY <1>1, <1>3, <2>1, <2>2
<1>5. \A a \in 0 .. w - 1 : a % w = a
  BY <1>1
<1>6. Wrap(0) = 0
  <2>1. h % w = h /\ 0 + h = h
    BY <1>1, <1>5
  <2> QED BY <1>1, <1>2, <2>1
<1>7. Wrap(Wrap(n)) = Wrap(n)
  <2>1. (Wrap(n) + h) % w = Wrap(n) + h
    BY <1>4, <1>5
  <2> QED BY <1>1, <1>2, <1>4, <2>1
<1>8. Wrap(10 * Wrap(n) + d) = Wrap(10 * n + d)
  <2> DEFINE a == 10 * Wrap(n) + d + h
             b == 10 * n + d + h
             j == -10 * k
  <2>1. a \in Int /\ b \in Int /\ j \in Int
    BY <1>1, <1>3, <1>4
  <2>2. w * j = -10 * (w * k)
    BY <1>1, <1>3
  <2>3. w * k \in Int
    BY <1>1, <1>3
  <2>4. a = b + w * j
    BY <1>1, <1>4, <2>2, <2>3
  <2>5. /\ 10 * Wrap(n) + d \in Int /\ 10 * n + d \in Int
        /\ Wrap(10 * Wrap(n) + d) = (a % w) - h
        /\ Wrap(10 * n + d) = (b % w) - h
    BY <1>2, <1>4
  <2> HIDE DEF a, b, j
  <2>6. a % w = b % w
    BY <1>1, <2>1, <2>4, SameRemainder
  <2> QED BY <2>5, <2>6
<1> QED BY <1>4, <1>6, <1>7, <1>8

-----------------------------------------------------------------------------
(***************************************************************************)
(* The loop of evaluate_expression, from one operator to the next.         *)
(***************************************************************************)
Ending == {"ok", "zero", "trap"}
LoopState == [result : Int, number : Int, operator : Operator, status : Ending]

LEMMA ApplyTypes ==
  ASSUME NEW r \in Int, NEW op \in Operator, NEW n \in Int
  PROVE  /\ Apply(r, op, n).value \in Int /\ Apply(r, op, n).status \in Ending
         /\ Apply(r, op, n) = [value |-> Apply(r, op, n).value,
                               status |-> Apply(r, op, n).status]
         /\ Apply(r, op, n).status # "ok" => Apply(r, op, n).value = 0
<1>1. Wrap(r + n) \in Int /\ Wrap(r - n) \in Int /\ Wrap(r * n) \in Int
  <2>1. r + n \in Int /\ r - n \in Int /\ r * n \in Int
    OBVIOUS
  <2> QED BY <2>1, WrapOnce
<1>2. ASSUME n # 0 PROVE Quotient(r, n) \in Int
  <2>1. Abs(n) \in Nat \ {0} /\ Abs(r) \in Int
    BY <1>2 DEF Abs
  <2>2. Abs(r) \div Abs(n) \in Int
    BY <2>1
  <2> QED BY <2>2 DEF Quotient
<1>3. CASE op = "+"
  BY <1>1, <1>3 DEF Apply, Ending
<1>4. CASE op = "-"
  BY <1>1, <1>4 DEF Apply, Ending
<1>5. CASE op = "*"
  BY <1>1, <1>5 DEF Apply, Ending
<1>6. CASE op = "/"
  BY <1>2, <1>6 DEF Apply, Ending
<1> QED BY <1>3, <1>4, <1>5, <1>6 DEF Operator

LEMMA DigitValue ==
  ASSUME NEW c \in Digit
  PROVE  Digits[c] \in Nat /\ c \notin Operator
BY CalcAssumption

LEMMA ScanTypes ==
  ASSUME NEW s \in LoopState, NEW c
  PROVE  Scan(s, c) \in LoopState
<1>1. CASE s.status # "ok"
  BY <1>1 DEF Scan
<1>2. CASE s.status = "ok" /\ c \in Digit
  <2>1. s.number \in Int /\ Digits[c] \in Nat
    BY <1>2, DigitValue DEF LoopState
  <2>2. 10 * s.number + Digits[c] \in Int
    BY <2>1
  <2>3. Wrap(10 * s.number + Digits[c]) \in Int
    BY <2>2, WrapOnce
  <2>4. Scan(s, c) = [s EXCEPT !.number = Wrap(10 * s.number + Digits[c])]
    BY <1>2 DEF Scan
  <2> QED BY <2>3, <2>4 DEF LoopState
<1>3. CASE s.status = "ok" /\ c \notin Digit /\ c \in Operator
  <2> DEFINE a == Apply(s.result, s.operator, s.number)
  <2>1. a.value \in Int /\ a.status \in Ending
    BY ApplyTypes DEF LoopState
  <2> HIDE DEF a
  <2>2. Scan(s, c) = [result |-> a.value, number |-> 0, operator |-> c,
                      status |-> a.status]
    BY <1>3 DEF Scan, a
  <2> QED BY <1>3, <2>1, <2>2 DEF LoopState
<1>4. CASE s.status = "ok" /\ c \notin Digit /\ c \notin Operator
  BY <1>4 DEF Scan
<1> QED BY <1>1, <1>2, <1>3, <1>4

LEMMA TraceTypes ==
  ASSUME NEW s, Len(s) \in Nat, NEW r, NEW loop \in Loop, Trace(loop, s, r),
         loop = "convert" => \A k \in 1 .. Len(s) : s[k] \in Int
  PROVE  \A k \in 0 .. Len(s) : r[k] \in IF loop = "scan" THEN LoopState ELSE Int
<1> DEFINE T == IF loop = "scan" THEN LoopState ELSE Int
           Bad == {k \in Nat : k <= Len(s) /\ r[k] \notin T}
<1>1. Start(loop) \in T
  <2>1. NewLine \in LoopState
    BY DEF NewLine, LoopState, Operator, Ending
  <2> QED BY <2>1 DEF Start
<1>2. ASSUME NEW a \in T, NEW c, loop = "convert" => c \in Int
      PROVE  Once(loop, a, c) \in T
  <2>1. CASE loop = "scan"
    BY <1>2, <2>1, ScanTypes DEF Once
  <2>2. CASE loop = "add"
    <3>1. a \in Int
      BY <1>2, <2>2
    <3>2. ASSUME c \in Digit PROVE 10 * a + Digits[c] \in Int
      BY <3>1, <3>2, DigitValue
    <3> QED BY <2>2, <3>1, <3>2 DEF Once, AddDigit
  <2>3. CASE loop = "convert"
    <3>1. a \in Int /\ c \in Int
      BY <1>2, <2>3
    <3>2. 10 * a + c \in Int
      BY <3>1
    <3> QED BY <2>3, <3>2 DEF Once
  <2> QED BY <2>1, <2>2, <2>3 DEF Loop
<1> HIDE DEF T
<1>3. ASSUME Bad # {} PROVE FALSE
  <2>1. Bad \subseteq Nat
    OBVIOUS
  <2>2. PICK k \in Bad : \A n \in Bad : k <= n
    <3> HIDE DEF Bad
    <3> QED BY <1>3, <2>1, LeastNumber
  <2>3. k \in Nat /\ k <= Len(s) /\ r[k] \notin T
    BY <2>2
  <2>4. k # 0
    BY <1>1, <2>3 DEF Trace
  <2>5. k - 1 \in Nat /\ k - 1 <= Len(s) /\ ~(k <= k - 1) /\ k \in 1 .. Len(s)
    BY <2>3, <2>4
  <2>6. r[k - 1] \in T
    BY <2>2, <2>5
  <2>7. r[k] = Once(loop, r[k - 1], s[k])
    BY <2>5 DEF Trace
  <2>8. loop = "convert" => s[k] \in Int
    BY <2>5
  <2> QED BY <1>2, <2>3, <2>6, <2>7, <2>8
<1>4. ASSUME NEW k \in 0 .. Len(s), r[k] \notin T PROVE FALSE
  <2>1. k \in Bad
    BY <1>4
  <2> QED BY <1>3, <2>1
<1> QED BY <1>4 DEF T

\* The loop at a, with n for its number, if it still goes on.
Collected(a, n) == IF a.status # "ok" THEN a ELSE [a EXCEPT !.number = n]

\* Up to the next operator the loop collects a number, if it still goes on.
LEMMA CollectsNumber ==
  ASSUME NEW s \in Seq(Char), NEW p \in 0 .. Len(s), NEW r,
         \A i \in p + 1 .. Len(s) : s[i] \notin Operator,
         Trace("scan", s, r), r[p].status = "ok" => r[p].number = 0
  PROVE  r[Len(s)] = Collected(r[p], NumberOf(SubSeq(s, p + 1, Len(s))))
<1> DEFINE right == SubSeq(s, p + 1, Len(s))
<1>1. Len(s) \in Nat /\ p \in Nat
  BY LenProperties
<1>2. /\ right \in Seq(Char) /\ Len(right) = Len(s) - p
      /\ \A k \in 1 .. Len(right) : right[k] = s[p + k]
  <2>1. CASE p = Len(s)
    <3>1. right = <<>>
      BY <1>1, <2>1
    <3> QED BY <1>1, <2>1, <3>1
  <2>2. CASE p # Len(s)
    <3>1. p + 1 \in 1 .. Len(s) /\ Len(s) \in 1 .. Len(s)
      BY <1>1, <2>2
    <3> QED BY <1>1, <3>1, SubSeqProperties
  <2> QED BY <2>1, <2>2
<1> HIDE DEF right
<1>3. PICK q : Trace("add", right, q) /\ q[Len(right)] = FoldLeft(AddDigit, 0, right)
  BY <1>2, AddTrace
<1> DEFINE At(k) == IF r[p].status # "ok" THEN r[p]
                    ELSE [r[p] EXCEPT !.number = Wrap(q[k])]
           Bad == {k \in Nat : k <= Len(s) - p /\ r[p + k] # At(k)}
<1>4. /\ r[p] \in LoopState
      /\ \A k \in 0 .. Len(right) : q[k] \in Int
  <2>1. r[p] \in LoopState
    BY <1>1, TraceTypes DEF Loop
  <2>2. \A k \in 0 .. Len(right) : q[k] \in Int
    BY <1>1, <1>2, <1>3, TraceTypes DEF Loop
  <2> QED BY <2>1, <2>2
<1>5. r[p + 0] = At(0)
  <2>1. q[0] = 0
    BY <1>3 DEF Trace, Start
  <2>2. r[p].status = "ok" => Wrap(q[0]) = r[p].number
    <3>1. Wrap(0) = 0
      BY WrapOnce
    <3> QED BY <2>1, <3>1
  <2>3. p + 0 = p
    BY <1>1
  <2> QED BY <1>4, <2>2, <2>3 DEF LoopState
<1>6. ASSUME NEW k \in 1 .. Len(right), r[p + (k - 1)] = At(k - 1)
      PROVE  r[p + k] = At(k)
  <2> DEFINE c == s[p + k]
  <2>1. /\ p + k \in 1 .. Len(s) /\ p + k \in p + 1 .. Len(s)
        /\ (p + k) - 1 = p + (k - 1) /\ k - 1 \in 0 .. Len(right)
    BY <1>1, <1>2
  <2>2. r[p + k] = Scan(At(k - 1), c)
    BY <1>6, <2>1 DEF Trace, Once
  <2>3. q[k] = AddDigit(q[k - 1], c)
    BY <1>2, <1>3 DEF Trace, Once
  <2>4. c \notin Operator
    BY <2>1
  <2>5. q[k - 1] \in Int
    BY <1>4, <2>1
  <2> HIDE DEF c
  <2>6. CASE r[p].status # "ok"
    BY <2>2, <2>6 DEF Scan
  <2>7. CASE r[p].status = "ok" /\ c \in Digit
    <3>1. q[k] = 10 * q[k - 1] + Digits[c] /\ Digits[c] \in Int
      BY <2>3, <2>7, DigitValue DEF AddDigit
    <3>2. Wrap(10 * Wrap(q[k - 1]) + Digits[c]) = Wrap(q[k])
      <4> DEFINE n == q[k - 1]
                 d == Digits[c]
      <4>1. n \in Int /\ d \in Int /\ q[k] = 10 * n + d
        BY <2>5, <3>1
      <4> HIDE DEF n, d
      <4>2. Wrap(10 * Wrap(n) + d) = Wrap(10 * n + d)
        BY <4>1, WrapOnce
      <4> QED BY <4>1, <4>2 DEF n, d
    <3>3. /\ At(k - 1) = [r[p] EXCEPT !.number = Wrap(q[k - 1])]
          /\ At(k) = [r[p] EXCEPT !.number = Wrap(q[k])]
      BY <2>7
    <3>4. At(k - 1).status = "ok" /\ At(k - 1).number = Wrap(q[k - 1])
      BY <1>4, <2>7, <3>3 DEF LoopState
    <3> HIDE DEF At
    <3>5. Scan(At(k - 1), c)
            = [At(k - 1) EXCEPT !.number = Wrap(10 * At(k - 1).number + Digits[c])]
      BY <2>7, <3>4 DEF Scan
    <3>6. Scan(At(k - 1), c) = [At(k - 1) EXCEPT !.number = Wrap(q[k])]
      BY <3>2, <3>4, <3>5
    <3> QED BY <1>4, <2>2, <3>3, <3>6 DEF LoopState
  <2>8. CASE r[p].status = "ok" /\ c \notin Digit
    <3>1. q[k] = q[k - 1]
      BY <2>3, <2>8 DEF AddDigit
    <3>2. At(k) = At(k - 1)
      BY <3>1
    <3> HIDE DEF At
    <3> QED BY <2>2, <2>4, <2>8, <3>2 DEF Scan
  <2> QED BY <2>6, <2>7, <2>8
<1> HIDE DEF At
<1>7. ASSUME Bad # {} PROVE FALSE
  <2>1. Bad \subseteq Nat
    OBVIOUS
  <2>2. PICK k \in Bad : \A n \in Bad : k <= n
    <3> HIDE DEF Bad
    <3> QED BY <1>7, <2>1, LeastNumber
  <2>3. k \in Nat /\ k <= Len(s) - p /\ r[p + k] # At(k)
    BY <2>2
  <2>4. k # 0
    BY <1>5, <2>3
  <2>5. /\ k - 1 \in Nat /\ k - 1 <= Len(s) - p /\ ~(k <= k - 1)
        /\ k \in 1 .. Len(right)
    BY <1>1, <1>2, <2>3, <2>4
  <2>6. r[p + (k - 1)] = At(k - 1)
    BY <2>2, <2>5
  <2> QED BY <1>6, <2>3, <2>5, <2>6
<1>8. ASSUME NEW k \in 0 .. Len(s) - p, r[p + k] # At(k) PROVE FALSE
  <2>1. k \in Bad
    BY <1>1, <1>8
  <2> QED BY <1>7, <2>1
<1>9. Len(s) - p \in 0 .. Len(s) - p /\ p + (Len(s) - p) = Len(s)
  BY <1>1
<1>10. r[Len(s)] = At(Len(s) - p)
  BY <1>8, <1>9
<1>11. NumberOf(right) = Wrap(q[Len(s) - p])
  BY <1>2, <1>3 DEF NumberOf
<1> QED BY <1>10, <1>11 DEF At, Collected, right

-----------------------------------------------------------------------------
(***************************************************************************)
(* What evaluate_expression computes in one pass is the value of the line  *)
(* read from left to right.                                                *)
(***************************************************************************)
OperatorsOf(s) == {i \in DOMAIN s : s[i] \in Operator}
LastOperator(s) ==
  CHOOSE i \in OperatorsOf(s) : \A j \in OperatorsOf(s) : j <= i

\* The value of s, if left is the value of what stands before its last operator.
Combined(s, left) ==
  IF left.status # "ok" THEN left
  ELSE Apply(left.value, s[LastOperator(s)],
             NumberOf(SubSeq(s, LastOperator(s) + 1, Len(s))))

LEMMA LastOperatorIs ==
  ASSUME NEW s \in Seq(Char), OperatorsOf(s) # {}
  PROVE  /\ LastOperator(s) \in 1 .. Len(s) /\ s[LastOperator(s)] \in Operator
         /\ \A i \in LastOperator(s) + 1 .. Len(s) : s[i] \notin Operator
<1> DEFINE p == LastOperator(s)
<1>1. Len(s) \in Nat /\ DOMAIN s = 1 .. Len(s)
  BY LenProperties
<1>2. OperatorsOf(s) \in SUBSET (1 .. Len(s)) /\ OperatorsOf(s) \in SUBSET (0 .. Len(s))
  BY <1>1 DEF OperatorsOf
<1>3. \E i \in OperatorsOf(s) : \A j \in OperatorsOf(s) : i >= j
  BY <1>1, <1>2, LastPosition
<1>4. \E i \in OperatorsOf(s) : \A j \in OperatorsOf(s) : j <= i
  BY <1>2, <1>3
<1>5. p \in OperatorsOf(s) /\ \A j \in OperatorsOf(s) : j <= p
  BY <1>4 DEF LastOperator
<1> HIDE DEF p
<1>6. p \in 1 .. Len(s) /\ s[p] \in Operator
  BY <1>2, <1>5 DEF OperatorsOf
<1>7. ASSUME NEW i \in p + 1 .. Len(s), s[i] \in Operator PROVE FALSE
  <2>1. i \in 1 .. Len(s) /\ ~(i <= p)
    BY <1>1, <1>6
  <2>2. i \in OperatorsOf(s)
    BY <1>1, <1>7, <2>1 DEF OperatorsOf
  <2> QED BY <1>5, <2>1, <2>2
<1> QED BY <1>6, <1>7 DEF p

LEMMA OneNumber ==
  ASSUME NEW s \in Seq(Char), OperatorsOf(s) = {}
  PROVE  EvaluateExpression(s) = [value |-> NumberOf(s), status |-> "ok"]
<1>1. Len(s) \in Nat /\ DOMAIN s = 1 .. Len(s)
  BY LenProperties
<1>2. PICK r : Trace("scan", s, r) /\ r[Len(s)] = FoldLeft(Scan, NewLine, s)
  BY ScanTrace
<1>3. r[0] = NewLine /\ 0 \in 0 .. Len(s)
  BY <1>1, <1>2 DEF Trace, Start
<1>4. \A i \in 0 + 1 .. Len(s) : s[i] \notin Operator
  BY <1>1 DEF OperatorsOf
<1>5. SubSeq(s, 0 + 1, Len(s)) = s
  BY <1>1
<1>6. r[Len(s)] = [NewLine EXCEPT !.number = NumberOf(s)]
  <2>1. r[0].status = "ok" /\ r[0].number = 0
    BY <1>3 DEF NewLine
  <2>2. r[Len(s)] = Collected(r[0], NumberOf(SubSeq(s, 0 + 1, Len(s))))
    BY <1>2, <1>3, <1>4, <2>1, CollectsNumber, Zenon
  <2> QED BY <1>3, <1>5, <2>1, <2>2 DEF Collected
<1>7. Wrap(0 + NumberOf(s)) = NumberOf(s)
  <2>1. PICK q : Trace("add", s, q) /\ q[Len(s)] = FoldLeft(AddDigit, 0, s)
    BY AddTrace
  <2>2. q[Len(s)] \in Int
    BY <1>1, <2>1, TraceTypes DEF Loop
  <2> DEFINE n == q[Len(s)]
  <2>3. NumberOf(s) = Wrap(n) /\ n \in Int
    BY <2>1, <2>2 DEF NumberOf
  <2> HIDE DEF n
  <2>4. Wrap(n) \in Int /\ Wrap(Wrap(n)) = Wrap(n)
    BY <2>3, WrapOnce
  <2>5. 0 + Wrap(n) = Wrap(n)
    BY <2>4
  <2> QED BY <2>3, <2>4, <2>5
<1>8. EvaluateExpression(s) = Apply(0, "+", NumberOf(s))
  BY <1>2, <1>6 DEF EvaluateExpression, NewLine
<1> QED BY <1>7, <1>8 DEF Apply

LEMMA LastOfMany ==
  ASSUME NEW s \in Seq(Char), OperatorsOf(s) # {}
  PROVE  EvaluateExpression(s)
           = Combined(s, EvaluateExpression(SubSeq(s, 1, LastOperator(s) - 1)))
<1> DEFINE p == LastOperator(s)
           left == SubSeq(s, 1, p - 1)
           number == NumberOf(SubSeq(s, p + 1, Len(s)))
<1>1. Len(s) \in Nat /\ DOMAIN s = 1 .. Len(s)
  BY LenProperties
<1>2. /\ p \in 1 .. Len(s) /\ s[p] \in Operator
      /\ \A i \in p + 1 .. Len(s) : s[i] \notin Operator
  BY LastOperatorIs
<1>3. Combined(s, EvaluateExpression(left))
        = IF EvaluateExpression(left).status # "ok" THEN EvaluateExpression(left)
          ELSE Apply(EvaluateExpression(left).value, s[p], number)
  BY DEF Combined
<1> HIDE DEF p
<1>4. left \in Seq(Char) /\ Len(left) = p - 1 /\ \A k \in 1 .. p - 1 : s[k] = left[k]
  <2>1. CASE p = 1
    <3>1. left = <<>>
      BY <2>1
    <3> QED BY <2>1, <3>1
  <2>2. CASE p # 1
    <3>1. 1 \in 1 .. Len(s) /\ p - 1 \in 1 .. Len(s) /\ p - 1 \in Nat /\ 1 <= p - 1
      BY <1>1, <1>2, <2>2
    <3>2. /\ left \in Seq(Char) /\ Len(left) = (p - 1) - 1 + 1
          /\ \A k \in 1 .. (p - 1) - 1 + 1 : left[k] = s[1 + k - 1]
      BY <3>1, SubSeqProperties
    <3> QED BY <3>1, <3>2
  <2> QED BY <2>1, <2>2
<1> HIDE DEF left
<1>5. PICK r : Trace("scan", s, r) /\ r[Len(s)] = FoldLeft(Scan, NewLine, s)
  BY ScanTrace
<1>6. PICK u : Trace("scan", left, u) /\ u[Len(left)] = FoldLeft(Scan, NewLine, left)
  BY <1>4, ScanTrace
<1>7. r[p - 1] = FoldLeft(Scan, NewLine, left)
  <2>1. p - 1 \in Nat /\ p - 1 \in 0 .. p - 1 /\ p - 1 <= Len(s) /\ p - 1 <= Len(left)
    BY <1>1, <1>2, <1>4
  <2>2. \A k \in 0 .. p - 1 : r[k] = u[k]
    BY <1>1, <1>4, <1>5, <1>6, <2>1, SameTrace
  <2> QED BY <1>4, <1>6, <2>1, <2>2
<1> DEFINE t == r[p - 1]
           a == Apply(t.result, t.operator, t.number)
<1>8. t \in LoopState
  <2>1. p - 1 \in 0 .. Len(s)
    BY <1>1, <1>2
  <2> QED BY <1>1, <1>5, <2>1, TraceTypes DEF Loop
<1>9. r[p] = Scan(t, s[p])
  BY <1>2, <1>5 DEF Trace, Once
<1>10. EvaluateExpression(left) = IF t.status = "ok" THEN a
                                  ELSE [value |-> 0, status |-> t.status]
  BY <1>7 DEF EvaluateExpression
<1>11. EvaluateExpression(s)
         = IF r[Len(s)].status = "ok"
           THEN Apply(r[Len(s)].result, r[Len(s)].operator, r[Len(s)].number)
           ELSE [value |-> 0, status |-> r[Len(s)].status]
  BY <1>5 DEF EvaluateExpression
<1>12. p \in 0 .. Len(s)
  BY <1>1, <1>2
<1>13. ASSUME r[p].status = "ok" => r[p].number = 0
       PROVE  r[Len(s)] = Collected(r[p], number)
  BY <1>2, <1>5, <1>12, <1>13, CollectsNumber
<1> HIDE DEF t, number
<1>14. CASE t.status # "ok"
  <2>1. r[p] = t
    BY <1>9, <1>14 DEF Scan
  <2>2. r[Len(s)] = t
    BY <1>13, <1>14, <2>1 DEF Collected
  <2> HIDE DEF a
  <2>3. /\ EvaluateExpression(left) = [value |-> 0, status |-> t.status]
        /\ EvaluateExpression(s) = [value |-> 0, status |-> t.status]
    BY <1>10, <1>11, <1>14, <2>2
  <2>4. EvaluateExpression(left).status # "ok"
    BY <1>14, <2>3
  <2>5. EvaluateExpression(s) = Combined(s, EvaluateExpression(left))
    BY <1>3, <2>3, <2>4
  <2> QED BY <2>5 DEF left, p
<1>15. CASE t.status = "ok"
  <2>1. /\ a.value \in Int /\ a.status \in Ending
        /\ a = [value |-> a.value, status |-> a.status]
        /\ a.status # "ok" => a.value = 0
    BY <1>8, ApplyTypes DEF LoopState
  <2>2. s[p] \notin Digit
    BY <1>2, DigitValue
  <2>3. r[p] = [result |-> a.value, number |-> 0, operator |-> s[p], status |-> a.status]
    BY <1>2, <1>9, <1>15, <2>2 DEF Scan
  <2> HIDE DEF a
  <2>4. r[Len(s)] = IF a.status # "ok" THEN r[p] ELSE [r[p] EXCEPT !.number = number]
    BY <1>13, <2>3 DEF Collected
  <2>5. EvaluateExpression(left) = a
    BY <1>10, <1>15
  <2>6. CASE a.status # "ok"
    <3>1. EvaluateExpression(s) = [value |-> 0, status |-> a.status]
      BY <1>11, <2>3, <2>4, <2>6
    <3>2. EvaluateExpression(s) = a
      BY <2>1, <2>6, <3>1
    <3>3. EvaluateExpression(s) = Combined(s, EvaluateExpression(left))
      BY <1>3, <2>5, <2>6, <3>2
    <3> QED BY <3>3 DEF left, p
  <2>7. CASE a.status = "ok"
    <3>1. r[Len(s)] = [result |-> a.value, number |-> number, operator |-> s[p],
                       status |-> "ok"]
      BY <2>3, <2>4, <2>7
    <3>2. EvaluateExpression(s) = Apply(a.value, s[p], number)
      BY <1>11, <3>1
    <3>3. EvaluateExpression(s) = Combined(s, EvaluateExpression(left))
      BY <1>3, <2>5, <2>7, <3>2
    <3> QED BY <3>3 DEF left, p
  <2> QED BY <2>6, <2>7
<1> QED BY <1>14, <1>15

\* The recursion of LeftToRight.
OfLine(s, f) ==
  IF OperatorsOf(s) = {} THEN [value |-> NumberOf(s), status |-> "ok"]
  ELSE Combined(s, f[SubSeq(s, 1, LastOperator(s) - 1)])

LEMMA ShorterLine ==
  ASSUME NEW s \in Seq(Char), OperatorsOf(s) # {}
  PROVE  /\ SubSeq(s, 1, LastOperator(s) - 1) \in Seq(Char)
         /\ Len(SubSeq(s, 1, LastOperator(s) - 1)) < Len(s)
<1> DEFINE p == LastOperator(s)
<1>1. Len(s) \in Nat /\ p \in 1 .. Len(s)
  BY LastOperatorIs, LenProperties
<1> HIDE DEF p
<1>2. CASE p = 1
  <2>1. SubSeq(s, 1, p - 1) = <<>>
    BY <1>2
  <2> QED BY <1>1, <2>1 DEF p
<1>3. CASE p # 1
  <2>1. 1 \in 1 .. Len(s) /\ p - 1 \in 1 .. Len(s) /\ p - 1 < Len(s) /\ 1 <= p - 1
    BY <1>1, <1>3
  <2>2. SubSeq(s, 1, p - 1) \in Seq(Char) /\ Len(SubSeq(s, 1, p - 1)) = (p - 1) - 1 + 1
    BY <1>1, <2>1, SubSeqProperties
  <2> QED BY <1>1, <2>1, <2>2 DEF p
<1> QED BY <1>2, <1>3

\* The one pass over the line computes the value of the line from left to right.
LEMMA OnePass ==
  ASSUME NEW s \in Seq(Char)
  PROVE  LeftToRight[s] = EvaluateExpression(s)
<1> DEFINE g == [q \in Seq(Char) |-> EvaluateExpression(q)]
<1>1. LeftToRight = CHOOSE f : f = [q \in Seq(Char) |-> OfLine(q, f)]
  BY Zenon DEF LeftToRight, OfLine, Combined, LastOperator, OperatorsOf
<1>2. ASSUME NEW q \in Seq(Char) PROVE g[q] = OfLine(q, g)
  <2>1. CASE OperatorsOf(q) = {}
    BY <2>1, OneNumber DEF OfLine
  <2>2. CASE OperatorsOf(q) # {}
    <3>1. g[q] = EvaluateExpression(q)
      OBVIOUS
    <3>2. g[SubSeq(q, 1, LastOperator(q) - 1)]
            = EvaluateExpression(SubSeq(q, 1, LastOperator(q) - 1))
      BY <2>2, ShorterLine
    <3> HIDE DEF g
    <3> QED BY <2>2, <3>1, <3>2, LastOfMany DEF OfLine
  <2> QED BY <2>1, <2>2
<1>3. g = [q \in Seq(Char) |-> g[q]]
  OBVIOUS
<1> HIDE DEF g
<1>4. g = [q \in Seq(Char) |-> OfLine(q, g)]
  BY <1>2, <1>3
<1> DEFINE l == LeftToRight
<1>5. l = [q \in Seq(Char) |-> OfLine(q, l)]
  BY <1>1, <1>4, Zenon
<1> HIDE DEF l
<1> DEFINE Bad == {k \in Nat : \E q \in Seq(Char) : Len(q) = k /\ l[q] # g[q]}
<1>6. ASSUME Bad # {} PROVE FALSE
  <2>1. Bad \subseteq Nat
    OBVIOUS
  <2>2. PICK k \in Bad : \A n \in Bad : k <= n
    <3> HIDE DEF Bad
    <3> QED BY <1>6, <2>1, LeastNumber
  <2>3. PICK q \in Seq(Char) : Len(q) = k /\ l[q] # g[q]
    BY <2>2
  <2>4. l[q] = OfLine(q, l) /\ g[q] = OfLine(q, g)
    BY <1>4, <1>5
  <2>5. CASE OperatorsOf(q) = {}
    BY <2>3, <2>4, <2>5 DEF OfLine
  <2>6. CASE OperatorsOf(q) # {}
    <3> DEFINE left == SubSeq(q, 1, LastOperator(q) - 1)
    <3>1. left \in Seq(Char) /\ Len(left) < Len(q)
      BY <2>6, ShorterLine
    <3>2. l[q] = Combined(q, l[left]) /\ g[q] = Combined(q, g[left])
      BY <2>4, <2>6 DEF OfLine
    <3> HIDE DEF left
    <3>3. l[left] # g[left]
      BY <2>3, <3>2
    <3>4. Len(left) \in Nat /\ Len(q) \in Nat
      BY <3>1, LenProperties
    <3>5. Len(left) \in Bad
      BY <3>1, <3>3, <3>4
    <3> HIDE DEF Bad
    <3>6. k <= Len(left)
      BY <2>2, <3>5
    <3> QED BY <2>3, <3>1, <3>4, <3>6
  <2> QED BY <2>5, <2>6
<1>7. l[s] = g[s]
  <2>1. Len(s) \in Nat
    BY LenProperties
  <2>2. ASSUME l[s] # g[s] PROVE Len(s) \in Bad
    BY <2>1, <2>2
  <2> HIDE DEF Bad
  <2> QED BY <1>6, <2>2
<1> QED BY <1>7 DEF g, l

-----------------------------------------------------------------------------
(***************************************************************************)
(* The calculator's line: what a key does to it, and what Enter answers.    *)
(***************************************************************************)
LEMMA EvaluationTypes ==
  ASSUME NEW s \in Seq(Char)
  PROVE  EvaluateExpression(s).value \in Int
<1>1. PICK r : Trace("scan", s, r) /\ r[Len(s)] = FoldLeft(Scan, NewLine, s)
  BY ScanTrace
<1>2. Len(s) \in Nat
  BY LenProperties
<1>3. r[Len(s)] \in LoopState
  BY <1>1, <1>2, TraceTypes DEF Loop
<1> DEFINE t == r[Len(s)]
           a == Apply(t.result, t.operator, t.number)
<1>4. a.value \in Int
  BY <1>3, ApplyTypes DEF LoopState
<1>5. EvaluateExpression(s) = IF t.status = "ok" THEN a
                              ELSE [value |-> 0, status |-> t.status]
  BY <1>1 DEF EvaluateExpression
<1> HIDE DEF a
<1> QED BY <1>4, <1>5

CalcInv ==
  /\ c_input \in Seq(Char) /\ Len(c_input) <= Size
  /\ typed \in Seq(Char) /\ Len(typed) <= Len(c_input)
  /\ calculating \in BOOLEAN /\ trapped \in BOOLEAN
  /\ ~leftover => c_input = typed
  /\ printed \in Seq(Int)

LEMMA CalcStarts == CalcInit => CalcInv
<1> SUFFICES ASSUME CalcInit PROVE CalcInv
  OBVIOUS
<1>1. <<>> \in Seq(Char) /\ <<>> \in Seq(Int) /\ Len(<<>>) = 0
  OBVIOUS
<1>2. /\ c_input = <<>> /\ typed = <<>> /\ calculating = FALSE /\ trapped = FALSE
      /\ leftover = FALSE /\ printed = <<>>
  BY DEF CalcInit
<1>3. Len(c_input) <= Size /\ Len(typed) <= Len(c_input)
  BY <1>1, <1>2, CalcAssumption
<1> QED BY <1>1, <1>2, <1>3 DEF CalcInv

LEMMA CalcStepKeeps == CalcInv /\ [CalcNext]_calcVars => CalcInv'
<1> SUFFICES ASSUME CalcInv, [CalcNext]_calcVars PROVE CalcInv'
  OBVIOUS
<1>1. <<>> \in Seq(Char) /\ <<>> \in Seq(Int) /\ Len(<<>>) = 0
  OBVIOUS
<1>2. Len(c_input) \in Nat /\ Len(typed) \in Nat
  BY LenProperties DEF CalcInv
<1>3. CASE Calculate
  BY <1>1, <1>3 DEF Calculate, CalcInv
<1>4. CASE Quit
  <2>1. typed' = <<>> /\ UNCHANGED <<c_input, trapped>> /\ calculating' = FALSE
       /\ printed' = <<>>
    BY <1>4 DEF Quit
  <2>2. ~leftover' => c_input = <<>>
    BY <1>4 DEF Quit
  <2>3. Len(typed') <= Len(c_input')
    BY <1>1, <1>2, <2>1
  <2> QED BY <1>1, <2>1, <2>2, <2>3 DEF CalcInv
<1>5. CASE Enter
  <2> DEFINE e == EvaluateExpression(c_input)
  <2>1. /\ c_input' = LineAfter(e) /\ typed' = <<>> /\ calculating' = calculating
        /\ leftover' = (e.status # "ok") /\ trapped' = (e.status = "trap")
    BY <1>5 DEF Enter
  <2> HIDE DEF e
  <2>2. c_input' = <<>> \/ (c_input' = c_input /\ leftover')
    BY <2>1 DEF LineAfter
  <2>3. c_input' \in Seq(Char) /\ Len(c_input') <= Size /\ Len(typed') <= Len(c_input')
    <3>1. CASE c_input' = <<>>
      <4>1. Len(c_input') = 0 /\ Len(typed') = 0
        BY <1>1, <2>1, <3>1
      <4> QED BY <1>1, <3>1, <4>1, CalcAssumption
    <3>2. CASE c_input' = c_input
      <4>1. Len(typed') = 0
        BY <1>1, <2>1
      <4> QED BY <1>2, <3>2, <4>1 DEF CalcInv
    <3> QED BY <2>2, <3>1, <3>2
  <2>4. trapped' \in BOOLEAN
    BY <2>1
  <2>5. printed' \in Seq(Int)
    <3>1. printed' = IF trapped' THEN <<>> ELSE <<e.value>>
      BY <1>5 DEF Enter, e
    <3>2. e.value \in Int
      BY EvaluationTypes DEF CalcInv, e
    <3>3. <<e.value>> \in Seq(Int)
      BY <3>2
    <3> QED BY <1>1, <3>1, <3>3
  <2> QED BY <1>1, <2>1, <2>2, <2>3, <2>4, <2>5 DEF CalcInv
<1>6. CASE \E c \in Char : Append1(c)
  <2>1. PICK c \in Char : Append1(c)
    BY <1>6
  <2>2. UNCHANGED <<calculating, trapped, leftover>> /\ printed' = <<>>
    BY <2>1 DEF Append1, Typed
  <2>3. CASE Len(c_input) < Size
    <3>1. c_input' = Append(c_input, c) /\ typed' = Append(typed, c)
      BY <2>1, <2>3 DEF Append1, Typed
    <3>2. /\ c_input' \in Seq(Char) /\ Len(c_input') = Len(c_input) + 1
          /\ typed' \in Seq(Char) /\ Len(typed') = Len(typed) + 1
      BY <3>1, AppendProperties DEF CalcInv
    <3>3. Len(c_input') <= Size /\ Len(typed') <= Len(c_input')
      BY <1>2, <2>3, <3>2, CalcAssumption DEF CalcInv
    <3> QED BY <1>1, <2>2, <3>1, <3>2, <3>3 DEF CalcInv
  <2>4. CASE ~(Len(c_input) < Size)
    BY <1>1, <2>1, <2>2, <2>4 DEF Append1, Typed, CalcInv
  <2> QED BY <2>3, <2>4
<1>7. CASE UNCHANGED calcVars
  BY <1>7 DEF calcVars, CalcInv
<1> QED BY <1>3, <1>4, <1>5, <1>6, <1>7 DEF CalcNext, AppendToBuffer

\* A step of the calculator that answers answers what was typed.
LEMMA CalcStepAnswers ==
  ASSUME CalcInv, [CalcNext]_calcVars, ~leftover,
         printed' # <<>> \/ trapped' # trapped, ~UNCHANGED calcVars
  PROVE  LET e == LeftToRight[typed]
         IN  /\ trapped' = (e.status = "trap")
             /\ ~trapped' => printed' = <<e.value>>
<1>1. CASE Enter
  <2>1. typed = c_input /\ typed \in Seq(Char)
    BY DEF CalcInv
  <2> DEFINE e == EvaluateExpression(c_input)
  <2>2. /\ trapped' = (e.status = "trap")
        /\ printed' = IF trapped' THEN <<>> ELSE <<e.value>>
    BY <1>1 DEF Enter
  <2>3. LeftToRight[typed] = e
    BY <2>1, OnePass
  <2> HIDE DEF e
  <2> QED BY <2>2, <2>3
<1>2. CASE Calculate
  BY <1>2 DEF Calculate
<1>3. CASE Quit
  BY <1>3 DEF Quit
<1>4. CASE \E c \in Char : Append1(c)
  BY <1>4 DEF Append1, Typed
<1> QED BY <1>1, <1>2, <1>3, <1>4 DEF CalcNext, AppendToBuffer

-----------------------------------------------------------------------------
(***************************************************************************)
(* The types of the simulation: what SchedInv leaves out.                  *)
(***************************************************************************)
LEMMA SchedTypesKept == SchedTypeOK /\ [SchedNext]_schedVars => SchedTypeOK'
<1> SUFFICES ASSUME SchedTypeOK, [SchedNext]_schedVars PROVE SchedTypeOK'
  OBVIOUS
<1>1. NumTasks \in Nat \ {0} /\ 0 \in Task
  BY NumTasksAssumption DEF Task
<1>2. [i \in Task |-> 0] \in [Task -> 0 .. 2] /\ [i \in Task |-> 0] \in [Task -> Nat]
  OBVIOUS
<1>3. ExecTime \in [Task -> Int]
  BY TasksAssumption
<1>4. CASE \E a \in Algorithm : RunScheduler(a)
  <2>1. runs < MaxRuns /\ runs' = runs + 1 /\ runs' \in 0 .. MaxRuns
    BY <1>4, NumTasksAssumption DEF RunScheduler, SchedTypeOK
  <2> QED BY <1>1, <1>2, <1>3, <1>4, <2>1 DEF RunScheduler, SchedTypeOK
<1>5. CASE ScheduleRR
  <2>1. NextIndex \in Task
    BY <1>1 DEF NextIndex, SchedTypeOK, Task
  <2> DEFINE left == IF time_remaining[current_task] > 0
                     THEN time_remaining[current_task] - TimeQuantum
                     ELSE time_remaining[current_task]
  <2>2. left \in Int
    BY QuantumAssumption DEF SchedTypeOK
  <2>3. /\ time_remaining' = [time_remaining EXCEPT ![current_task] = left]
        /\ state' = [state EXCEPT ![current_task] = IF left <= 0 THEN 2 ELSE @]
        /\ quanta' = [quanta EXCEPT ![current_task] =
                        IF time_remaining[current_task] > 0 THEN @ + 1 ELSE @]
        /\ current_task_index' = NextIndex /\ current_task' = NextIndex
        /\ UNCHANGED <<algorithm, runs, panicked>>
    BY <1>5 DEF ScheduleRR
  <2> HIDE DEF left
  <2>4. time_remaining' \in [Task -> Int] /\ state' \in [Task -> 0 .. 2]
    BY <2>2, <2>3 DEF SchedTypeOK
  <2>5. quanta' \in [Task -> Nat]
    BY <2>3 DEF SchedTypeOK
  <2> QED BY <2>1, <2>3, <2>4, <2>5 DEF SchedTypeOK
<1>6. CASE ScheduleFCFS
  <2>1. current_task' \in Task
    <3>1. CASE Ready = {}
      BY <1>6, <3>1 DEF ScheduleFCFS, SchedTypeOK
    <3>2. CASE Ready # {}
      <4>1. Ready \in SUBSET (0 .. NumTasks - 1) /\ NumTasks - 1 \in Nat
        BY <1>1 DEF Ready, Task
      <4>2. Max(Ready) \in Ready
        BY <3>2, <4>1, LastPosition DEF Max
      <4> QED BY <1>6, <3>2, <4>2 DEF ScheduleFCFS, Ready
    <3> QED BY <3>1, <3>2
  <2>2. time_remaining' \in [Task -> Int] /\ state' \in [Task -> 0 .. 2]
    BY <1>6 DEF ScheduleFCFS, SchedTypeOK
  <2> QED BY <1>6, <2>1, <2>2 DEF ScheduleFCFS, SchedTypeOK
<1>7. CASE ScheduleLottery
  <2>1. PICK w \in Task :
          /\ current_task' = w
          /\ time_remaining' = [time_remaining EXCEPT ![w] = time_remaining[w] - 1]
          /\ state' = [state EXCEPT ![w] = IF time_remaining[w] - 1 <= 0 THEN 2 ELSE 1]
    BY <1>7 DEF ScheduleLottery
  <2>2. time_remaining' \in [Task -> Int] /\ state' \in [Task -> 0 .. 2]
    BY <2>1 DEF SchedTypeOK
  <2> QED BY <1>7, <2>1, <2>2 DEF ScheduleLottery, SchedTypeOK
<1>8. CASE NoTickets
  BY <1>8 DEF NoTickets, SchedTypeOK
<1>9. CASE Completed
  BY <1>9 DEF Completed, SchedTypeOK
<1>10. CASE UNCHANGED schedVars
  BY <1>10 DEF schedVars, SchedTypeOK
<1> QED BY <1>4, <1>5, <1>6, <1>7, <1>8, <1>9, <1>10 DEF SchedNext, SchedStep

LEMMA SchedTypesStart == SchedInit => SchedTypeOK
<1> SUFFICES ASSUME SchedInit PROVE SchedTypeOK
  OBVIOUS
<1>1. 0 \in Task /\ ExecTime \in [Task -> Int] /\ 0 \in 0 .. MaxRuns
  BY NumTasksAssumption, TasksAssumption DEF Task
<1>2. [i \in Task |-> 0] \in [Task -> 0 .. 2] /\ [i \in Task |-> 0] \in [Task -> Nat]
  OBVIOUS
<1> QED BY <1>1, <1>2 DEF SchedInit, SchedTypeOK

-----------------------------------------------------------------------------
(***************************************************************************)
(* printf: its states, and that it never goes behind the format.           *)
(***************************************************************************)
PrintfTypes ==
  /\ fmtState \in {"start", "length", "short", "long", "spec"}
  /\ length \in {"start", "short short", "short", "long", "long long"}
  /\ argp \in Nat /\ stack \in Seq(Word) /\ busy \in BOOLEAN
  /\ fmt \in Seq(STRING) /\ call \in Seq(STRING) /\ Len(fmt) <= Len(call)
  /\ ~busy => fmt = <<>>

LEMMA PrintfStarts == PrintfInit => PrintfTypes
<1> SUFFICES ASSUME PrintfInit PROVE PrintfTypes
  OBVIOUS
<1>1. <<>> \in Seq(Word) /\ <<>> \in Seq(STRING) /\ Len(<<>>) = 0
  OBVIOUS
<1>2. /\ fmt = <<>> /\ fmtState = "start" /\ length = "start" /\ argp = 1
      /\ stack = <<>> /\ call = <<>> /\ busy = FALSE
  BY DEF PrintfInit
<1>3. Len(fmt) <= Len(call)
  BY <1>1, <1>2
<1>4. argp \in Nat
  BY <1>2
<1> QED BY <1>1, <1>2, <1>3, <1>4, Zenon DEF PrintfTypes

LEMMA PrintfKeepsTypes == PrintfTypes /\ [PrintfNext]_printfVars => PrintfTypes'
<1> SUFFICES ASSUME PrintfTypes, [PrintfNext]_printfVars PROVE PrintfTypes'
  OBVIOUS
<1>1. CASE \E f \in Formats, s \in Stacks : Call(f, s)
  <2>1. PICK f \in Formats, s \in Stacks : Call(f, s)
    BY <1>1
  <2>2. f \in Seq(STRING) /\ s \in Seq(Word) /\ Len(f) <= Len(f)
    BY PrintfAssumption, LenProperties
  <2> QED BY <2>1, <2>2 DEF Call, PrintfTypes
<1>2. CASE Turn
  <2>1. /\ busy /\ fmt # <<>> /\ fmt' = Tail(fmt) /\ UNCHANGED <<stack, call, busy>>
        /\ Text \/ Length \/ Conversion
    BY <1>2 DEF Turn
  <2>2. fmt' \in Seq(STRING) /\ Len(fmt') <= Len(call')
    <3>1. Tail(fmt) \in Seq(STRING) /\ Len(Tail(fmt)) = Len(fmt) - 1
      BY <2>1, HeadTailProperties DEF PrintfTypes
    <3>2. Len(fmt) \in Nat /\ Len(call) \in Nat
      BY LenProperties DEF PrintfTypes
    <3>3. fmt' = Tail(fmt) /\ call' = call /\ Len(fmt) <= Len(call)
      BY <2>1 DEF PrintfTypes
    <3>4. Len(Tail(fmt)) <= Len(call)
      BY <3>1, <3>2, <3>3
    <3> QED BY <3>1, <3>3, <3>4, Zenon
  <2>3. CASE Text
    BY <2>1, <2>2, <2>3 DEF Text, PrintfTypes
  <2>4. CASE Length
    BY <2>1, <2>2, <2>4 DEF Length, PrintfTypes
  <2>5. CASE Conversion
    <3>1. Advance(Head(fmt)) \in Nat
      BY DEF Advance
    <3>2. argp' = argp + Advance(Head(fmt)) /\ argp \in Nat
      BY <2>5 DEF Conversion, PrintfTypes
    <3>3. argp' \in Nat
      BY <3>1, <3>2
    <3>4. fmtState' = "start" /\ length' = "start"
      BY <2>5 DEF Conversion
    <3>5. busy' = TRUE /\ stack' \in Seq(Word) /\ call' \in Seq(STRING)
      BY <2>1 DEF PrintfTypes
    <3>6. /\ fmtState' \in {"start", "length", "short", "long", "spec"}
          /\ length' \in {"start", "short short", "short", "long", "long long"}
      BY <3>4
    <3>7. busy' \in BOOLEAN /\ (~busy' => fmt' = <<>>)
      BY <3>5
    <3> QED BY <2>2, <3>3, <3>5, <3>6, <3>7, Zenon DEF PrintfTypes
  <2> QED BY <2>1, <2>3, <2>4, <2>5
<1>3. CASE Return
  <2>1. <<>> \in Seq(Word) /\ <<>> \in Seq(STRING) /\ Len(<<>>) = 0
    OBVIOUS
  <2>2. /\ fmt' = <<>> /\ fmtState' = "start" /\ length' = "start" /\ argp' = 1
        /\ stack' = <<>> /\ call' = <<>> /\ busy' = FALSE
    BY <1>3 DEF Return
  <2>3. Len(fmt') <= Len(call') /\ argp' \in Nat
    BY <2>1, <2>2
  <2> QED BY <2>1, <2>2, <2>3, Zenon DEF PrintfTypes
<1>4. CASE UNCHANGED printfVars
  BY <1>4 DEF printfVars, PrintfTypes
<1> QED BY <1>1, <1>2, <1>3, <1>4 DEF PrintfNext

-----------------------------------------------------------------------------
(***************************************************************************)
(* The picture viewer's types: that no entry of the file fills the array   *)
(* of its values beyond its end.                                           *)
(***************************************************************************)
LEMMA ConvertIsInt ==
  ASSUME NEW s \in Seq(0 .. 9)
  PROVE  ConvertToInt(s) \in Int
<1>1. PICK r : Trace("convert", s, r) /\ r[Len(s)] = ConvertToInt(s)
  BY ConvertTrace
<1>2. Len(s) \in Nat /\ \A k \in 1 .. Len(s) : s[k] \in Int
  BY LenProperties, ElementOfSeq
<1>3. r[Len(s)] \in Int
  BY <1>1, <1>2, TraceTypes DEF Loop
<1> QED BY <1>1, <1>3

\* Six bits of a colour.
LEMMA QuotientGrows ==
  ASSUME NEW d \in Nat \ {0}, NEW a \in Nat, NEW b \in Nat, a <= b
  PROVE  a \div d \in 0 .. b \div d
<1> DEFINE p == a \div d
           q == b \div d
<1>1. /\ p \in Int /\ (a % d) \in 0 .. d - 1 /\ a = d * p + (a % d)
      /\ q \in Int /\ (b % d) \in 0 .. d - 1 /\ b = d * q + (b % d)
  BY Remainder
<1>2. PICK x \in 0 .. d - 1, y \in 0 .. d - 1 : a = d * p + x /\ b = d * q + y
  BY <1>1
<1> HIDE DEF p, q
<1>3. p >= 0
  <2>1. p <= -1 => d * p <= -d
    BY <1>1
  <2>2. d * p \in Int
    BY <1>1
  <2> QED BY <1>1, <1>2, <2>1, <2>2
<1>4. p <= q
  <2>1. p >= q + 1 => d * p >= d * q + d
    <3>1. p >= q + 1 => d * p >= d * (q + 1)
      BY <1>1
    <3>2. d * (q + 1) = d * q + d
      BY <1>1
    <3> QED BY <3>1, <3>2
  <2>2. d * p \in Int /\ d * q \in Int
    BY <1>1
  <2> QED BY <1>1, <1>2, <2>1, <2>2
<1> QED BY <1>1, <1>3, <1>4 DEF p, q

LEMMA ShadeTypes ==
  ASSUME NEW c \in Int
  PROVE  Shade(c) \in Shades
<1>1. c % Colours \in Nat /\ c % Colours <= Colours - 1 /\ Colours - 1 \in Nat
  BY PaletteAssumption
<1>2. Step \in Nat \ {0}
  BY PaletteAssumption
<1>3. (c % Colours) \div Step \in 0 .. (Colours - 1) \div Step
  BY <1>1, <1>2, QuotientGrows
<1> QED BY <1>3 DEF Shade, Shades

-----------------------------------------------------------------------------
(* The text of a picture.                                                  *)

Letter == DOMAIN DigitOf \cup {"{", "}", ",", " "}

\* b values are enough behind a character that a are enough before: a comma may
\* end one, and a closing brace takes them all.
Enough(c, a, b) == c # "}" => b >= a + (IF c = "," THEN 1 ELSE 0)

\* q bounds the values read behind each character of f, from a before the
\* first one to b behind the last one.
Bounding(f, q, a, b) ==
  /\ q \in [0 .. Len(f) -> 0 .. 3] /\ q[0] = a /\ q[Len(f)] = b
  /\ \A i \in 1 .. Len(f) : Enough(f[i], q[i - 1], q[i])

\* A text that can be read like this.
Readable(f, a, b) == f \in Seq(Letter) /\ \E q : Bounding(f, q, a, b)

LEMMA ReadableTogether ==
  ASSUME NEW f, NEW g, NEW a, NEW b, NEW c, Readable(f, a, b), Readable(g, b, c)
  PROVE  Readable(f \o g, a, c)
<1> DEFINE m == Len(f)
           n == Len(g)
<1>1. PICK q : Bounding(f, q, a, b)
  BY DEF Readable
<1>2. PICK r : Bounding(g, r, b, c)
  BY DEF Readable
<1>3. f \in Seq(Letter) /\ g \in Seq(Letter)
  BY DEF Readable
<1>4. /\ m \in Nat /\ n \in Nat /\ f \o g \in Seq(Letter) /\ Len(f \o g) = m + n
      /\ \A i \in 1 .. m + n : (f \o g)[i] = IF i <= m THEN f[i] ELSE g[i - m]
  BY <1>3, ConcatProperties, LenProperties
<1> DEFINE h == f \o g
           t == [i \in 0 .. m + n |-> IF i <= m THEN q[i] ELSE r[i - m]]
<1>5. /\ q \in [0 .. m -> 0 .. 3] /\ q[0] = a /\ q[m] = b
      /\ \A i \in 1 .. m : Enough(f[i], q[i - 1], q[i])
  BY <1>1 DEF Bounding
<1>6. /\ r \in [0 .. n -> 0 .. 3] /\ r[0] = b /\ r[n] = c
      /\ \A i \in 1 .. n : Enough(g[i], r[i - 1], r[i])
  BY <1>2 DEF Bounding
<1> HIDE DEF m, n, h
<1>7. t \in [0 .. m + n -> 0 .. 3]
  <2>1. ASSUME NEW i \in 0 .. m + n PROVE (IF i <= m THEN q[i] ELSE r[i - m]) \in 0 .. 3
    <3>1. CASE i <= m
      <4>1. i \in 0 .. m
        BY <1>4, <3>1
      <4> QED BY <1>5, <3>1, <4>1
    <3>2. CASE ~(i <= m)
      <4>1. i - m \in 0 .. n
        BY <1>4, <3>2
      <4> QED BY <1>6, <3>2, <4>1
    <3> QED BY <3>1, <3>2
  <2> QED BY <2>1
<1>8. \A i \in 0 .. m : t[i] = q[i]
  <2> TAKE i \in 0 .. m
  <2>1. i \in 0 .. m + n /\ i <= m
    BY <1>4
  <2> QED BY <2>1
<1>9. \A i \in 0 .. n : t[m + i] = r[i]
  <2> TAKE i \in 0 .. n
  <2>1. m + i \in 0 .. m + n /\ (m + i) - m = i
    BY <1>4
  <2>2. CASE i = 0
    <3>1. m + i = m /\ m \in 0 .. m
      BY <1>4, <2>2
    <3>2. t[m] = q[m]
      BY <1>8, <3>1
    <3> QED BY <1>5, <1>6, <2>2, <3>1, <3>2
  <2>3. CASE i # 0
    <3>1. ~(m + i <= m)
      BY <1>4, <2>3
    <3> QED BY <2>1, <3>1
  <2> QED BY <2>2, <2>3
<1> HIDE DEF t
<1>10. t[0] = a /\ t[m + n] = c
  <2>1. 0 \in 0 .. m /\ n \in 0 .. n
    BY <1>4
  <2> QED BY <1>5, <1>6, <1>8, <1>9, <2>1
<1>11. ASSUME NEW i \in 1 .. m + n PROVE Enough(h[i], t[i - 1], t[i])
  <2>1. CASE i <= m
    <3>1. i \in 1 .. m /\ i \in 0 .. m /\ i - 1 \in 0 .. m
      BY <1>4, <2>1
    <3>2. h[i] = f[i]
      BY <1>4, <2>1 DEF h
    <3> QED BY <1>5, <1>8, <3>1, <3>2
  <2>2. CASE ~(i <= m)
    <3> DEFINE k == i - m
    <3>1. k \in 1 .. n /\ k \in 0 .. n /\ k - 1 \in 0 .. n
      BY <1>4, <2>2
    <3>2. h[i] = g[k]
      BY <1>4, <2>2 DEF h
    <3>3. i = m + k /\ i - 1 = m + (k - 1)
      BY <1>4
    <3> HIDE DEF k
    <3>4. t[i] = r[k] /\ t[i - 1] = r[k - 1]
      BY <1>9, <3>1, <3>3
    <3> QED BY <1>6, <3>1, <3>2, <3>4
  <2> QED BY <2>1, <2>2
<1>12. Bounding(h, t, a, c)
  <2>1. Len(h) = m + n
    BY <1>4 DEF h
  <2> QED BY <1>7, <1>10, <1>11, <2>1 DEF Bounding
<1>13. h \in Seq(Letter)
  BY <1>4 DEF h
<1>14. Readable(h, a, c)
  BY <1>12, <1>13 DEF Readable
<1> QED BY <1>14 DEF h

\* One character.
LEMMA ReadableCharacter ==
  ASSUME NEW c \in Letter, NEW a \in 0 .. 3, NEW b \in 0 .. 3,
         Enough(c, a, b)
  PROVE  Readable(<<c>>, a, b)
<1> DEFINE q == [i \in 0 .. 1 |-> IF i = 0 THEN a ELSE b]
<1>1. Len(<<c>>) = 1 /\ <<c>> \in Seq(Letter) /\ <<c>>[1] = c
  OBVIOUS
<1>2. q \in [0 .. 1 -> 0 .. 3] /\ q[0] = a /\ q[1] = b
  OBVIOUS
<1> HIDE DEF q
<1>3. ASSUME NEW i \in 1 .. 1 PROVE Enough(<<c>>[i], q[i - 1], q[i])
  <2>1. i = 1 /\ i - 1 = 0
    OBVIOUS
  <2> QED BY <1>1, <1>2, <2>1
<1>4. Bounding(<<c>>, q, a, b)
  BY <1>1, <1>2, <1>3 DEF Bounding
<1> QED BY <1>1, <1>4 DEF Readable

LEMMA ReadableNothing ==
  ASSUME NEW a \in 0 .. 3
  PROVE  Readable(<<>>, a, a)
<1> DEFINE q == [i \in 0 .. 0 |-> a]
<1>1. Len(<<>>) = 0 /\ <<>> \in Seq(Letter)
  OBVIOUS
<1>2. q \in [0 .. 0 -> 0 .. 3] /\ q[0] = a
  OBVIOUS
<1> HIDE DEF q
<1>3. Bounding(<<>>, q, a, a)
  <2>1. 1 .. 0 = {}
    OBVIOUS
  <2> QED BY <1>1, <1>2, <2>1 DEF Bounding
<1> QED BY <1>1, <1>3 DEF Readable

-----------------------------------------------------------------------------
(* Numbers, entries and pictures as text.                                  *)

DigitFor(n) == <<CHOOSE d \in DOMAIN DigitOf : DigitOf[d] = n % 10>>
DecimalRow(n, f) ==
  IF n < 10 THEN DigitFor(n) ELSE f[n \div 10] \o DigitFor(n)
IsDecimal(f, m) == f = [n \in 0 .. m |-> DecimalRow(n, f)]

LEMMA Tenth ==
  ASSUME NEW n \in Nat, n >= 10
  PROVE  n \div 10 \in Nat /\ n \div 10 < n
OBVIOUS

LEMMA DecimalExists ==
  ASSUME NEW m \in Nat
  PROVE  \E f : IsDecimal(f, m)
<1> DEFINE Bad == {k \in Nat : \A f : ~IsDecimal(f, k)}
<1>1. ASSUME Bad # {} PROVE FALSE
  <2>1. Bad \subseteq Nat
    OBVIOUS
  <2> HIDE DEF Bad
  <2>2. PICK k \in Bad : \A n \in Bad : k <= n
    BY <1>1, <2>1, LeastNumber
  <2>3. k \in Nat /\ \A f : ~IsDecimal(f, k)
    BY <2>2 DEF Bad
  <2>4. PICK f : k # 0 => IsDecimal(f, k - 1)
    <3>1. CASE k = 0
      BY <3>1
    <3>2. CASE k # 0
      <4>1. k - 1 \in Nat /\ ~(k <= k - 1)
        BY <2>3, <3>2
      <4>2. k - 1 \notin Bad
        BY <2>2, <4>1
      <4> QED BY <4>1, <4>2 DEF Bad
    <3> QED BY <3>1, <3>2
  <2> DEFINE g == [n \in 0 .. k |-> IF n = k THEN DecimalRow(k, f) ELSE f[n]]
  <2>5. ASSUME NEW n \in 0 .. k PROVE g[n] = DecimalRow(n, g)
    <3>1. g[n] = DecimalRow(n, f)
      <4>1. CASE n = k
        BY <4>1
      <4>2. CASE n # k
        <5>1. k # 0 /\ n \in 0 .. k - 1
          BY <2>3, <4>2
        <5>2. f[n] = DecimalRow(n, f)
          BY <2>4, <5>1 DEF IsDecimal
        <5> QED BY <4>2, <5>2
      <4> QED BY <4>1, <4>2
    <3>2. ASSUME n >= 10 PROVE g[n \div 10] = f[n \div 10]
      <4>1. n \div 10 \in Nat /\ n \div 10 < n
        BY <2>3, <3>2, Tenth
      <4>2. n \div 10 \in 0 .. k /\ n \div 10 # k
        BY <2>3, <4>1
      <4> QED BY <4>2
    <3> HIDE DEF g
    <3>3. n \in Nat
      BY <2>3
    <3>4. n < 10 \/ n >= 10
      BY <3>3
    <3> QED BY <3>1, <3>2, <3>4 DEF DecimalRow
  <2>6. g = [n \in 0 .. k |-> g[n]]
    OBVIOUS
  <2> HIDE DEF g
  <2>7. IsDecimal(g, k)
    BY <2>5, <2>6 DEF IsDecimal
  <2> QED BY <2>3, <2>7
<1> QED BY <1>1

LEMMA DecimalIs == Decimal = [n \in Nat |-> DecimalRow(n, Decimal)]
<1> DEFINE F(m) == CHOOSE f : IsDecimal(f, m)
           g == [n \in Nat |-> F(n)[n]]
<1>1. ASSUME NEW m \in Nat, NEW n \in Nat, n <= m
      PROVE  F(m)[n] = DecimalRow(n, F(m))
  <2>1. IsDecimal(F(m), m)
    BY DecimalExists
  <2> HIDE DEF F
  <2>2. n \in 0 .. m
    BY <1>1
  <2> QED BY <2>1, <2>2 DEF IsDecimal
<1> HIDE DEF F
<1> DEFINE Bad == {n \in Nat : \E m, k \in Nat : n <= m /\ n <= k /\ F(m)[n] # F(k)[n]}
<1>2. ASSUME Bad # {} PROVE FALSE
  <2>1. Bad \subseteq Nat
    OBVIOUS
  <2>2. PICK n \in Bad : \A i \in Bad : n <= i
    <3> HIDE DEF Bad
    <3> QED BY <1>2, <2>1, LeastNumber
  <2>3. n \in Nat
    OBVIOUS
  <2>4. PICK m \in Nat, k \in Nat : n <= m /\ n <= k /\ F(m)[n] # F(k)[n]
    OBVIOUS
  <2>5. F(m)[n] = DecimalRow(n, F(m)) /\ F(k)[n] = DecimalRow(n, F(k))
    BY <1>1, <2>3, <2>4
  <2>6. n >= 10
    BY <2>3, <2>4, <2>5 DEF DecimalRow
  <2>7. F(m)[n \div 10] = F(k)[n \div 10]
    <3>1. n \div 10 \in Nat /\ n \div 10 < n
      BY <2>3, <2>6, Tenth
    <3>2. n \div 10 <= m /\ n \div 10 <= k /\ ~(n <= n \div 10)
      BY <2>3, <2>4, <3>1
    <3>3. n \div 10 \notin Bad
      BY <2>2, <3>2
    <3> QED BY <3>1, <3>2, <3>3
  <2>8. ~(n < 10)
    BY <2>3, <2>6
  <2> QED BY <2>4, <2>5, <2>7, <2>8 DEF DecimalRow
<1>3. ASSUME NEW n \in Nat PROVE g[n] = DecimalRow(n, g)
  <2>1. g[n] = F(n)[n] /\ F(n)[n] = DecimalRow(n, F(n))
    BY <1>1
  <2>2. ASSUME ~(n < 10) PROVE F(n)[n \div 10] = g[n \div 10]
    <3>1. n >= 10
      BY <2>2
    <3>2. n \div 10 \in Nat /\ n \div 10 < n
      BY <3>1, Tenth
    <3>3. n \div 10 <= n /\ n \div 10 <= n \div 10
      BY <3>2
    <3>4. n \div 10 \notin Bad
      BY <1>2
    <3>5. F(n)[n \div 10] = F(n \div 10)[n \div 10]
      BY <3>2, <3>3, <3>4
    <3> QED BY <3>2, <3>5
  <2> HIDE DEF g
  <2> QED BY <2>1, <2>2 DEF DecimalRow
<1>4. g = [n \in Nat |-> g[n]]
  OBVIOUS
<1> HIDE DEF g
<1>5. g = [n \in Nat |-> DecimalRow(n, g)]
  BY <1>3, <1>4
<1>6. Decimal = CHOOSE f : f = [n \in Nat |-> DecimalRow(n, f)]
  BY Zenon DEF Decimal, DecimalRow, DigitFor
<1> QED BY <1>5, <1>6, Zenon

LEMMA AsMany ==
  ASSUME NEW a \in 0 .. 3
  PROVE  a >= a + 0
OBVIOUS

LEMMA EnoughSame ==
  ASSUME NEW c, NEW a \in 0 .. 3, c # ","
  PROVE  Enough(c, a, a)
<1>1. a >= a + 0
  BY AsMany, Zenon
<1> QED BY <1>1, Zenon DEF Enough

LEMMA EnoughMore ==
  ASSUME NEW c, NEW a \in 0 .. 2
  PROVE  Enough(c, a, a + 1)
<1>1. a + 1 >= a + 1 /\ a + 1 >= a + 0
  OBVIOUS
<1>2. CASE c = ","
  BY <1>1, <1>2 DEF Enough
<1>3. CASE c # ","
  BY <1>1, <1>3 DEF Enough
<1> QED BY <1>2, <1>3

LEMMA TwoCharacters ==
  ASSUME NEW a, NEW b
  PROVE  <<a>> \o <<b>> = <<a, b>>
<1> DEFINE s == <<a>>
           t == <<b>>
           u == <<a, b>>
           S == {a, b}
<1>1. s \in Seq(S) /\ t \in Seq(S) /\ u \in Seq(S)
  OBVIOUS
<1>2. Len(s) = 1 /\ Len(t) = 1 /\ s[1] = a /\ t[1] = b
  OBVIOUS
<1>3. Len(u) = 2 /\ u[1] = a /\ u[2] = b
  OBVIOUS
<1> HIDE DEF s, t, u, S
<1> DEFINE v == s \o t
<1>4. /\ v \in Seq(S) /\ Len(v) = Len(s) + Len(t)
      /\ \A i \in 1 .. Len(s) + Len(t) : v[i] = IF i <= Len(s) THEN s[i] ELSE t[i - Len(s)]
  BY <1>1, ConcatProperties, Zenon
<1> HIDE DEF v
<1>5. Len(v) = 2 /\ \A i \in 1 .. 2 : v[i] = u[i]
  <2>1. Len(v) = 2 /\ \A i \in 1 .. 2 : v[i] = IF i <= 1 THEN s[i] ELSE t[i - 1]
    <3>1. Len(s) + Len(t) = 2
      BY <1>2
    <3> QED BY <1>2, <1>4, <3>1, Zenon
  <2>2. v[1] = s[1] /\ v[2] = t[1]
    <3>1. 1 \in 1 .. 2 /\ 2 \in 1 .. 2
      OBVIOUS
    <3>2. /\ v[1] = IF 1 <= 1 THEN s[1] ELSE t[1 - 1]
          /\ v[2] = IF 2 <= 1 THEN s[2] ELSE t[2 - 1]
      BY <2>1, <3>1, Zenon
    <3>3. 1 <= 1 /\ ~(2 <= 1) /\ 2 - 1 = 1
      OBVIOUS
    <3> QED BY <3>2, <3>3
  <2>3. \A i \in 1 .. 2 : i = 1 \/ i = 2
    OBVIOUS
  <2> QED BY <1>2, <1>3, <2>1, <2>2, <2>3, Zenon
<1>6. \A i \in 1 .. Len(v) : v[i] = u[i]
  BY <1>5, Zenon
<1>7. v = u
  BY <1>1, <1>3, <1>4, <1>5, <1>6, SeqEqual, Zenon
<1> QED BY <1>7, Zenon DEF s, t, u, v

LEMMA ReadableDigit ==
  ASSUME NEW n \in Nat, NEW a \in 0 .. 3
  PROVE  Readable(DigitFor(n), a, a)
<1> DEFINE d == CHOOSE e \in DOMAIN DigitOf : DigitOf[e] = n % 10
<1>1. n % 10 \in 0 .. 9
  OBVIOUS
<1>2. d \in DOMAIN DigitOf
  BY <1>1, FileAssumption
<1> HIDE DEF d
<1>3. d \in Letter /\ d # "," /\ d # "}"
  BY <1>2, FileAssumption DEF Letter
<1>4. Enough(d, a, a)
  BY <1>3, EnoughSame
<1>5. Readable(<<d>>, a, a)
  BY <1>3, <1>4, ReadableCharacter
<1> QED BY <1>5 DEF DigitFor, d

LEMMA ReadableNumber ==
  ASSUME NEW n \in Nat, NEW a \in 0 .. 3
  PROVE  Readable(Decimal[n], a, a)
<1> DEFINE Bad == {k \in Nat : ~Readable(Decimal[k], a, a)}
<1>1. ASSUME Bad # {} PROVE FALSE
  <2>1. Bad \subseteq Nat
    OBVIOUS
  <2>2. PICK k \in Bad : \A i \in Bad : k <= i
    <3> HIDE DEF Bad
    <3> QED BY <1>1, <2>1, LeastNumber
  <2>3. k \in Nat /\ ~Readable(Decimal[k], a, a)
    OBVIOUS
  <2>4. Decimal[k] = DecimalRow(k, Decimal)
    BY <2>3, DecimalIs
  <2>5. Readable(DigitFor(k), a, a)
    BY <2>3, ReadableDigit
  <2>6. ~(k < 10)
    BY <2>3, <2>4, <2>5 DEF DecimalRow
  <2>7. k \div 10 \in Nat /\ k \div 10 < k
    <3>1. k >= 10
      BY <2>3, <2>6
    <3> QED BY <2>3, <3>1, Tenth
  <2>8. k \div 10 \notin Bad
    <3>1. ~(k <= k \div 10)
      BY <2>3, <2>7
    <3> QED BY <2>2, <3>1
  <2>9. Readable(Decimal[k \div 10], a, a)
    BY <2>7, <2>8
  <2>10. Readable(Decimal[k \div 10] \o DigitFor(k), a, a)
    BY <2>5, <2>9, ReadableTogether
  <2> QED BY <2>3, <2>4, <2>6, <2>10 DEF DecimalRow
<1>2. n \notin Bad
  BY <1>1
<1> QED BY <1>2

\* A comma and a space, the braces.
LEMMA ReadableMarks ==
  /\ Readable(<<"{">>, 1, 1)
  /\ \A a \in 0 .. 2 : Readable(<<",", " ">>, a, a + 1)
  /\ Readable(<<"}", ",">>, 3, 1)
<1>1. "{" \in Letter /\ "}" \in Letter /\ "," \in Letter /\ " " \in Letter
  BY DEF Letter
<1> HIDE DEF Letter
<1> DEFINE R(f, a, b) == Readable(f, a, b)
<1>2. ASSUME NEW c \in Letter, NEW a \in 0 .. 3, NEW b \in 0 .. 3, Enough(c, a, b)
      PROVE  R(<<c>>, a, b)
  BY <1>2, ReadableCharacter
<1> HIDE DEF R
<1>3. R(<<"{">>, 1, 1)
  <2>1. 1 \in 0 .. 3 /\ "{" # ","
    OBVIOUS
  <2>2. Enough("{", 1, 1)
    BY <2>1, EnoughSame
  <2> QED BY <1>1, <1>2, <2>1, <2>2
<1>4. ASSUME NEW a \in 0 .. 2 PROVE Readable(<<",", " ">>, a, a + 1)
  <2>1. a \in 0 .. 3 /\ a + 1 \in 0 .. 3 /\ " " # ","
    OBVIOUS
  <2>2. Enough(",", a, a + 1) /\ Enough(" ", a + 1, a + 1)
    BY <2>1, EnoughMore, EnoughSame
  <2>3. R(<<",">>, a, a + 1) /\ R(<<" ">>, a + 1, a + 1)
    BY <1>1, <1>2, <2>1, <2>2
  <2>4. Readable(<<",">> \o <<" ">>, a, a + 1)
    BY <2>3, ReadableTogether DEF R
  <2> QED BY <2>4, TwoCharacters, Zenon
<1>5. Readable(<<"}", ",">>, 3, 1)
  <2>1. 3 \in 0 .. 3 /\ 0 \in 0 .. 3 /\ 0 \in 0 .. 2 /\ 1 \in 0 .. 3 /\ 0 + 1 = 1
    OBVIOUS
  <2>2. Enough("}", 3, 0)
    BY Zenon DEF Enough
  <2>3. Enough(",", 0, 0 + 1)
    BY <2>1, EnoughMore, Zenon
  <2>4. R(<<"}">>, 3, 0)
    BY <1>1, <1>2, <2>1, <2>2, Zenon
  <2>5. R(<<",">>, 0, 0 + 1)
    BY <1>1, <1>2, <2>1, <2>3, Zenon
  <2>6. Readable(<<"}">> \o <<",">>, 3, 0 + 1)
    BY <2>4, <2>5, ReadableTogether, Zenon DEF R
  <2> QED BY <2>1, <2>6, TwoCharacters, Zenon
<1> QED BY <1>3, <1>4, <1>5 DEF R

LEMMA ReadableEntry ==
  ASSUME NEW p \in [x : Nat, y : Nat, colour : Nat]
  PROVE  Readable(EntryText(p), 1, 1)
<1>1. p.x \in Nat /\ p.y \in Nat /\ p.colour \in Nat
  OBVIOUS
<1> DEFINE x == Decimal[p.x]
           y == Decimal[p.y]
           c == Decimal[p.colour]
<1>2. Readable(x, 1, 1) /\ Readable(y, 2, 2) /\ Readable(c, 3, 3)
  BY <1>1, ReadableNumber
<1>3. /\ Readable(<<"{">>, 1, 1) /\ Readable(<<"}", ",">>, 3, 1)
      /\ Readable(<<",", " ">>, 1, 2) /\ Readable(<<",", " ">>, 2, 3)
  <2>1. \A a \in 0 .. 2 : Readable(<<",", " ">>, a, a + 1)
    BY ReadableMarks
  <2>2. 1 \in 0 .. 2 /\ 2 \in 0 .. 2 /\ 1 + 1 = 2 /\ 2 + 1 = 3
    OBVIOUS
  <2>3. Readable(<<",", " ">>, 1, 1 + 1) /\ Readable(<<",", " ">>, 2, 2 + 1)
    BY <2>1, <2>2
  <2> QED BY <2>2, <2>3, ReadableMarks
<1> HIDE DEF x, y, c
<1>4. Readable(<<"{">> \o x, 1, 1)
  BY <1>2, <1>3, ReadableTogether
<1>5. Readable((<<"{">> \o x) \o <<",", " ">>, 1, 2)
  BY <1>3, <1>4, ReadableTogether
<1>6. Readable(((<<"{">> \o x) \o <<",", " ">>) \o y, 1, 2)
  BY <1>2, <1>5, ReadableTogether
<1>7. Readable((((<<"{">> \o x) \o <<",", " ">>) \o y) \o <<",", " ">>, 1, 3)
  BY <1>3, <1>6, ReadableTogether
<1>8. Readable(((((<<"{">> \o x) \o <<",", " ">>) \o y) \o <<",", " ">>) \o c, 1, 3)
  BY <1>2, <1>7, ReadableTogether
<1>9. Readable((((((<<"{">> \o x) \o <<",", " ">>) \o y) \o <<",", " ">>) \o c)
                 \o <<"}", ",">>, 1, 1)
  BY <1>3, <1>8, ReadableTogether
<1> QED BY <1>9, Zenon DEF EntryText, x, y, c

-----------------------------------------------------------------------------
(* The entries of a picture, one behind the other.                         *)

FlatRow(s, i, f) == IF i = 1 THEN s[i] ELSE f[i - 1] \o s[i]
IsFlat(s, m, f) == f = [i \in 1 .. m |-> FlatRow(s, i, f)]

LEMMA FlatExists ==
  ASSUME NEW s, NEW m \in Nat
  PROVE  \E f : IsFlat(s, m, f)
<1> DEFINE Bad == {k \in Nat : \A f : ~IsFlat(s, k, f)}
<1>1. ASSUME Bad # {} PROVE FALSE
  <2>1. Bad \subseteq Nat
    OBVIOUS
  <2> HIDE DEF Bad
  <2>2. PICK k \in Bad : \A n \in Bad : k <= n
    BY <1>1, <2>1, LeastNumber
  <2>3. k \in Nat /\ \A f : ~IsFlat(s, k, f)
    BY <2>2 DEF Bad
  <2>4. PICK f : k # 0 => IsFlat(s, k - 1, f)
    <3>1. CASE k = 0
      BY <3>1
    <3>2. CASE k # 0
      <4>1. k - 1 \in Nat /\ ~(k <= k - 1)
        BY <2>3, <3>2
      <4>2. k - 1 \notin Bad
        BY <2>2, <4>1
      <4> QED BY <4>1, <4>2 DEF Bad
    <3> QED BY <3>1, <3>2
  <2> DEFINE g == [n \in 1 .. k |-> IF n = k THEN FlatRow(s, k, f) ELSE f[n]]
  <2>5. ASSUME NEW n \in 1 .. k PROVE g[n] = FlatRow(s, n, g)
    <3>1. g[n] = FlatRow(s, n, f)
      <4>1. CASE n = k
        BY <4>1
      <4>2. CASE n # k
        <5>1. k # 0 /\ n \in 1 .. k - 1
          BY <2>3, <4>2
        <5>2. f[n] = FlatRow(s, n, f)
          <6> DEFINE row(i) == FlatRow(s, i, f)
          <6>1. f = [i \in 1 .. k - 1 |-> row(i)]
            BY <2>4, <5>1 DEF IsFlat
          <6> HIDE DEF row
          <6>2. f[n] = row(n)
            BY <5>1, <6>1
          <6> QED BY <6>2 DEF row
        <5> QED BY <4>2, <5>2
      <4> QED BY <4>1, <4>2
    <3>2. ASSUME n # 1 PROVE g[n - 1] = f[n - 1]
      <4>1. n - 1 \in 1 .. k /\ n - 1 # k
        BY <2>3, <3>2
      <4> QED BY <4>1
    <3> HIDE DEF g
    <3> QED BY <3>1, <3>2 DEF FlatRow
  <2>6. g = [n \in 1 .. k |-> g[n]]
    OBVIOUS
  <2> HIDE DEF g
  <2>7. IsFlat(s, k, g)
    BY <2>5, <2>6 DEF IsFlat
  <2> QED BY <2>3, <2>7
<1> QED BY <1>1

LEMMA FlattenIs ==
  ASSUME NEW s, Len(s) \in Nat, Len(s) # 0
  PROVE  \E f : IsFlat(s, Len(s), f) /\ FlattenSeq(s) = f[Len(s)]
<1> DEFINE F == CHOOSE f : IsFlat(s, Len(s), f)
<1>1. IsFlat(s, Len(s), F)
  BY FlatExists
<1>2. FlattenSeq(s) = F[Len(s)]
  BY Zenon DEF FlattenSeq, IsFlat, FlatRow
<1> QED BY <1>1, <1>2

LEMMA FlatReadable ==
  ASSUME NEW n \in Nat, NEW s \in [1 .. n -> Seq(Letter)], Len(s) = n, n # 0,
         \A i \in 1 .. n : Readable(s[i], 1, 1)
  PROVE  Readable(FlattenSeq(s), 1, 1)
<1>1. PICK f : IsFlat(s, n, f) /\ FlattenSeq(s) = f[n]
  BY FlattenIs
<1>2. \A i \in 1 .. n : f[i] = FlatRow(s, i, f)
  <2> DEFINE row(i) == FlatRow(s, i, f)
  <2>1. f = [i \in 1 .. n |-> row(i)]
    BY <1>1 DEF IsFlat
  <2> HIDE DEF row
  <2>2. \A i \in 1 .. n : f[i] = row(i)
    BY <2>1
  <2> QED BY <2>2 DEF row
<1> DEFINE Bad == {k \in Nat : k \in 1 .. n /\ ~Readable(f[k], 1, 1)}
<1>3. ASSUME Bad # {} PROVE FALSE
  <2>1. Bad \subseteq Nat
    OBVIOUS
  <2>2. PICK k \in Bad : \A i \in Bad : k <= i
    <3> HIDE DEF Bad
    <3> QED BY <1>3, <2>1, LeastNumber
  <2>3. k \in Nat /\ k \in 1 .. n /\ ~Readable(f[k], 1, 1)
    OBVIOUS
  <2>4. f[k] = FlatRow(s, k, f) /\ Readable(s[k], 1, 1)
    BY <1>2, <2>3
  <2>5. CASE k = 1
    BY <2>3, <2>4, <2>5 DEF FlatRow
  <2>6. CASE k # 1
    <3>1. k - 1 \in Nat /\ k - 1 \in 1 .. n /\ ~(k <= k - 1)
      BY <2>3, <2>6
    <3>2. k - 1 \notin Bad
      BY <2>2, <3>1
    <3>3. Readable(f[k - 1], 1, 1)
      BY <3>1, <3>2
    <3>4. Readable(f[k - 1] \o s[k], 1, 1)
      BY <2>4, <3>3, ReadableTogether
    <3> QED BY <2>3, <2>4, <2>6, <3>4 DEF FlatRow
  <2> QED BY <2>5, <2>6
<1>4. n \in Nat /\ n \in 1 .. n
  OBVIOUS
<1>5. n \notin Bad
  BY <1>3
<1> QED BY <1>1, <1>4, <1>5

LEMMA FunctionIsSequence ==
  ASSUME NEW S, NEW n \in Nat, NEW s \in [1 .. n -> S]
  PROVE  s \in Seq(S) /\ Len(s) = n
OBVIOUS

LEMMA PictureReadable ==
  ASSUME NEW picture \in Pictures
  PROVE  Readable(PictureText(picture), 1, 1)
<1> DEFINE P == [x : Nat, y : Nat, colour : Nat]
           n == Len(picture)
           s == [k \in DOMAIN picture |-> EntryText(picture[k])]
<1> HIDE DEF P
<1>1. picture \in Seq(P)
  BY FileAssumption DEF P
<1>2. n \in Nat /\ DOMAIN picture = 1 .. n /\ \A k \in 1 .. n : picture[k] \in P
  BY <1>1, LenProperties, ElementOfSeq
<1> HIDE DEF n
<1>3. \A k \in 1 .. n : Readable(EntryText(picture[k]), 1, 1)
  BY <1>2, ReadableEntry DEF P
<1>4. \A k \in 1 .. n : EntryText(picture[k]) \in Seq(Letter)
  BY <1>3 DEF Readable
<1>5. /\ s \in [1 .. n -> Seq(Letter)]
      /\ \A k \in 1 .. n : s[k] = EntryText(picture[k])
  BY <1>2, <1>4
<1>6. PictureText(picture) = FlattenSeq(s)
  BY Zenon DEF PictureText
<1> HIDE DEF s
<1>7. Len(s) = n
  BY <1>2, <1>5, FunctionIsSequence
<1>8. CASE n = 0
  <2>1. FlattenSeq(s) = s
    BY <1>7, <1>8, Zenon DEF FlattenSeq
  <2>2. s \in Seq(Seq(Letter))
    BY <1>2, <1>5, FunctionIsSequence
  <2>3. s = <<>>
    BY <1>7, <1>8, <2>2, EmptySeq
  <2>4. Readable(<<>>, 1, 1)
    BY ReadableNothing
  <2> QED BY <1>6, <2>1, <2>3, <2>4, Zenon
<1>9. CASE n # 0
  <2>1. \A k \in 1 .. n : Readable(s[k], 1, 1)
    BY <1>3, <1>5
  <2>2. Readable(FlattenSeq(s), 1, 1)
    BY <1>2, <1>5, <1>7, <1>9, <2>1, FlatReadable
  <2> QED BY <1>6, <2>2, Zenon
<1> QED BY <1>8, <1>9

-----------------------------------------------------------------------------
(* The viewer's states.                                                    *)

ScreenTypes ==
  /\ palette \in [Entry -> [colour : Shades, used : Nat]]
  /\ dac \in [Entry -> Shades] /\ vidmem \in [Cell -> Entry]
  /\ drawn \in [Cell -> Shades \cup {-1}] /\ evicted \in BOOLEAN

\* What has been read of the file bounds how many values are kept.
ParserTypes ==
  /\ phase \in {"text", "clear", "sector", "parse", "shown"}
  /\ chain \in Nat /\ file \in Seq(Letter) /\ pos \in 0 .. Len(file)
  /\ num \in Seq(0 .. 9) /\ vals \in Seq(Int)
  /\ phase = "text" => pos = 0 /\ vals = <<>>
  /\ \E q : Bounding(file, q, 1, 1) /\ Len(vals) <= q[pos]

\* An empty screen and no file: at the start and after a reset.
NoPicture ==
  /\ phase = "text"
  /\ palette = [i \in Entry |-> [colour |-> 0, used |-> 0]]
  /\ dac = [i \in Entry |-> 0] /\ vidmem = [c \in Cell |-> 0]
  /\ file = <<>> /\ chain = 0 /\ pos = 0 /\ vals = <<>> /\ num = <<>>
  /\ drawn = [c \in Cell |-> -1] /\ evicted = FALSE

LEMMA FirstShade == 0 \in Shades
<1>1. (Colours - 1) \in Nat /\ Step \in Nat \ {0}
  BY PaletteAssumption
<1>2. (Colours - 1) \div Step \in 0 .. (Colours - 1) \div Step
  BY <1>1, QuotientGrows
<1>3. (Colours - 1) \div Step \in Int
  BY <1>1
<1> QED BY <1>2, <1>3 DEF Shades

LEMMA NoPictureTypes == NoPicture => ScreenTypes /\ ParserTypes
<1> SUFFICES ASSUME NoPicture PROVE ScreenTypes /\ ParserTypes
  OBVIOUS
<1>1. 0 \in Entry /\ 0 \in Shades
  BY PaletteAssumption, FirstShade DEF Entry
<1> HIDE DEF Entry, Shades, Cell
<1>2. palette \in [Entry -> [colour : Shades, used : Nat]]
  BY <1>1 DEF NoPicture
<1>3. /\ dac \in [Entry -> Shades] /\ vidmem \in [Cell -> Entry]
      /\ drawn \in [Cell -> Shades \cup {-1}] /\ evicted \in BOOLEAN
  BY <1>1 DEF NoPicture
<1>4. PICK q : Bounding(<<>>, q, 1, 1)
  <2>1. 1 \in 0 .. 3
    OBVIOUS
  <2> QED BY <2>1, ReadableNothing DEF Readable
<1>5. q[0] = 1
  BY <1>4 DEF Bounding
<1>6. Len(<<>>) = 0 /\ <<>> \in Seq(Letter) /\ <<>> \in Seq(0 .. 9) /\ <<>> \in Seq(Int)
  OBVIOUS
<1>7. /\ phase = "text" /\ chain = 0 /\ pos = 0 /\ file = <<>> /\ num = <<>>
      /\ vals = <<>>
  BY DEF NoPicture
<1>8. chain \in Nat /\ pos \in 0 .. Len(file) /\ Len(vals) <= q[pos]
  BY <1>5, <1>6, <1>7
<1>9. /\ file \in Seq(Letter) /\ num \in Seq(0 .. 9) /\ vals \in Seq(Int)
      /\ Bounding(file, q, 1, 1)
  BY <1>4, <1>6, <1>7, Zenon
<1>10. ParserTypes
  BY <1>7, <1>8, <1>9, Zenon DEF ParserTypes
<1> QED BY <1>2, <1>3, <1>10, Zenon DEF ScreenTypes

LEMMA DrawTypes ==
  ASSUME ScreenTypes, NEW x, NEW y, NEW colour \in Int, DrawPixel(x, y, colour)
  PROVE  ScreenTypes'
<1> DEFINE s == Shade(colour)
           p == <<x, y>>
<1>1. s \in Shades
  BY ShadeTypes
<1> HIDE DEF s
<1> USE DEF ScreenTypes
<1>2. CASE p \notin Cell
  BY <1>2 DEF DrawPixel
<1>3. CASE p \in Cell
  <2>1. PICK i \in Entry :
          /\ IF i \in Exact(s)
             THEN /\ palette' = [palette EXCEPT ![i].used = @ + 1]
                  /\ UNCHANGED <<dac, evicted>>
             ELSE /\ palette' = [palette EXCEPT ![i] =
                                   [colour |-> s, used |-> 1]]
                  /\ dac' = [dac EXCEPT ![i] = s]
                  /\ evicted' = (evicted \/ palette[i].used > 0)
          /\ vidmem' = [vidmem EXCEPT ![p] = i]
          /\ drawn' = [drawn EXCEPT ![p] = s]
    BY <1>3 DEF DrawPixel, s
  <2> HIDE DEF p
  <2>2. vidmem' \in [Cell -> Entry] /\ drawn' \in [Cell -> Shades \cup {-1}]
    BY <1>1, <2>1
  <2>3. CASE i \in Exact(s)
    <3>1. palette' = [palette EXCEPT ![i].used = @ + 1] /\ UNCHANGED <<dac, evicted>>
      BY <2>1, <2>3
    <3>2. palette' \in [Entry -> [colour : Shades, used : Nat]]
      BY <3>1
    <3> QED BY <2>2, <3>1, <3>2
  <2>4. CASE i \notin Exact(s)
    <3>1. /\ palette' = [palette EXCEPT ![i] = [colour |-> s, used |-> 1]]
          /\ dac' = [dac EXCEPT ![i] = s]
          /\ evicted' = (evicted \/ palette[i].used > 0)
      BY <2>1, <2>4
    <3>2. palette' \in [Entry -> [colour : Shades, used : Nat]]
      <4>1. [colour |-> s, used |-> 1] \in [colour : Shades, used : Nat]
        BY <1>1
      <4> QED BY <3>1, <4>1
    <3>3. dac' \in [Entry -> Shades]
      BY <1>1, <3>1
    <3>4. evicted' \in BOOLEAN
      BY <3>1
    <3> QED BY <2>2, <3>2, <3>3, <3>4
  <2> QED BY <2>3, <2>4
<1> QED BY <1>2, <1>3

\* Every step that draws.
LEMMA ValsTypes ==
  ASSUME num \in Seq(0 .. 9), vals \in Seq(Int)
  PROVE  /\ ValsWith \in Seq(Int) /\ Len(ValsWith) <= Len(vals) + 1
         /\ \A i : ValAt(i) \in Int
<1>1. ConvertToInt(num) \in Int
  BY ConvertIsInt
<1>2. Len(vals) \in Nat
  BY LenProperties
<1>3. ValsWith = vals \/ ValsWith = Append(vals, ConvertToInt(num))
  BY DEF ValsWith
<1>4. /\ Append(vals, ConvertToInt(num)) \in Seq(Int)
      /\ Len(Append(vals, ConvertToInt(num))) = Len(vals) + 1
  BY <1>1
<1>5. ValsWith \in Seq(Int) /\ Len(ValsWith) <= Len(vals) + 1
  <2>1. CASE ValsWith = vals
    <3>1. Len(vals) <= Len(vals) + 1
      BY <1>2
    <3> QED BY <2>1, <3>1, Zenon
  <2>2. CASE ValsWith = Append(vals, ConvertToInt(num))
    <3>1. Len(vals) + 1 <= Len(vals) + 1
      BY <1>2
    <3> QED BY <1>4, <2>2, <3>1, Zenon
  <2> QED BY <1>3, <2>1, <2>2
<1>6. ASSUME NEW i PROVE ValAt(i) \in Int
  <2>1. CASE i \in DOMAIN ValsWith
    <3>1. ValsWith[i] \in Int
      BY <1>5, <2>1, LenProperties, ElementOfSeq
    <3> QED BY <2>1, <3>1 DEF ValAt
  <2>2. CASE i \notin DOMAIN ValsWith
    BY <2>2 DEF ValAt
  <2> QED BY <2>1, <2>2
<1> QED BY <1>5, <1>6

\* A character of the file: the values kept never exceed what was read.
LEMMA WithDigitTypes ==
  ASSUME NEW s \in Seq(0 .. 9), NEW d \in 0 .. 9
  PROVE  /\ WithDigit(s, d) \in Seq(0 .. 9) /\ WithDigit(<<>>, d) # <<>>
         /\ s # <<>> => WithDigit(s, d) # <<>>
         /\ Len(s) < MaxDigits => WithDigit(s, d) = Append(s, d)
<1>1. MaxDigits \in Nat \ {0}
  BY FileAssumption, Zenon
<1>2. Append(s, d) \in Seq(0 .. 9) /\ Append(s, d) # <<>>
  BY AppendProperties
<1>3. Append(<<>>, d) # <<>> /\ Len(<<>>) = 0
  OBVIOUS
<1>4. 0 < MaxDigits
  BY <1>1
<1>5. WithDigit(<<>>, d) = Append(<<>>, d)
  BY <1>3, <1>4, Zenon DEF WithDigit
<1> QED BY <1>2, <1>3, <1>5, Zenon DEF WithDigit

LEMMA ParseKeepsVals ==
  ASSUME ParserTypes, ParseChar
  PROVE  ParserTypes'
<1> DEFINE c == file[pos + 1]
<1>1. /\ phase = "parse" /\ pos < Len(file) /\ pos' = pos + 1
      /\ phase' = IF pos' % SectorSize = 0 \/ pos' = Len(file) THEN "sector"
                  ELSE "parse"
      /\ CASE c \in DOMAIN DigitOf -> /\ num' = WithDigit(num, DigitOf[c])
                                     /\ UNCHANGED vals
           [] c = "," -> num' = <<>> /\ vals' = ValsWith
           [] c = "}" -> num' = <<>> /\ vals' = <<>>
           [] OTHER -> UNCHANGED <<num, vals>>
      /\ file' = file /\ chain' = chain
  BY DEF ParseChar
<1>2. /\ chain \in Nat /\ file \in Seq(Letter) /\ pos \in 0 .. Len(file)
      /\ num \in Seq(0 .. 9) /\ vals \in Seq(Int)
  BY DEF ParserTypes
<1>3. PICK q : Bounding(file, q, 1, 1) /\ Len(vals) <= q[pos]
  BY DEF ParserTypes
<1> HIDE DEF c
<1>4. Len(file) \in Nat /\ Len(vals) \in Nat
  BY <1>2, LenProperties
<1>12. pos < Len(file) /\ pos' = pos + 1
  BY <1>1, Zenon
<1>13. pos \in 0 .. Len(file)
  BY <1>2, Zenon
<1>5. /\ pos + 1 \in 1 .. Len(file) /\ (pos + 1) - 1 = pos
      /\ pos + 1 \in 0 .. Len(file) /\ pos' \in 0 .. Len(file)
  BY <1>4, <1>12, <1>13
<1>6. /\ q[pos] \in 0 .. 3 /\ q[pos + 1] \in 0 .. 3 /\ Enough(c, q[pos], q[pos + 1])
  BY <1>2, <1>3, <1>5 DEF Bounding, c
<1>7. num' \in Seq(0 .. 9) /\ vals' \in Seq(Int) /\ Len(vals') <= q[pos + 1]
  <2>1. CASE c \in DOMAIN DigitOf
    <3>1. c # "," /\ c # "}"
      BY <2>1, FileAssumption
    <3>2. num' = WithDigit(num, DigitOf[c]) /\ vals' = vals
      BY <1>1, <2>1, <3>1, Zenon
    <3>3. DigitOf[c] \in 0 .. 9
      BY <2>1, FileAssumption
    <3>4. num' \in Seq(0 .. 9)
      BY <1>2, <3>2, <3>3, WithDigitTypes
    <3>5. q[pos + 1] >= q[pos] + 0
      BY <1>6, <3>1, Zenon DEF Enough
    <3>6. Len(vals) <= q[pos + 1]
      BY <1>3, <1>4, <1>6, <3>5
    <3> QED BY <1>2, <3>2, <3>4, <3>6, Zenon
  <2>2. CASE c = ","
    <3>1. c \notin DOMAIN DigitOf /\ c # "}"
      BY <2>2, FileAssumption
    <3>2. num' = <<>> /\ vals' = ValsWith
      BY <1>1, <2>2, <3>1, Zenon
    <3>3. ValsWith \in Seq(Int) /\ Len(ValsWith) <= Len(vals) + 1
      BY <1>2, ValsTypes
    <3>4. q[pos + 1] >= q[pos] + 1
      BY <1>6, <2>2, <3>1, Zenon DEF Enough
    <3>5. Len(ValsWith) \in Nat
      BY <3>3, LenProperties
    <3>6. Len(ValsWith) <= q[pos + 1]
      BY <1>3, <1>4, <1>6, <3>3, <3>4, <3>5
    <3>7. <<>> \in Seq(0 .. 9)
      OBVIOUS
    <3> QED BY <3>2, <3>3, <3>6, <3>7, Zenon
  <2>3. CASE c = "}"
    <3>1. c \notin DOMAIN DigitOf /\ c # ","
      BY <2>3, FileAssumption
    <3>2. num' = <<>> /\ vals' = <<>>
      BY <1>1, <2>3, <3>1, Zenon
    <3>3. <<>> \in Seq(0 .. 9) /\ <<>> \in Seq(Int) /\ Len(<<>>) = 0 /\ Len(<<>>) <= q[pos + 1]
      BY <1>6
    <3> QED BY <3>2, <3>3, Zenon
  <2>4. CASE c \notin DOMAIN DigitOf /\ c # "," /\ c # "}"
    <3>1. num' = num /\ vals' = vals
      BY <1>1, <2>4, Zenon
    <3>2. q[pos + 1] >= q[pos] + 0
      BY <1>6, <2>4, Zenon DEF Enough
    <3>3. Len(vals) <= q[pos + 1]
      BY <1>3, <1>4, <1>6, <3>2
    <3> QED BY <1>2, <3>1, <3>3, Zenon
  <2> QED BY <2>1, <2>2, <2>3, <2>4, Zenon
<1>8. phase' = "sector" \/ phase' = "parse"
  BY <1>1, Zenon
<1>9. /\ phase' \in {"text", "clear", "sector", "parse", "shown"} /\ phase' # "text"
  BY <1>8
<1>10. chain' \in Nat /\ file' \in Seq(Letter) /\ pos' \in 0 .. Len(file')
  BY <1>1, <1>2, <1>5
<1>11. Bounding(file', q, 1, 1) /\ Len(vals') <= q[pos']
  BY <1>1, <1>3, <1>7, Zenon
<1> QED BY <1>7, <1>9, <1>10, <1>11, Zenon DEF ParserTypes

LEMMA ParserStays ==
  ASSUME ParserTypes, UNCHANGED <<file, chain, pos, vals, num>>,
         phase' \in {"clear", "sector", "shown"}
  PROVE  ParserTypes'
<1>1. phase' \in {"text", "clear", "sector", "parse", "shown"} /\ phase' # "text"
  OBVIOUS
<1> QED BY <1>1, Zenon DEF ParserTypes

LEMMA PictureKeepsTypes ==
  ASSUME ScreenTypes, ParserTypes, [PictureNext]_pictureVars
  PROVE  ScreenTypes' /\ ParserTypes'
<1>1. CASE \E picture \in Pictures : Display(picture)
  <2>1. PICK picture \in Pictures : Display(picture)
    BY <1>1
  <2>2. /\ phase = "text" /\ phase' = "clear" /\ file' = PictureText(picture)
        /\ chain' \in 1 .. (Len(file') \div (SectorSize * SectorsPerCluster)) + 1
        /\ vidmem' = [c \in Cell |-> 0]
        /\ UNCHANGED <<palette, dac, pos, vals, num, drawn, evicted>>
    BY <2>1 DEF Display
  <2>3. PICK q : Bounding(file', q, 1, 1)
    BY <2>2, PictureReadable DEF Readable
  <2>4. file' \in Seq(Letter) /\ q[0] = 1
    BY <2>2, <2>3, PictureReadable DEF Readable, Bounding
  <2>5. pos = 0 /\ vals = <<>> /\ num \in Seq(0 .. 9)
    BY <2>2 DEF ParserTypes
  <2>6. pos' \in 0 .. Len(file') /\ Len(vals') <= q[pos']
    <3>1. Len(<<>>) = 0 /\ Len(file') \in Nat
      BY <2>4, LenProperties
    <3> QED BY <2>2, <2>4, <2>5, <3>1
  <2>7. chain' \in Nat
    BY <2>2
  <2>8. num' \in Seq(0 .. 9) /\ vals' \in Seq(Int)
    BY <2>2 DEF ParserTypes
  <2>9. phase' \in {"text", "clear", "sector", "parse", "shown"} /\ phase' # "text"
    BY <2>2
  <2>10. ParserTypes'
    BY <2>3, <2>4, <2>6, <2>7, <2>8, <2>9, Zenon DEF ParserTypes
  <2>11. 0 \in Entry
    BY PaletteAssumption DEF Entry
  <2>12. vidmem' \in [Cell -> Entry]
    BY <2>2, <2>11
  <2> QED BY <2>2, <2>10, <2>12 DEF ScreenTypes
<1>2. CASE ClearScreen
  <2> DEFINE undrawn == {c \in Cell : drawn[c] = -1}
             next == CHOOSE c \in undrawn :
                       \A d \in undrawn :
                         c[1] * Height + c[2] <= d[1] * Height + d[2]
  <2>1. /\ phase = "clear" /\ UNCHANGED <<file, chain, pos, vals, num>>
        /\ IF undrawn = {} THEN /\ phase' = "sector"
                                /\ UNCHANGED <<palette, dac, vidmem, drawn, evicted>>
           ELSE DrawPixel(next[1], next[2], 0) /\ phase' = phase
    BY <1>2 DEF ClearScreen, parser
  <2> HIDE DEF undrawn, next
  <2>2. phase' \in {"clear", "sector", "shown"}
    BY <2>1
  <2>3. ParserTypes'
    BY <2>1, <2>2, ParserStays
  <2>4. CASE undrawn = {}
    BY <2>1, <2>3, <2>4 DEF ScreenTypes
  <2>5. CASE undrawn # {}
    BY <2>1, <2>3, <2>5, DrawTypes
  <2> QED BY <2>4, <2>5
<1>3. CASE ReadSector
  <2>1. ScreenTypes'
    BY <1>3 DEF ReadSector, ScreenTypes
  <2>2. CASE FileRead
    <3>1. phase' \in {"clear", "sector", "shown"} /\ UNCHANGED <<file, chain, pos, vals, num>>
      BY <1>3, <2>2 DEF ReadSector
    <3> QED BY <2>1, <3>1, ParserStays
  <2>3. CASE ~FileRead
    <3>1. /\ phase' = "parse" /\ vals' = <<>> /\ num' = <<>>
          /\ UNCHANGED <<file, chain, pos>>
      BY <1>3, <2>3 DEF ReadSector, SectorStart
    <3>2. PICK q : Bounding(file, q, 1, 1)
      BY DEF ParserTypes
    <3>3. q[pos] \in 0 .. 3 /\ Len(<<>>) = 0
      BY <3>2 DEF Bounding, ParserTypes
    <3>4. /\ Len(<<>>) <= q[pos] /\ <<>> \in Seq(0 .. 9) /\ <<>> \in Seq(Int)
      BY <3>3
    <3>5. phase' \in {"text", "clear", "sector", "parse", "shown"} /\ phase' # "text"
      BY <3>1
    <3>6. chain' \in Nat /\ file' \in Seq(Letter) /\ pos' \in 0 .. Len(file')
      BY <3>1 DEF ParserTypes
    <3>7. Bounding(file', q, 1, 1) /\ Len(vals') <= q[pos']
      BY <3>1, <3>2, <3>4, Zenon
    <3>8. ParserTypes'
      BY <3>1, <3>4, <3>5, <3>6, <3>7, Zenon DEF ParserTypes
    <3> QED BY <2>1, <3>8
  <2> QED BY <2>2, <2>3
<1>4. CASE ParseChar
  <2>1. ParserTypes'
    BY <1>4, ParseKeepsVals
  <2>2. CASE file[pos + 1] = "}"
    <3>1. DrawPixel(ValAt(1), ValAt(2), ValAt(3))
      BY <1>4, <2>2 DEF ParseChar
    <3>2. ValAt(3) \in Int
      BY ValsTypes DEF ParserTypes
    <3>3. ScreenTypes'
      BY <3>1, <3>2, DrawTypes
    <3> QED BY <2>1, <3>3
  <2>3. CASE file[pos + 1] # "}"
    <3>1. UNCHANGED <<palette, dac, vidmem, drawn, evicted>>
      BY <1>4, <2>3 DEF ParseChar
    <3> QED BY <2>1, <3>1 DEF ScreenTypes
  <2> QED BY <2>2, <2>3
<1>5. CASE Reboot
  <2>1. NoPicture'
    BY <1>5 DEF Reboot, NoPicture
  <2>2. NoPicture' => ScreenTypes' /\ ParserTypes'
    BY NoPictureTypes, PTL
  <2> QED BY <2>1, <2>2
<1>6. CASE UNCHANGED pictureVars
  BY <1>6 DEF pictureVars, ScreenTypes, ParserTypes
<1> QED BY <1>1, <1>2, <1>3, <1>4, <1>5, <1>6 DEF PictureNext

LEMMA PictureTypesStart == PictureInit => ScreenTypes /\ ParserTypes
  BY NoPictureTypes DEF PictureInit, NoPicture

LEMMA PictureTypesAsStated == ScreenTypes /\ ParserTypes => PictureTypeOK
<1> SUFFICES ASSUME ScreenTypes, ParserTypes PROVE PictureTypeOK
  OBVIOUS
<1>1. PICK q : Bounding(file, q, 1, 1) /\ Len(vals) <= q[pos]
  BY DEF ParserTypes
<1>2. q[pos] \in 0 .. 3 /\ Len(vals) \in Nat
  BY <1>1, LenProperties DEF Bounding, ParserTypes
<1>3. Len(vals) <= 3
  BY <1>1, <1>2
<1> QED BY <1>3, Zenon DEF PictureTypeOK, ScreenTypes, ParserTypes
-----------------------------------------------------------------------------
(***************************************************************************)
(* The picture viewer draws what the file says: the parser's work, as if   *)
(* no sector ever ended.                                                   *)
(***************************************************************************)

\* The values, with a number that has just ended.
With(v, d) == IF d = <<>> THEN v ELSE Append(v, ConvertToInt(d))

\* from is where the entry begins, or, between two entries, where the parser is.
Outside(i) == [from |-> i, vals |-> <<>>, num |-> <<>>]
ParseStep(c, i, a) ==
  IF c \in DOMAIN DigitOf
  THEN [from |-> a.from, vals |-> a.vals, num |-> WithDigit(a.num, DigitOf[c])]
  ELSE IF c = ","
  THEN [from |-> IF a.from = i - 1 THEN i ELSE a.from,
        vals |-> With(a.vals, a.num), num |-> <<>>]
  ELSE IF c = "}" THEN Outside(i) ELSE a

IsParse(f, m, q) ==
  /\ q[0] = Outside(0)
  /\ \A i \in 1 .. m : q[i] = ParseStep(f[i], i, q[i - 1])

LEMMA ParseExists ==
  ASSUME NEW f, NEW m \in Nat
  PROVE  \E q : IsParse(f, m, q)
<1> DEFINE Bad == {k \in Nat : \A q : ~IsParse(f, k, q)}
<1>1. ASSUME Bad # {} PROVE FALSE
  <2>1. Bad \subseteq Nat
    OBVIOUS
  <2> HIDE DEF Bad
  <2>2. PICK k \in Bad : \A n \in Bad : k <= n
    BY <1>1, <2>1, LeastNumber
  <2>3. k \in Nat /\ \A q : ~IsParse(f, k, q)
    BY <2>2 DEF Bad
  <2>4. CASE k = 0
    <3> DEFINE q == [i \in {0} |-> Outside(0)]
    <3>1. q[0] = Outside(0)
      OBVIOUS
    <3> HIDE DEF q
    <3>2. 1 .. 0 = {}
      OBVIOUS
    <3> QED BY <2>3, <2>4, <3>1, <3>2 DEF IsParse
  <2>5. CASE k # 0
    <3>1. k - 1 \in Nat /\ ~(k <= k - 1)
      BY <2>3, <2>5
    <3>2. k - 1 \notin Bad
      BY <2>2, <3>1
    <3>3. PICK q : IsParse(f, k - 1, q)
      BY <3>1, <3>2 DEF Bad
    <3> DEFINE g == [i \in 0 .. k |-> IF i = k THEN ParseStep(f[k], k, q[k - 1]) ELSE q[i]]
    <3>4. g[k] = ParseStep(f[k], k, q[k - 1]) /\ \A i \in 0 .. k - 1 : g[i] = q[i]
      BY <2>3
    <3> HIDE DEF g
    <3>5. ASSUME NEW i \in 1 .. k PROVE g[i] = ParseStep(f[i], i, g[i - 1])
      <4>1. i - 1 \in 0 .. k - 1
        BY <2>3
      <4>2. CASE i = k
        BY <3>4, <4>1, <4>2
      <4>3. CASE i # k
        <5>1. i \in 1 .. k - 1 /\ i \in 0 .. k - 1
          BY <2>3, <4>3
        <5> QED BY <3>3, <3>4, <4>1, <5>1 DEF IsParse
      <4> QED BY <4>2, <4>3
    <3>6. 0 \in 0 .. k - 1
      BY <3>1
    <3>7. IsParse(f, k, g)
      BY <3>3, <3>4, <3>5, <3>6 DEF IsParse
    <3> QED BY <2>3, <3>7
  <2> QED BY <2>4, <2>5
<1> QED BY <1>1

\* Outside two entries nothing of them is kept.
Parsing(a, i) ==
  /\ a.from \in 0 .. i /\ a.num \in Seq(0 .. 9) /\ a.vals \in Seq(Int)
  /\ a.from = i => a.vals = <<>> /\ a.num = <<>>

LEMMA OutsideParses ==
  ASSUME NEW i \in Nat
  PROVE  /\ Parsing(Outside(i), i) /\ Outside(i).from = i
         /\ Outside(i).vals = <<>> /\ Outside(i).num = <<>>
<1>1. <<>> \in Seq(0 .. 9) /\ <<>> \in Seq(Int)
  OBVIOUS
<1>2. Outside(i).from = i /\ Outside(i).vals = <<>> /\ Outside(i).num = <<>>
  BY DEF Outside
<1>3. i \in 0 .. i
  OBVIOUS
<1> QED BY <1>1, <1>2, <1>3, Zenon DEF Parsing

LEMMA WithTypes ==
  ASSUME NEW d \in Seq(0 .. 9), NEW v \in Seq(Int)
  PROVE  With(v, d) \in Seq(Int)
<1>1. ConvertToInt(d) \in Int
  BY ConvertIsInt
<1>2. Append(v, ConvertToInt(d)) \in Seq(Int)
  BY <1>1
<1> QED BY <1>2 DEF With

LEMMA ParseStepTypes ==
  ASSUME NEW i \in Nat \ {0}, NEW a, Parsing(a, i - 1), NEW c
  PROVE  Parsing(ParseStep(c, i, a), i)
<1> DEFINE b == ParseStep(c, i, a)
<1>1. /\ a.from \in 0 .. i - 1 /\ a.num \in Seq(0 .. 9) /\ a.vals \in Seq(Int)
      /\ a.from = i - 1 => a.vals = <<>> /\ a.num = <<>>
  BY DEF Parsing
<1>2. a.from \in 0 .. i /\ a.from # i /\ i \in 0 .. i
  BY <1>1
<1>3. CASE c \in DOMAIN DigitOf
  <2>1. b = [from |-> a.from, vals |-> a.vals, num |-> WithDigit(a.num, DigitOf[c])]
    BY <1>3, Zenon DEF ParseStep
  <2>2. b.from = a.from /\ b.vals = a.vals /\ b.num = WithDigit(a.num, DigitOf[c])
    BY <2>1
  <2>3. DigitOf[c] \in 0 .. 9
    BY <1>3, FileAssumption
  <2>4. WithDigit(a.num, DigitOf[c]) \in Seq(0 .. 9)
    BY <1>1, <2>3, WithDigitTypes
  <2> QED BY <1>1, <1>2, <2>2, <2>4, Zenon DEF Parsing
<1>4. CASE c \notin DOMAIN DigitOf /\ c = ","
  <2>1. b = [from |-> IF a.from = i - 1 THEN i ELSE a.from,
             vals |-> With(a.vals, a.num), num |-> <<>>]
    BY <1>4, Zenon DEF ParseStep
  <2>2. /\ b.from = IF a.from = i - 1 THEN i ELSE a.from
        /\ b.vals = With(a.vals, a.num) /\ b.num = <<>>
    BY <2>1
  <2>3. With(a.vals, a.num) \in Seq(Int) /\ <<>> \in Seq(0 .. 9)
    BY <1>1, WithTypes
  <2>4. ASSUME b.from = i PROVE b.vals = <<>>
    <3>1. a.from = i - 1
      BY <1>2, <2>2, <2>4, Zenon
    <3> QED BY <1>1, <2>2, <3>1, Zenon DEF With
  <2>5. b.from \in 0 .. i
    BY <1>2, <2>2, Zenon
  <2> QED BY <2>2, <2>3, <2>4, <2>5, Zenon DEF Parsing
<1>5. CASE c \notin DOMAIN DigitOf /\ c # "," /\ c = "}"
  <2>1. b = Outside(i)
    BY <1>5, Zenon DEF ParseStep
  <2> QED BY <2>1, OutsideParses
<1>6. CASE c \notin DOMAIN DigitOf /\ c # "," /\ c # "}"
  <2>1. b = a
    BY <1>6, Zenon DEF ParseStep
  <2> QED BY <1>1, <1>2, <2>1, Zenon DEF Parsing
<1> QED BY <1>3, <1>4, <1>5, <1>6

LEMMA ParseTypes ==
  ASSUME NEW f, NEW m \in Nat, NEW q, IsParse(f, m, q)
  PROVE  \A i \in 0 .. m : Parsing(q[i], i)
<1> DEFINE Bad == {i \in Nat : i <= m /\ ~Parsing(q[i], i)}
<1>1. ASSUME Bad # {} PROVE FALSE
  <2>1. Bad \subseteq Nat
    OBVIOUS
  <2>2. PICK k \in Bad : \A n \in Bad : k <= n
    <3> HIDE DEF Bad
    <3> QED BY <1>1, <2>1, LeastNumber
  <2>3. k \in Nat /\ k <= m /\ ~Parsing(q[k], k)
    BY <2>2
  <2>4. k # 0
    BY <2>3, OutsideParses DEF IsParse
  <2>5. k - 1 \in Nat /\ k - 1 <= m /\ ~(k <= k - 1) /\ k \in 1 .. m /\ k \in Nat \ {0}
    BY <2>3, <2>4
  <2>6. Parsing(q[k - 1], k - 1)
    BY <2>2, <2>5
  <2>7. q[k] = ParseStep(f[k], k, q[k - 1])
    BY <2>5 DEF IsParse
  <2> QED BY <2>3, <2>5, <2>6, <2>7, ParseStepTypes
<1>2. ASSUME NEW i \in 0 .. m, ~Parsing(q[i], i) PROVE FALSE
  <2>1. i \in Bad
    BY <1>2
  <2> QED BY <1>1, <2>1
<1> QED BY <1>2

LEMMA ConvertStart == ConvertToInt(<<>>) = 0
<1>1. <<>> \in Seq(0 .. 9) /\ Len(<<>>) = 0
  OBVIOUS
<1>2. PICK r : Trace("convert", <<>>, r) /\ r[Len(<<>>)] = ConvertToInt(<<>>)
  BY <1>1, ConvertTrace
<1> QED BY <1>1, <1>2 DEF Trace, Start

LEMMA ConvertMore ==
  ASSUME NEW s \in Seq(0 .. 9), NEW d \in 0 .. 9
  PROVE  ConvertToInt(Append(s, d)) = 10 * ConvertToInt(s) + d
<1>0. ASSUME NEW n \in Nat, NEW t, NEW r, NEW u, Len(s) = n, Len(t) = n + 1, t[n + 1] = d,
             Trace("convert", s, r), Trace("convert", t, u),
             \A k \in 1 .. n : s[k] = t[k]
      PROVE  u[n + 1] = 10 * r[n] + d
  <2>1. n <= Len(s) /\ n <= Len(t) /\ Len(s) \in Nat /\ Len(t) \in Nat
    BY <1>0
  <2>2. n \in 0 .. n /\ n + 1 \in 1 .. Len(t) /\ (n + 1) - 1 = n
    BY <1>0
  <2>3. \A k \in 0 .. n : r[k] = u[k]
    <3>1. Trace("convert", s, r) /\ Trace("convert", t, u)
      BY <1>0
    <3>2. \A k \in 1 .. n : s[k] = t[k]
      BY <1>0
    <3>3. n \in Nat
      OBVIOUS
    <3> DEFINE T(a, b) == Trace("convert", a, b)
    <3>4. \A a, b, e, g : \A m \in Nat : T(a, e) /\ T(b, g) /\ m <= Len(a) /\ m <= Len(b)
           /\ Len(a) \in Nat /\ Len(b) \in Nat /\ (\A k \in 1 .. m : a[k] = b[k])
          => \A k \in 0 .. m : e[k] = g[k]
      BY SameTrace
    <3>5. T(s, r) /\ T(t, u)
      BY <3>1
    <3> HIDE DEF T
    <3> QED BY <2>1, <3>5, <3>2, <3>3, <3>4
  <2>4. u[n + 1] = Once("convert", u[n], t[n + 1])
    BY <1>0, <2>2 DEF Trace
  <2> QED BY <1>0, <2>2, <2>3, <2>4 DEF Once
<1> DEFINE n == Len(s)
           t == Append(s, d)
<1>1. n \in Nat /\ t \in Seq(0 .. 9) /\ Len(t) = n + 1 /\ t[n + 1] = d
      /\ \A k \in 1 .. n : s[k] = t[k]
  BY LenProperties
<1>2. PICK r : Trace("convert", s, r) /\ r[n] = ConvertToInt(s)
  BY ConvertTrace
<1> HIDE DEF t
<1>3. PICK u : Trace("convert", t, u) /\ u[n + 1] = ConvertToInt(t)
  BY <1>1, ConvertTrace
<1> QED BY <1>0, <1>1, <1>2, <1>3 DEF t

-----------------------------------------------------------------------------
(* Where a text stands in another one.                                     *)

Stands(f, p, g) ==
  /\ p \in Nat /\ Len(f) \in Nat /\ p + Len(g) <= Len(f)
  /\ \A i \in 1 .. Len(g) : f[p + i] = g[i]

LEMMA StandsBoth ==
  ASSUME NEW f, NEW p, NEW g \in Seq(Letter), NEW h \in Seq(Letter),
         Stands(f, p, g \o h)
  PROVE  Stands(f, p, g) /\ Stands(f, p + Len(g), h)
<1> DEFINE m == Len(g)
           n == Len(h)
<1>1. /\ m \in Nat /\ n \in Nat /\ Len(g \o h) = m + n
      /\ \A i \in 1 .. m + n : (g \o h)[i] = IF i <= m THEN g[i] ELSE h[i - m]
  BY ConcatProperties, LenProperties
<1> HIDE DEF m, n
<1>2. /\ p \in Nat /\ Len(f) \in Nat /\ p + (m + n) <= Len(f)
      /\ \A i \in 1 .. m + n : f[p + i] = (g \o h)[i]
  BY <1>1 DEF Stands
<1>3. ASSUME NEW i \in 1 .. m PROVE f[p + i] = g[i]
  <2>1. i \in 1 .. m + n /\ i <= m
    BY <1>1
  <2> QED BY <1>1, <1>2, <2>1
<1>4. ASSUME NEW i \in 1 .. n PROVE f[(p + m) + i] = h[i]
  <2>1. m + i \in 1 .. m + n /\ ~(m + i <= m) /\ (m + i) - m = i /\ (p + m) + i = p + (m + i)
    BY <1>1, <1>2
  <2>2. (g \o h)[m + i] = h[(m + i) - m]
    BY <1>1, <2>1
  <2> QED BY <1>2, <2>1, <2>2
<1>5. p + m \in Nat /\ p + m <= Len(f) /\ (p + m) + n <= Len(f)
  BY <1>1, <1>2
<1>6. Stands(f, p, g)
  BY <1>2, <1>3, <1>5 DEF Stands, m
<1>7. Stands(f, p + m, h)
  BY <1>2, <1>4, <1>5 DEF Stands, n
<1> QED BY <1>6, <1>7 DEF m

LEMMA StandsOne ==
  ASSUME NEW f, NEW p, NEW c, Stands(f, p, <<c>>)
  PROVE  /\ p \in Nat /\ p + 1 \in 1 .. Len(f) /\ (p + 1) - 1 = p
         /\ f[p + 1] = c
<1>1. Len(<<c>>) = 1 /\ <<c>>[1] = c /\ 1 \in 1 .. 1
  OBVIOUS
<1>2. p \in Nat /\ Len(f) \in Nat /\ p + 1 <= Len(f) /\ f[p + 1] = <<c>>[1]
  BY <1>1 DEF Stands
<1> QED BY <1>1, <1>2

\* A character that is read.
LEMMA OneRead ==
  ASSUME NEW f, NEW q, IsParse(f, Len(f), q), NEW p, NEW c, Stands(f, p, <<c>>)
  PROVE  q[p + 1] = ParseStep(c, p + 1, q[p])
<1>1. p + 1 \in 1 .. Len(f) /\ (p + 1) - 1 = p /\ f[p + 1] = c
  BY StandsOne
<1>2. q[p + 1] = ParseStep(f[p + 1], p + 1, q[(p + 1) - 1])
  BY <1>1 DEF IsParse
<1> QED BY <1>1, <1>2

LEMMA DigitForIs ==
  ASSUME NEW n \in Nat
  PROVE  \E d \in DOMAIN DigitOf : DigitFor(n) = <<d>> /\ DigitOf[d] = n % 10
<1> DEFINE d == CHOOSE e \in DOMAIN DigitOf : DigitOf[e] = n % 10
<1>1. n % 10 \in 0 .. 9
  OBVIOUS
<1>2. d \in DOMAIN DigitOf /\ DigitOf[d] = n % 10
  BY <1>1, FileAssumption
<1>3. DigitFor(n) = <<d>>
  BY Zenon DEF DigitFor
<1> HIDE DEF d
<1> QED BY <1>2, <1>3

\* What has been read of a number.
ParsedNumber(a, v, d) == [from |-> a, vals |-> v, num |-> d]

\* What d has of the number n: all of it, if num_array holds so many digits.
DigitsKept(n, d) ==
  /\ d \in Seq(0 .. 9) /\ d # <<>>
  /\ Short(n) => Len(d) = Len(Decimal[n]) /\ ConvertToInt(d) = n

\* One more digit.
LEMMA DigitRead ==
  ASSUME NEW f, NEW q, IsParse(f, Len(f), q), NEW a, NEW v, NEW k \in Nat, NEW e,
         NEW s \in Seq(0 .. 9), Stands(f, e, DigitFor(k)), q[e] = ParsedNumber(a, v, s)
  PROVE  /\ q[e + 1] = ParsedNumber(a, v, WithDigit(s, k % 10))
         /\ k % 10 \in 0 .. 9 /\ Len(DigitFor(k)) = 1
<1>1. PICK c \in DOMAIN DigitOf : DigitFor(k) = <<c>> /\ DigitOf[c] = k % 10
  BY DigitForIs
<1>2. q[e + 1] = ParseStep(c, e + 1, q[e])
  BY <1>1, OneRead
<1>3. q[e].from = a /\ q[e].vals = v /\ q[e].num = s
  BY DEF ParsedNumber
<1>4. q[e + 1] = ParsedNumber(a, v, WithDigit(s, k % 10))
  BY <1>1, <1>2, <1>3, Zenon DEF ParseStep, ParsedNumber
<1>5. k % 10 \in 0 .. 9
  OBVIOUS
<1>6. Len(DigitFor(k)) = 1
  BY <1>1
<1> QED BY <1>4, <1>5, <1>6

\* The first digit is always kept.
LEMMA FirstDigitKept ==
  ASSUME NEW k \in Nat, k < 10
  PROVE  DigitsKept(k, WithDigit(<<>>, k % 10))
<1>1. k % 10 = k /\ k \in 0 .. 9 /\ <<>> \in Seq(0 .. 9)
  OBVIOUS
<1>2. Decimal[k] = DigitFor(k)
  BY DecimalIs DEF DecimalRow
<1>3. Len(DigitFor(k)) = 1
  BY DigitForIs
<1>4. MaxDigits \in Nat \ {0} /\ Len(<<>>) = 0
  BY FileAssumption
<1>5. Len(<<>>) < MaxDigits
  BY <1>4
<1>6. WithDigit(<<>>, k) = Append(<<>>, k) /\ WithDigit(<<>>, k) \in Seq(0 .. 9)
      /\ WithDigit(<<>>, k) # <<>>
  BY <1>1, <1>5, WithDigitTypes, Zenon
<1>7. ConvertToInt(Append(<<>>, k)) = 10 * ConvertToInt(<<>>) + k
  BY <1>1, ConvertMore
<1>8. ConvertToInt(Append(<<>>, k)) = k
  BY <1>7, ConvertStart
<1>9. Len(Append(<<>>, k)) = 1
  OBVIOUS
<1> QED BY <1>1, <1>2, <1>3, <1>6, <1>8, <1>9, Zenon DEF DigitsKept

\* As long as the number is short, so is the next one.
LEMMA NextDigitKept ==
  ASSUME NEW k \in Nat, NEW j \in Nat, k = 10 * j + (k % 10), k % 10 \in 0 .. 9,
         NEW d, DigitsKept(j, d), Len(Decimal[k]) = Len(Decimal[j]) + 1,
         Len(Decimal[j]) \in Nat
  PROVE  DigitsKept(k, WithDigit(d, k % 10))
<1> DEFINE r == k % 10
           l == Len(Decimal[j])
<1>1. d \in Seq(0 .. 9) /\ d # <<>> /\ (Short(j) => Len(d) = l /\ ConvertToInt(d) = j)
  BY Zenon DEF DigitsKept
<1>2. MaxDigits \in Nat
  BY FileAssumption
<1>3. (Short(k) <=> l + 1 <= MaxDigits) /\ (Short(j) <=> l <= MaxDigits)
  BY Zenon DEF Short
<1> HIDE DEF l, r
<1>4. k = 10 * j + r /\ r \in 0 .. 9 /\ l \in Nat /\ Len(Decimal[k]) = l + 1
  BY Zenon DEF r, l
<1>5. WithDigit(d, r) \in Seq(0 .. 9) /\ WithDigit(d, r) # <<>>
  BY <1>1, <1>4, WithDigitTypes, Zenon
<1>6. ASSUME Short(k)
      PROVE  Len(WithDigit(d, r)) = Len(Decimal[k]) /\ ConvertToInt(WithDigit(d, r)) = k
  <2>1. l < MaxDigits /\ l <= MaxDigits
    <3>1. l + 1 <= MaxDigits
      BY <1>3, <1>6, Zenon
    <3> QED BY <1>2, <1>4, <3>1
  <2>2. Len(d) = l /\ ConvertToInt(d) = j
    BY <1>1, <1>3, <2>1, Zenon
  <2>3. WithDigit(d, r) = Append(d, r)
    BY <1>1, <1>4, <2>1, <2>2, WithDigitTypes, Zenon
  <2>4. ConvertToInt(Append(d, r)) = 10 * ConvertToInt(d) + r
    BY <1>1, <1>4, ConvertMore
  <2>5. Len(Append(d, r)) = Len(d) + 1
    BY <1>1
  <2> QED BY <1>4, <2>2, <2>3, <2>4, <2>5, Zenon
<1>7. DigitsKept(k, WithDigit(d, r))
  BY <1>5, <1>6, Zenon DEF DigitsKept
<1> QED BY <1>7 DEF r

\* The digits of a number are the number, but for those that do not fit.
LEMMA NumberRead ==
  ASSUME NEW f, NEW q, IsParse(f, Len(f), q), NEW n \in Nat, NEW p, NEW a, NEW v,
         Stands(f, p, Decimal[n]), q[p] = ParsedNumber(a, v, <<>>)
  PROVE  \E d : DigitsKept(n, d) /\ q[p + Len(Decimal[n])] = ParsedNumber(a, v, d)
<1> DEFINE Read(k) ==
      Stands(f, p, Decimal[k]) =>
        \E d : DigitsKept(k, d) /\ q[p + Len(Decimal[k])] = ParsedNumber(a, v, d)
           Bad == {k \in Nat : ~Read(k)}
<1>1. ASSUME Bad # {} PROVE FALSE
  <2>1. Bad \subseteq Nat
    OBVIOUS
  <2>2. PICK k \in Bad : \A i \in Bad : k <= i
    <3> HIDE DEF Bad
    <3> QED BY <1>1, <2>1, LeastNumber
  <2>3. k \in Nat /\ ~Read(k)
    OBVIOUS
  <2>4. Decimal[k] = DecimalRow(k, Decimal) /\ Stands(f, p, Decimal[k])
    BY <2>3, DecimalIs
  <2>5. CASE k < 10
    <3>1. Decimal[k] = DigitFor(k) /\ <<>> \in Seq(0 .. 9)
      BY <2>4, <2>5 DEF DecimalRow
    <3>2. /\ q[p + 1] = ParsedNumber(a, v, WithDigit(<<>>, k % 10))
          /\ Len(DigitFor(k)) = 1
      <4>1. Stands(f, p, DigitFor(k)) /\ IsParse(f, Len(f), q)
            /\ q[p] = ParsedNumber(a, v, <<>>)
        BY <2>4, <3>1, Zenon
      <4>2. k \in Nat /\ <<>> \in Seq(0 .. 9)
        BY <2>3, <3>1
      <4> HIDE DEF Bad, Read
      <4>3. ASSUME NEW s \in Seq(0 .. 9), q[p] = ParsedNumber(a, v, s)
            PROVE  /\ q[p + 1] = ParsedNumber(a, v, WithDigit(s, k % 10))
                   /\ Len(DigitFor(k)) = 1
        BY <4>1, <4>2, <4>3, DigitRead
      <4> QED BY <4>1, <4>2, <4>3, Zenon
    <3>3. DigitsKept(k, WithDigit(<<>>, k % 10))
      BY <2>3, <2>5, FirstDigitKept
    <3> QED BY <2>3, <3>1, <3>2, <3>3, Zenon
  <2>6. CASE ~(k < 10)
    <3> DEFINE j == k \div 10
    <3>1. j \in Nat /\ j < k /\ k = 10 * j + (k % 10)
      <4>1. k >= 10
        BY <2>3, <2>6
      <4> QED BY <2>3, <4>1, Tenth
    <3>2. Decimal[k] = Decimal[j] \o DigitFor(k)
      BY <2>4, <2>6, Zenon DEF DecimalRow
    <3> HIDE DEF j
    <3>3. Decimal[j] \in Seq(Letter) /\ DigitFor(k) \in Seq(Letter)
      <4>1. 0 \in 0 .. 3
        OBVIOUS
      <4> QED BY <2>3, <3>1, <4>1, ReadableNumber, ReadableDigit DEF Readable
    <3>4. Stands(f, p, Decimal[j]) /\ Stands(f, p + Len(Decimal[j]), DigitFor(k))
      BY <2>4, <3>2, <3>3, StandsBoth
    <3>5. j \notin Bad
      <4>1. ~(k <= j)
        BY <2>3, <3>1
      <4> QED BY <2>2, <4>1
    <3>6. PICK d : DigitsKept(j, d) /\ q[p + Len(Decimal[j])] = ParsedNumber(a, v, d)
      BY <3>1, <3>4, <3>5
    <3>7. d \in Seq(0 .. 9)
      BY <3>6, Zenon DEF DigitsKept
    <3> DEFINE e == p + Len(Decimal[j])
    <3>8. /\ q[e + 1] = ParsedNumber(a, v, WithDigit(d, k % 10))
          /\ k % 10 \in 0 .. 9 /\ Len(DigitFor(k)) = 1
      BY <2>3, <3>4, <3>6, <3>7, DigitRead
    <3>9. Len(Decimal[k]) = Len(Decimal[j]) + 1 /\ Len(Decimal[j]) \in Nat
      <4>1. Len(Decimal[k]) = Len(Decimal[j]) + Len(DigitFor(k)) /\ Len(Decimal[j]) \in Nat
        BY <3>2, <3>3, ConcatProperties, LenProperties
      <4> QED BY <3>8, <4>1, Zenon
    <3>10. e + 1 = p + Len(Decimal[k])
      <4>1. p \in Nat
        BY <2>4 DEF Stands
      <4> QED BY <3>9, <4>1
    <3>11. DigitsKept(k, WithDigit(d, k % 10))
      BY <2>3, <3>1, <3>6, <3>8, <3>9, NextDigitKept
    <3> HIDE DEF e
    <3>12. q[p + Len(Decimal[k])] = ParsedNumber(a, v, WithDigit(d, k % 10))
      BY <3>8, <3>10, Zenon
    <3> QED BY <2>3, <3>11, <3>12, Zenon
  <2> QED BY <2>5, <2>6
<1>2. n \notin Bad
  BY <1>1
<1> QED BY <1>2


-----------------------------------------------------------------------------
(* An entry of a picture.                                                  *)

LEMMA ParsedParts ==
  ASSUME NEW a, NEW v, NEW d, NEW r, r = ParsedNumber(a, v, d)
  PROVE  r.from = a /\ r.vals = v /\ r.num = d
BY DEF ParsedNumber

LEMMA OneLetter ==
  ASSUME NEW c \in Letter
  PROVE  <<c>> \in Seq(Letter) /\ Len(<<c>>) = 1
<1> HIDE DEF Letter
<1> QED OBVIOUS

LEMMA Marks ==
  /\ "{" \in Letter /\ "}" \in Letter /\ "," \in Letter /\ " " \in Letter
  /\ "{" \notin DOMAIN DigitOf /\ "}" \notin DOMAIN DigitOf
  /\ "," \notin DOMAIN DigitOf /\ " " \notin DOMAIN DigitOf
  /\ " " # "," /\ " " # "}" /\ "," # "}" /\ "{" # "," /\ "{" # "}"
BY FileAssumption DEF Letter

\* Two characters that are read.
InTurn(q, p, c, b) ==
  /\ q[p + 1] = ParseStep(c, p + 1, q[p])
  /\ q[p + 2] = ParseStep(b, p + 2, q[p + 1])

LEMMA TwoRead ==
  ASSUME NEW f, NEW q, IsParse(f, Len(f), q), NEW p,
         NEW c \in Letter, NEW b \in Letter, Stands(f, p, <<c, b>>)
  PROVE  /\ p \in Nat /\ Stands(f, p, <<c>>) /\ Stands(f, p + 1, <<b>>)
         /\ InTurn(q, p, c, b)
<1>1. /\ <<c>> \in Seq(Letter) /\ <<b>> \in Seq(Letter) /\ Len(<<c>>) = 1
  BY OneLetter
<1>2. Stands(f, p, <<c>> \o <<b>>)
  BY TwoCharacters, Zenon
<1> HIDE DEF Letter
<1>3. Stands(f, p, <<c>>) /\ Stands(f, p + Len(<<c>>), <<b>>)
  BY <1>1, <1>2, StandsBoth, Zenon
<1>4. Stands(f, p + 1, <<b>>)
  BY <1>1, <1>3, Zenon
<1>5. p \in Nat
  BY <1>3, Zenon DEF Stands
<1>6. (p + 1) + 1 = p + 2
  BY <1>5
<1>7. /\ q[p + 1] = ParseStep(c, p + 1, q[p])
      /\ q[(p + 1) + 1] = ParseStep(b, (p + 1) + 1, q[p + 1])
  BY <1>3, <1>4, OneRead, Zenon
<1> QED BY <1>3, <1>4, <1>5, <1>6, <1>7, Zenon DEF InTurn

\* The text between the numbers of an entry.
OpenText == <<"{">>
CommaText == <<",", " ">>
EndText == <<"}", ",">>

LEMMA Ahead ==
  ASSUME NEW p \in Nat
  PROVE  /\ (p + 1) - 1 = p /\ (p + 2) - 1 = p + 1 /\ (p + 1) + 1 = p + 2
         /\ p + 1 \in Nat /\ p + 2 \in Nat
OBVIOUS

\* A comma and a space end a number.
LEMMA CommaRead ==
  ASSUME NEW f, NEW q, IsParse(f, Len(f), q), NEW p, Stands(f, p, CommaText),
         NEW a \in Nat, a < p, NEW v, NEW d, q[p] = ParsedNumber(a, v, d)
  PROVE  q[p + 2] = ParsedNumber(a, With(v, d), <<>>)
<1>1. PICK c \in Letter, b \in Letter : c = "," /\ b = " " /\ CommaText = <<c, b>>
  BY Marks, Zenon DEF CommaText
<1>2. /\ p \in Nat /\ q[p + 1] = ParseStep(c, p + 1, q[p])
      /\ q[p + 2] = ParseStep(b, p + 2, q[p + 1])
  <2>1. Stands(f, p, <<c, b>>)
    BY <1>1, Zenon
  <2>2. \A d1, d2 \in Letter : Stands(f, p, <<d1, d2>>) =>
          p \in Nat /\ Stands(f, p, <<d1>>) /\ InTurn(q, p, d1, d2)
    BY TwoRead
  <2>3. p \in Nat /\ Stands(f, p, <<c>>) /\ InTurn(q, p, c, b)
    BY <2>1, <2>2, Zenon
  <2> QED BY <2>3, Zenon DEF InTurn
<1>3. (p + 1) - 1 = p
  BY <1>2, Ahead, Zenon
<1>4. a # p
  <2>1. p \in Nat
    BY <1>2, Zenon
  <2> QED BY <2>1
<1>5. q[p].from = a /\ q[p].vals = v /\ q[p].num = d
  BY ParsedParts
<1>6. q[p + 1] = ParsedNumber(a, With(v, d), <<>>)
  <2>1. ParseStep(c, p + 1, q[p]) =
          [from |-> IF q[p].from = (p + 1) - 1 THEN p + 1 ELSE q[p].from,
           vals |-> With(q[p].vals, q[p].num), num |-> <<>>]
    BY <1>1, Marks, Zenon DEF ParseStep
  <2> QED BY <1>2, <1>3, <1>4, <1>5, <2>1, Zenon DEF ParsedNumber
<1>7. q[p + 2] = q[p + 1]
  BY <1>1, <1>2, Marks, Zenon DEF ParseStep
<1> QED BY <1>6, <1>7, Zenon

\* A brace begins an entry.
LEMMA BraceRead ==
  ASSUME NEW f, NEW q, IsParse(f, Len(f), q), NEW p, Stands(f, p, OpenText),
         q[p] = Outside(p)
  PROVE  p \in Nat /\ q[p + 1] = ParsedNumber(p, <<>>, <<>>)
<1>1. PICK c : c = "{" /\ OpenText = <<c>>
  BY Zenon DEF OpenText
<1>2. q[p + 1] = ParseStep(c, p + 1, q[p])
  <2>1. Stands(f, p, <<c>>)
    BY <1>1, Zenon
  <2> QED BY <2>1, OneRead
<1>3. q[p + 1] = q[p]
  BY <1>1, <1>2, Marks, Zenon DEF ParseStep
<1> QED BY <1>3, Zenon DEF Stands, Outside, ParsedNumber

\* A brace and a comma end it.
LEMMA EndRead ==
  ASSUME NEW f, NEW q, IsParse(f, Len(f), q), NEW p, Stands(f, p, EndText)
  PROVE  /\ p \in Nat /\ p + 1 \in 1 .. Len(f) /\ f[p + 1] = "}"
         /\ q[p + 2] = Outside(p + 2)
<1>1. PICK c \in Letter, b \in Letter : c = "}" /\ b = "," /\ EndText = <<c, b>>
  BY Marks, Zenon DEF EndText
<1>2. /\ p \in Nat /\ Stands(f, p, <<c>>)
      /\ q[p + 1] = ParseStep(c, p + 1, q[p])
      /\ q[p + 2] = ParseStep(b, p + 2, q[p + 1])
  <2>1. Stands(f, p, <<c, b>>)
    BY <1>1, Zenon
  <2>2. \A d1, d2 \in Letter : Stands(f, p, <<d1, d2>>) =>
          p \in Nat /\ Stands(f, p, <<d1>>) /\ InTurn(q, p, d1, d2)
    BY TwoRead
  <2>3. p \in Nat /\ Stands(f, p, <<c>>) /\ InTurn(q, p, c, b)
    BY <2>1, <2>2, Zenon
  <2> QED BY <2>3, Zenon DEF InTurn
<1>3. p + 1 \in 1 .. Len(f) /\ f[p + 1] = c
  BY <1>2, StandsOne
<1>4. q[p + 1] = Outside(p + 1)
  BY <1>1, <1>2, Marks, Zenon DEF ParseStep
<1>5. (p + 2) - 1 = p + 1 /\ p + 1 \in Nat
  BY <1>2, Ahead, Zenon
<1>6. q[p + 1].from = p + 1 /\ q[p + 1].vals = <<>> /\ q[p + 1].num = <<>>
  BY <1>4, <1>5, OutsideParses, Zenon
<1>7. ParseStep(b, p + 2, q[p + 1]) =
        [from |-> IF q[p + 1].from = (p + 2) - 1 THEN p + 2 ELSE q[p + 1].from,
         vals |-> With(q[p + 1].vals, q[p + 1].num), num |-> <<>>]
  BY <1>1, Marks, Zenon DEF ParseStep
<1>8. With(q[p + 1].vals, q[p + 1].num) = <<>>
  BY <1>6, Zenon DEF With
<1>9. q[p + 2] = Outside(p + 2)
  BY <1>2, <1>5, <1>6, <1>7, <1>8, Zenon DEF Outside
<1> QED BY <1>1, <1>2, <1>3, <1>9, Zenon

LEMMA TextJoins ==
  ASSUME NEW g \in Seq(Letter), NEW h \in Seq(Letter)
  PROVE  /\ g \o h \in Seq(Letter) /\ Len(g \o h) = Len(g) + Len(h)
         /\ Len(g) \in Nat /\ Len(h) \in Nat
<1> HIDE DEF Letter
<1> QED BY ConcatProperties, LenProperties

\* The seven parts of an entry, each behind the one before.
InRow(f, p, a, b, c, d, e, g, h) ==
  /\ p \in Nat
  /\ Stands(f, p, a) /\ Stands(f, p + Len(a), b)
  /\ Stands(f, p + Len(a) + Len(b), c)
  /\ Stands(f, p + Len(a) + Len(b) + Len(c), d)
  /\ Stands(f, p + Len(a) + Len(b) + Len(c) + Len(d), e)
  /\ Stands(f, p + Len(a) + Len(b) + Len(c) + Len(d) + Len(e), g)
  /\ Stands(f, p + Len(a) + Len(b) + Len(c) + Len(d) + Len(e) + Len(g), h)
RowText(a, b, c, d, e, g, h) == (((((a \o b) \o c) \o d) \o e) \o g) \o h
RowLength(a, b, c, d, e, g, h) ==
  Len(a) + Len(b) + Len(c) + Len(d) + Len(e) + Len(g) + Len(h)

LEMMA EntryStands ==
  ASSUME NEW f, NEW p, NEW a \in Seq(Letter), NEW b \in Seq(Letter),
         NEW c \in Seq(Letter), NEW d \in Seq(Letter), NEW e \in Seq(Letter),
         NEW g \in Seq(Letter), NEW h \in Seq(Letter),
         Stands(f, p, RowText(a, b, c, d, e, g, h))
  PROVE  /\ InRow(f, p, a, b, c, d, e, g, h)
         /\ Len(RowText(a, b, c, d, e, g, h)) = RowLength(a, b, c, d, e, g, h)
<1> DEFINE s2 == a \o b
           s3 == s2 \o c
           s4 == s3 \o d
           s5 == s4 \o e
           s6 == s5 \o g
           s7 == s6 \o h
<1> HIDE DEF Letter
<1>2. s2 \in Seq(Letter) /\ Len(s2) = Len(a) + Len(b)
  BY TextJoins
<1> HIDE DEF s2
<1>3. s3 \in Seq(Letter) /\ Len(s3) = Len(s2) + Len(c)
  BY <1>2, TextJoins
<1> HIDE DEF s3
<1>4. s4 \in Seq(Letter) /\ Len(s4) = Len(s3) + Len(d)
  BY <1>3, TextJoins
<1> HIDE DEF s4
<1>5. s5 \in Seq(Letter) /\ Len(s5) = Len(s4) + Len(e)
  BY <1>4, TextJoins
<1> HIDE DEF s5
<1>6. s6 \in Seq(Letter) /\ Len(s6) = Len(s5) + Len(g)
  BY <1>5, TextJoins
<1> HIDE DEF s6
<1>7. s7 \in Seq(Letter) /\ Len(s7) = Len(s6) + Len(h)
  BY <1>6, TextJoins
<1>8. Stands(f, p, s7)
  BY Zenon DEF s2, s3, s4, s5, s6, RowText
<1>9. Stands(f, p, s6) /\ Stands(f, p + Len(s6), h)
  BY <1>6, <1>8, StandsBoth
<1>10. Stands(f, p, s5) /\ Stands(f, p + Len(s5), g)
  BY <1>5, <1>9, StandsBoth DEF s6
<1>11. Stands(f, p, s4) /\ Stands(f, p + Len(s4), e)
  BY <1>4, <1>10, StandsBoth DEF s5
<1>12. Stands(f, p, s3) /\ Stands(f, p + Len(s3), d)
  BY <1>3, <1>11, StandsBoth DEF s4
<1>13. Stands(f, p, s2) /\ Stands(f, p + Len(s2), c)
  BY <1>2, <1>12, StandsBoth DEF s3
<1>14. Stands(f, p, a) /\ Stands(f, p + Len(a), b)
  BY <1>13, StandsBoth DEF s2
<1>15. p \in Nat
  BY <1>14, Zenon DEF Stands
<1>16. /\ Len(a) \in Nat /\ Len(b) \in Nat /\ Len(c) \in Nat /\ Len(d) \in Nat
       /\ Len(e) \in Nat /\ Len(g) \in Nat /\ Len(h) \in Nat
  BY LenProperties
<1> HIDE DEF s7
<1>17. /\ p + Len(s2) = p + Len(a) + Len(b)
       /\ p + Len(s3) = p + Len(a) + Len(b) + Len(c)
       /\ p + Len(s4) = p + Len(a) + Len(b) + Len(c) + Len(d)
       /\ p + Len(s5) = p + Len(a) + Len(b) + Len(c) + Len(d) + Len(e)
       /\ p + Len(s6) = p + Len(a) + Len(b) + Len(c) + Len(d) + Len(e) + Len(g)
       /\ Len(s7) = Len(a) + Len(b) + Len(c) + Len(d) + Len(e) + Len(g) + Len(h)
  BY <1>2, <1>3, <1>4, <1>5, <1>6, <1>7, <1>15, <1>16
<1>18. Len(RowText(a, b, c, d, e, g, h))
         = Len(a) + Len(b) + Len(c) + Len(d) + Len(e) + Len(g) + Len(h)
  BY <1>17, Zenon DEF s2, s3, s4, s5, s6, s7, RowText
<1> QED BY <1>9, <1>10, <1>11, <1>12, <1>13, <1>14, <1>15, <1>17, <1>18, Zenon
      DEF InRow, RowLength

LEMMA MarkTexts ==
  /\ OpenText \in Seq(Letter) /\ Len(OpenText) = 1
  /\ CommaText \in Seq(Letter) /\ Len(CommaText) = 2
  /\ EndText \in Seq(Letter) /\ Len(EndText) = 2
<1>1. ASSUME NEW a \in Letter, NEW b \in Letter
      PROVE  <<a, b>> \in Seq(Letter) /\ Len(<<a, b>>) = 2
  <2> HIDE DEF Letter
  <2> QED OBVIOUS
<1>2. /\ "{" \in Letter /\ "}" \in Letter /\ "," \in Letter /\ " " \in Letter
  BY Marks
<1> QED BY <1>1, <1>2, OneLetter, Zenon DEF OpenText, CommaText, EndText

\* Two and three values, one after the other.
LEMMA AppendTwo ==
  ASSUME NEW a, NEW b
  PROVE  Append(<<a>>, b) = <<a, b>>
<1> DEFINE s == <<a>>
           u == <<a, b>>
           S == {a, b}
           v == Append(s, b)
<1>1. s \in Seq(S) /\ u \in Seq(S) /\ b \in S
  OBVIOUS
<1>2. Len(s) = 1 /\ s[1] = a /\ Len(u) = 2 /\ u[1] = a /\ u[2] = b
  OBVIOUS
<1> HIDE DEF s, u, S
<1>3. /\ v \in Seq(S) /\ Len(v) = Len(s) + 1 /\ v[Len(s) + 1] = b
      /\ \A i \in 1 .. Len(s) : v[i] = s[i]
  BY <1>1, AppendProperties
<1> HIDE DEF v
<1>4. 1 + 1 = 2 /\ 1 \in 1 .. 1 /\ \A i \in 1 .. 2 : i = 1 \/ i = 2
  OBVIOUS
<1>5. Len(v) = 2 /\ v[1] = a /\ v[2] = b
  BY <1>2, <1>3, <1>4, Zenon
<1>6. Len(v) = Len(u) /\ \A i \in 1 .. Len(v) : v[i] = u[i]
  BY <1>2, <1>4, <1>5, Zenon
<1>7. v = u
  BY <1>1, <1>3, <1>6, SeqEqual, Zenon
<1> QED BY <1>7, Zenon DEF v, u, s

LEMMA AppendThree ==
  ASSUME NEW a, NEW b, NEW c
  PROVE  Append(<<a, b>>, c) = <<a, b, c>>
<1> DEFINE s == <<a, b>>
           u == <<a, b, c>>
           S == {a, b, c}
           v == Append(s, c)
<1>1. s \in Seq(S) /\ u \in Seq(S) /\ c \in S
  OBVIOUS
<1>2. /\ Len(s) = 2 /\ s[1] = a /\ s[2] = b
      /\ Len(u) = 3 /\ u[1] = a /\ u[2] = b /\ u[3] = c
  OBVIOUS
<1> HIDE DEF s, u, S
<1>3. /\ v \in Seq(S) /\ Len(v) = Len(s) + 1 /\ v[Len(s) + 1] = c
      /\ \A i \in 1 .. Len(s) : v[i] = s[i]
  BY <1>1, AppendProperties
<1> HIDE DEF v
<1>4. /\ 2 + 1 = 3 /\ 1 \in 1 .. 2 /\ 2 \in 1 .. 2
      /\ \A i \in 1 .. 3 : i = 1 \/ i = 2 \/ i = 3
  OBVIOUS
<1>5. Len(v) = 3 /\ v[1] = a /\ v[2] = b /\ v[3] = c
  BY <1>2, <1>3, <1>4, Zenon
<1>6. Len(v) = Len(u) /\ \A i \in 1 .. Len(v) : v[i] = u[i]
  BY <1>2, <1>4, <1>5, Zenon
<1>7. v = u
  BY <1>1, <1>3, <1>6, SeqEqual, Zenon
<1> QED BY <1>7, Zenon DEF v, u, s

LEMMA AppendFirst ==
  ASSUME NEW a
  PROVE  Append(<<>>, a) = <<a>>
OBVIOUS

LEMMA WithOne ==
  ASSUME NEW v, NEW d, d # <<>>
  PROVE  With(v, d) = Append(v, ConvertToInt(d))
BY Zenon DEF With

Pixel == [x : Nat, y : Nat, colour : Nat]

\* The entry of the pixel begins behind p, and its closing brace is at e.
EntryAt(f, q, pixel, p, e) ==
  /\ e + 1 = p + Len(EntryText(pixel)) /\ p <= e - 1 /\ e \in 1 .. Len(f)
  /\ q[e + 1] = Outside(e + 1) /\ f[e] = "}" /\ q[e - 1].from = p
  /\ ShortNumbers(pixel) =>
       With(q[e - 1].vals, q[e - 1].num) = <<pixel.x, pixel.y, pixel.colour>>

\* An entry that is read gives its three numbers at the closing brace.
LEMMA EntryRead ==
  ASSUME NEW f, NEW q, IsParse(f, Len(f), q), NEW pixel \in Pixel,
         NEW p, Stands(f, p, EntryText(pixel)), q[p] = Outside(p)
  PROVE  \E e \in Nat : EntryAt(f, q, pixel, p, e)
<1> DEFINE x == Decimal[pixel.x]
           y == Decimal[pixel.y]
           c == Decimal[pixel.colour]
<1>1. pixel.x \in Nat /\ pixel.y \in Nat /\ pixel.colour \in Nat
  BY DEF Pixel
<1>2. x \in Seq(Letter) /\ y \in Seq(Letter) /\ c \in Seq(Letter)
  <2>1. 0 \in 0 .. 3
    OBVIOUS
  <2> QED BY <1>1, <2>1, ReadableNumber DEF Readable
<1>3. EntryText(pixel) = RowText(OpenText, x, CommaText, y, CommaText, c, EndText)
  BY Zenon DEF RowText, EntryText, OpenText, CommaText, EndText
<1>4. /\ OpenText \in Seq(Letter) /\ Len(OpenText) = 1
      /\ CommaText \in Seq(Letter) /\ Len(CommaText) = 2
      /\ EndText \in Seq(Letter) /\ Len(EndText) = 2
  BY MarkTexts
<1> HIDE DEF x, y, c, Letter
<1>5. Len(x) \in Nat /\ Len(y) \in Nat /\ Len(c) \in Nat
  BY <1>2, LenProperties
<1> DEFINE p1 == p + 1
           p2 == p1 + Len(x)
           p3 == p2 + 2
           p4 == p3 + Len(y)
           p5 == p4 + 2
           p6 == p5 + Len(c)
<1>6. /\ p \in Nat
      /\ Stands(f, p, OpenText) /\ Stands(f, p1, x)
      /\ Stands(f, p2, CommaText) /\ Stands(f, p3, y)
      /\ Stands(f, p4, CommaText) /\ Stands(f, p5, c) /\ Stands(f, p6, EndText)
      /\ Len(EntryText(pixel)) = 1 + Len(x) + 2 + Len(y) + 2 + Len(c) + 2
  <2>2. /\ p \in Nat /\ Stands(f, p, OpenText) /\ Stands(f, p + Len(OpenText), x)
        /\ Stands(f, p + Len(OpenText) + Len(x), CommaText)
        /\ Stands(f, p + Len(OpenText) + Len(x) + Len(CommaText), y)
        /\ Stands(f, p + Len(OpenText) + Len(x) + Len(CommaText) + Len(y), CommaText)
        /\ Stands(f, p + Len(OpenText) + Len(x) + Len(CommaText) + Len(y) + Len(CommaText), c)
        /\ Stands(f, p + Len(OpenText) + Len(x) + Len(CommaText) + Len(y) + Len(CommaText)
                       + Len(c), EndText)
        /\ Len(EntryText(pixel)) = Len(OpenText) + Len(x) + Len(CommaText) + Len(y)
                                   + Len(CommaText) + Len(c) + Len(EndText)
    <3>1. Stands(f, p, EntryText(pixel))
      OBVIOUS
    <3>2. /\ InRow(f, p, OpenText, x, CommaText, y, CommaText, c, EndText)
          /\ Len(EntryText(pixel)) = RowLength(OpenText, x, CommaText, y, CommaText, c, EndText)
      <4>1. Stands(f, p, RowText(OpenText, x, CommaText, y, CommaText, c, EndText))
        BY <1>3, <3>1, Zenon
      <4>2. /\ OpenText \in Seq(Letter) /\ x \in Seq(Letter) /\ CommaText \in Seq(Letter)
            /\ y \in Seq(Letter) /\ c \in Seq(Letter) /\ EndText \in Seq(Letter)
        BY <1>2, <1>4, Zenon
      <4>3. /\ InRow(f, p, OpenText, x, CommaText, y, CommaText, c, EndText)
            /\ Len(RowText(OpenText, x, CommaText, y, CommaText, c, EndText))
                 = RowLength(OpenText, x, CommaText, y, CommaText, c, EndText)
        BY <4>1, <4>2, EntryStands
      <4> QED BY <1>3, <4>3, Zenon
    <3> QED BY <3>2, Zenon DEF InRow, RowLength
  <2> QED BY <1>4, <2>2, Zenon
<1>7. /\ p1 \in Nat /\ p2 \in Nat /\ p3 \in Nat /\ p4 \in Nat /\ p5 \in Nat /\ p6 \in Nat
      /\ p < p1 /\ p < p2 /\ p < p4 /\ p < p6
      /\ p6 + 2 = p + Len(EntryText(pixel))
  <2>1. p \in Nat /\ Len(EntryText(pixel)) = 1 + Len(x) + 2 + Len(y) + 2 + Len(c) + 2
    BY <1>6, Zenon
  <2> QED BY <1>5, <2>1
<1> HIDE DEF p1, p2, p3, p4, p5, p6
<1> DEFINE Read(n, b, v) ==
      \E d : DigitsKept(n, d) /\ q[b + Len(Decimal[n])] = ParsedNumber(p, v, d)
<1>20. \A n \in Nat : \A b, v :
         Stands(f, b, Decimal[n]) /\ q[b] = ParsedNumber(p, v, <<>>) => Read(n, b, v)
  BY NumberRead
<1>21. \A b, v, d : Stands(f, b, CommaText) /\ p < b /\ q[b] = ParsedNumber(p, v, d)
         => q[b + 2] = ParsedNumber(p, With(v, d), <<>>)
  <2>1. p \in Nat
    BY <1>6, Zenon
  <2> QED BY <2>1, CommaRead
<1>8. q[p1] = ParsedNumber(p, <<>>, <<>>)
  BY <1>6, BraceRead, Zenon DEF p1
<1>9. PICK dx : DigitsKept(pixel.x, dx) /\ q[p2] = ParsedNumber(p, <<>>, dx)
  <2>1. Stands(f, p1, Decimal[pixel.x])
    BY <1>6, Zenon DEF x
  <2> HIDE DEF Read
  <2>2. Read(pixel.x, p1, <<>>)
    BY <1>1, <1>8, <1>20, <2>1, Zenon
  <2> QED BY <2>2, Zenon DEF Read, x, p2
<1> DEFINE v1 == With(<<>>, dx)
<1>10. q[p3] = ParsedNumber(p, v1, <<>>)
  <2>1. q[p2 + 2] = ParsedNumber(p, With(<<>>, dx), <<>>)
    BY <1>6, <1>7, <1>9, <1>21, Zenon
  <2> QED BY <2>1, Zenon DEF p3
<1> HIDE DEF v1
<1>11. PICK dy : DigitsKept(pixel.y, dy) /\ q[p4] = ParsedNumber(p, v1, dy)
  <2>1. Stands(f, p3, Decimal[pixel.y])
    BY <1>6, Zenon DEF y
  <2> HIDE DEF Read
  <2>2. Read(pixel.y, p3, v1)
    BY <1>1, <1>10, <1>20, <2>1, Zenon
  <2> QED BY <2>2, Zenon DEF Read, y, p4
<1> DEFINE v2 == With(v1, dy)
<1>12. q[p5] = ParsedNumber(p, v2, <<>>)
  <2>1. q[p4 + 2] = ParsedNumber(p, With(v1, dy), <<>>)
    <3>1. Stands(f, p4, CommaText) /\ p < p4 /\ q[p4] = ParsedNumber(p, v1, dy)
      BY <1>6, <1>7, <1>11, Zenon
    <3> QED BY <1>21, <3>1
  <2> QED BY <2>1, Zenon DEF p5
<1> HIDE DEF v2
<1>13. PICK dc : DigitsKept(pixel.colour, dc) /\ q[p6] = ParsedNumber(p, v2, dc)
  <2>1. Stands(f, p5, Decimal[pixel.colour])
    BY <1>6, Zenon DEF c
  <2> HIDE DEF Read
  <2>2. Read(pixel.colour, p5, v2)
    BY <1>1, <1>12, <1>20, <2>1, Zenon
  <2> QED BY <2>2, Zenon DEF Read, c, p6
<1>14. ASSUME ShortNumbers(pixel)
       PROVE  With(v2, dc) = <<pixel.x, pixel.y, pixel.colour>>
  <2>1. /\ dx # <<>> /\ ConvertToInt(dx) = pixel.x
        /\ dy # <<>> /\ ConvertToInt(dy) = pixel.y
        /\ dc # <<>> /\ ConvertToInt(dc) = pixel.colour
    BY <1>9, <1>11, <1>13, <1>14, Zenon DEF DigitsKept, ShortNumbers
  <2>2. v1 = <<pixel.x>>
    <3>1. Append(<<>>, pixel.x) = <<pixel.x>>
      BY AppendFirst
    <3> QED BY <2>1, <3>1, WithOne, Zenon DEF v1
  <2>3. v2 = <<pixel.x, pixel.y>>
    <3>1. Append(<<pixel.x>>, pixel.y) = <<pixel.x, pixel.y>>
      BY AppendTwo, Zenon
    <3> QED BY <2>1, <2>2, <3>1, WithOne, Zenon DEF v2
  <2>4. Append(<<pixel.x, pixel.y>>, pixel.colour) = <<pixel.x, pixel.y, pixel.colour>>
    BY AppendThree, Zenon
  <2> QED BY <2>1, <2>3, <2>4, WithOne, Zenon
<1>15. p6 + 1 \in 1 .. Len(f) /\ f[p6 + 1] = "}" /\ q[p6 + 2] = Outside(p6 + 2)
  BY <1>6, EndRead, Zenon
<1>16. q[p6].from = p /\ q[p6].vals = v2 /\ q[p6].num = dc
  BY <1>13, ParsedParts
<1> DEFINE e == p6 + 1
<1>17. e \in Nat /\ e - 1 = p6 /\ e + 1 = p6 + 2 /\ p <= e - 1
  <2>1. p \in Nat /\ p6 \in Nat /\ p < p6
    BY <1>6, <1>7, Zenon
  <2> QED BY <2>1
<1> HIDE DEF e
<1>18. EntryAt(f, q, pixel, p, e)
  BY <1>7, <1>14, <1>15, <1>16, <1>17, Zenon DEF e, EntryAt
<1> QED BY <1>17, <1>18, Zenon

-----------------------------------------------------------------------------
(* A picture is read entry by entry.                                       *)

LEMMA FlatRows ==
  ASSUME NEW s, NEW m \in Nat, NEW f, IsFlat(s, m, f), NEW i \in 1 .. m
  PROVE  f[i] = FlatRow(s, i, f)
<1> DEFINE row(k) == FlatRow(s, k, f)
<1>1. f = [k \in 1 .. m |-> row(k)]
  BY DEF IsFlat
<1> HIDE DEF row
<1>2. f[i] = row(i)
  BY <1>1
<1> QED BY <1>2 DEF row

Alike(s, u, l) == \A i \in 1 .. l : s[i] = u[i]

\* Texts that have a beginning in common are joined the same way.
LEMMA FlatSame ==
  ASSUME NEW s, NEW u, NEW m \in Nat, NEW n \in Nat, NEW f, NEW g,
         IsFlat(s, m, f), IsFlat(u, n, g), NEW l \in Nat, l <= m, l <= n,
         Alike(s, u, l)
  PROVE  Alike(f, g, l)
<1> DEFINE Bad == {i \in Nat : i \in 1 .. l /\ f[i] # g[i]}
<1>1. ASSUME Bad # {} PROVE FALSE
  <2>1. Bad \subseteq Nat
    OBVIOUS
  <2>2. PICK k \in Bad : \A i \in Bad : k <= i
    <3> HIDE DEF Bad
    <3> QED BY <1>1, <2>1, LeastNumber
  <2>3. k \in Nat /\ k \in 1 .. l /\ f[k] # g[k]
    OBVIOUS
  <2>4. k \in 1 .. m /\ k \in 1 .. n /\ s[k] = u[k]
    BY <2>3 DEF Alike
  <2>5. f[k] = FlatRow(s, k, f) /\ g[k] = FlatRow(u, k, g)
    BY <2>4, FlatRows
  <2>6. k # 1
    BY <2>3, <2>4, <2>5 DEF FlatRow
  <2>7. k - 1 \in Nat /\ k - 1 \in 1 .. l /\ ~(k <= k - 1)
    BY <2>3, <2>6
  <2>8. k - 1 \notin Bad
    BY <2>2, <2>7
  <2>9. f[k - 1] = g[k - 1]
    BY <2>7, <2>8
  <2> QED BY <2>3, <2>4, <2>5, <2>6, <2>9, Zenon DEF FlatRow
<1>2. ASSUME NEW i \in 1 .. l, f[i] # g[i] PROVE FALSE
  <2>1. i \in Bad
    BY <1>2
  <2> QED BY <1>1, <2>1
<1> QED BY <1>2 DEF Alike

\* The last text comes behind all the others.
LEMMA FlatLast ==
  ASSUME NEW n \in Nat \ {0}, NEW l \in Nat, n = l + 1, NEW s, Len(s) = n,
         NEW u, Len(u) = l, Alike(s, u, l),
         u \in Seq(Seq(Letter)), s[n] \in Seq(Letter)
  PROVE  FlattenSeq(s) = FlattenSeq(u) \o s[n]
<1>1. n \in Nat /\ n # 0 /\ n \in 1 .. n /\ n - 1 = l /\ l <= n /\ l <= l
  OBVIOUS
<1>2. PICK f : IsFlat(s, n, f) /\ FlattenSeq(s) = f[n]
  BY <1>1, FlattenIs
<1>3. f[n] = FlatRow(s, n, f)
  BY <1>1, <1>2, FlatRows
<1>4. CASE l = 0
  <2>1. u = <<>> /\ n = 1
    BY <1>1, <1>4, EmptySeq
  <2>2. FlattenSeq(u) = <<>>
    BY <1>4, <2>1, Zenon DEF FlattenSeq
  <2>3. <<>> \o s[n] = s[n]
    BY ConcatEmptySeq
  <2> QED BY <1>2, <1>3, <2>1, <2>2, <2>3, Zenon DEF FlatRow
<1>5. CASE l # 0
  <2>1. n # 1 /\ l \in 1 .. l
    BY <1>1, <1>5
  <2>2. PICK g : IsFlat(u, l, g) /\ FlattenSeq(u) = g[l]
    BY <1>1, <1>5, FlattenIs
  <2>3. Alike(f, g, l)
    BY <1>1, <1>2, <2>2, FlatSame
  <2>4. f[l] = g[l]
    BY <2>1, <2>3 DEF Alike
  <2> QED BY <1>1, <1>2, <1>3, <2>1, <2>2, <2>4, Zenon DEF FlatRow
<1> QED BY <1>4, <1>5

FirstText(picture, k) == PictureText(SubSeq(picture, 1, k))

\* The texts of the first k pixels.
Texts(picture, k) == [i \in 1 .. k |-> EntryText(picture[i])]

LEMMA FirstPixels ==
  ASSUME NEW picture \in Seq(Pixel), NEW k \in 0 .. Len(picture)
  PROVE  /\ FirstText(picture, k) = FlattenSeq(Texts(picture, k))
         /\ Texts(picture, k) \in Seq(Seq(Letter)) /\ Len(Texts(picture, k)) = k
         /\ \A i \in 1 .. k : /\ Texts(picture, k)[i] = EntryText(picture[i])
                              /\ EntryText(picture[i]) \in Seq(Letter)
<1> HIDE DEF Pixel
<1> DEFINE s == SubSeq(picture, 1, k)
<1>1. k \in Nat /\ Len(picture) \in Nat /\ DOMAIN picture = 1 .. Len(picture)
  BY LenProperties
<1>2. \A i \in 1 .. k : i \in 1 .. Len(picture)
  BY <1>1
<1>3. \A i \in 1 .. k : picture[i] \in Pixel
  BY <1>1, <1>2, ElementOfSeq
<1>4. s \in Seq(Pixel) /\ Len(s) = k /\ \A i \in 1 .. k : s[i] = picture[i]
  <2>1. /\ s \in Seq(Pixel) /\ Len(s) = IF 1 <= k THEN k - 1 + 1 ELSE 0
        /\ \A i \in 1 .. k - 1 + 1 : s[i] = picture[1 + i - 1]
    BY <1>1, <1>3, SubSeqProperties
  <2> HIDE DEF s
  <2>2. k - 1 + 1 = k /\ (~(1 <= k) => k = 0)
    BY <1>1
  <2>3. Len(s) = k
    BY <1>1, <2>1, <2>2
  <2>4. ASSUME NEW i \in 1 .. k PROVE s[i] = picture[i]
    <3>1. 1 + i - 1 = i
      BY <1>1
    <3> QED BY <2>1, <2>2, <3>1
  <2> QED BY <2>1, <2>3, <2>4
<1> HIDE DEF s
<1>5. DOMAIN s = 1 .. k
  BY <1>4, LenProperties
<1>6. [i \in DOMAIN s |-> EntryText(s[i])] = Texts(picture, k)
  BY <1>4, <1>5, Zenon DEF Texts
<1>7. FirstText(picture, k) = FlattenSeq(Texts(picture, k))
  BY <1>6, Zenon DEF FirstText, PictureText, s
<1>8. \A i \in 1 .. k : EntryText(picture[i]) \in Seq(Letter)
  BY <1>3, ReadableEntry DEF Readable, Pixel
<1>9. Texts(picture, k) \in [1 .. k -> Seq(Letter)]
  BY <1>8, Zenon DEF Texts
<1>10. Texts(picture, k) \in Seq(Seq(Letter)) /\ Len(Texts(picture, k)) = k
  BY <1>1, <1>9, FunctionIsSequence
<1>11. \A i \in 1 .. k : Texts(picture, k)[i] = EntryText(picture[i])
  BY Zenon DEF Texts
<1> QED BY <1>7, <1>8, <1>10, <1>11, Zenon

\* One more pixel is one more entry.
LEMMA TextGrows ==
  ASSUME NEW picture \in Seq(Pixel), NEW k \in 1 .. Len(picture)
  PROVE  /\ k - 1 \in 0 .. Len(picture)
         /\ FirstText(picture, k) = FirstText(picture, k - 1) \o EntryText(picture[k])
         /\ EntryText(picture[k]) \in Seq(Letter)
<1> HIDE DEF Pixel
<1> DEFINE s == Texts(picture, k)
           u == Texts(picture, k - 1)
<1>1. Len(picture) \in Nat
  BY LenProperties
<1>2. /\ k \in 0 .. Len(picture) /\ k - 1 \in 0 .. Len(picture) /\ k \in 1 .. k
      /\ k \in Nat \ {0} /\ k - 1 \in Nat /\ k = (k - 1) + 1
      /\ \A i \in 1 .. k - 1 : i \in 1 .. k
  BY <1>1
<1>3. /\ FirstText(picture, k) = FlattenSeq(s) /\ Len(s) = k
      /\ \A i \in 1 .. k : s[i] = EntryText(picture[i]) /\ EntryText(picture[i]) \in Seq(Letter)
  BY <1>2, FirstPixels
<1>4. /\ FirstText(picture, k - 1) = FlattenSeq(u) /\ Len(u) = k - 1 /\ u \in Seq(Seq(Letter))
      /\ \A i \in 1 .. k - 1 : u[i] = EntryText(picture[i])
  BY <1>2, FirstPixels
<1> HIDE DEF s, u
<1>5. Alike(s, u, k - 1)
  BY <1>2, <1>3, <1>4, Zenon DEF Alike
<1>6. s[k] \in Seq(Letter) /\ s[k] = EntryText(picture[k])
  BY <1>2, <1>3
<1>7. FlattenSeq(s) = FlattenSeq(u) \o s[k]
  BY <1>2, <1>3, <1>4, <1>5, <1>6, FlatLast
<1> QED BY <1>2, <1>3, <1>4, <1>6, <1>7, Zenon

LEMMA TextStarts ==
  ASSUME NEW picture \in Seq(Pixel)
  PROVE  FirstText(picture, 0) = <<>>
<1> HIDE DEF Pixel
<1>1. 0 \in 0 .. Len(picture)
  BY LenProperties
<1>2. /\ FirstText(picture, 0) = FlattenSeq(Texts(picture, 0))
      /\ Texts(picture, 0) \in Seq(Seq(Letter)) /\ Len(Texts(picture, 0)) = 0
  BY <1>1, FirstPixels
<1>3. Texts(picture, 0) = <<>>
  BY <1>2, EmptySeq
<1> QED BY <1>2, <1>3, Zenon DEF FlattenSeq

LEMMA TextEnds ==
  ASSUME NEW picture \in Seq(Pixel)
  PROVE  FirstText(picture, Len(picture)) = PictureText(picture)
<1> HIDE DEF Pixel
<1>1. Len(picture) \in Nat /\ DOMAIN picture = 1 .. Len(picture)
  BY LenProperties
<1>2. Len(picture) \in 0 .. Len(picture)
  BY <1>1
<1>3. FirstText(picture, Len(picture)) = FlattenSeq(Texts(picture, Len(picture)))
  BY <1>2, FirstPixels
<1> QED BY <1>1, <1>3, Zenon DEF PictureText, Texts

LEMMA FirstTextTypes ==
  ASSUME NEW picture \in Seq(Pixel), NEW k \in 0 .. Len(picture)
  PROVE  FirstText(picture, k) \in Seq(Letter) /\ Len(FirstText(picture, k)) \in Nat
<1> HIDE DEF Pixel, Letter
<1> DEFINE Bad == {i \in Nat : i <= Len(picture) /\ FirstText(picture, i) \notin Seq(Letter)}
<1>1. ASSUME Bad # {} PROVE FALSE
  <2>1. Bad \subseteq Nat
    OBVIOUS
  <2>2. PICK i \in Bad : \A j \in Bad : i <= j
    <3> HIDE DEF Bad
    <3> QED BY <1>1, <2>1, LeastNumber
  <2>3. i \in Nat /\ i <= Len(picture) /\ FirstText(picture, i) \notin Seq(Letter)
    OBVIOUS
  <2>4. i # 0
    <3>1. <<>> \in Seq(Letter)
      OBVIOUS
    <3> QED BY <2>3, <3>1, TextStarts, Zenon
  <2>5. /\ i \in 1 .. Len(picture) /\ i - 1 \in Nat /\ i - 1 <= Len(picture)
        /\ ~(i <= i - 1)
    <3>1. Len(picture) \in Nat
      BY LenProperties
    <3> QED BY <2>3, <2>4, <3>1
  <2>6. i - 1 \notin Bad
    BY <2>2, <2>5
  <2>7. FirstText(picture, i - 1) \in Seq(Letter)
    BY <2>5, <2>6
  <2>8. /\ FirstText(picture, i) = FirstText(picture, i - 1) \o EntryText(picture[i])
        /\ EntryText(picture[i]) \in Seq(Letter)
    BY <2>5, TextGrows
  <2>9. FirstText(picture, i - 1) \o EntryText(picture[i]) \in Seq(Letter)
    BY <2>7, <2>8, TextJoins
  <2> QED BY <2>3, <2>8, <2>9, Zenon
<1>2. k \in Nat /\ k <= Len(picture)
  BY LenProperties
<1>3. FirstText(picture, k) \in Seq(Letter)
  <2>1. k \notin Bad
    BY <1>1
  <2> QED BY <1>2, <2>1
<1> QED BY <1>3, LenProperties

\* The first k entries stand at the beginning of the file.
LEMMA FirstStands ==
  ASSUME NEW picture \in Seq(Pixel), NEW k \in 0 .. Len(picture)
  PROVE  Stands(PictureText(picture), 0, FirstText(picture, k))
<1> HIDE DEF Pixel, Letter
<1> DEFINE f == PictureText(picture)
           n == Len(picture)
           Bad == {i \in Nat : i <= n /\ ~Stands(f, 0, FirstText(picture, n - i))}
<1>0. n \in Nat /\ n \in 0 .. n
  BY LenProperties
<1> HIDE DEF f
<1>1. ASSUME Bad # {} PROVE FALSE
  <2>1. Bad \subseteq Nat
    OBVIOUS
  <2>2. PICK i \in Bad : \A j \in Bad : i <= j
    <3> HIDE DEF Bad
    <3> QED BY <1>1, <2>1, LeastNumber
  <2>3. i \in Nat /\ i <= n /\ ~Stands(f, 0, FirstText(picture, n - i))
    OBVIOUS
  <2>4. i # 0
    <3>1. FirstText(picture, n) = f
      BY TextEnds, Zenon DEF f
    <3>2. Len(f) \in Nat
      BY <1>0, <3>1, FirstTextTypes
    <3>3. Stands(f, 0, f)
      <4>1. 0 \in Nat /\ 0 + Len(f) <= Len(f) /\ \A j \in 1 .. Len(f) : 0 + j = j
        BY <3>2
      <4> QED BY <3>2, <4>1, Zenon DEF Stands
    <3>4. n - 0 = n
      BY <1>0
    <3> QED BY <2>3, <3>1, <3>3, <3>4, Zenon
  <2> DEFINE m == n - (i - 1)
  <2>5. /\ m \in 1 .. n /\ m \in 0 .. n /\ i - 1 \in Nat /\ i - 1 <= n /\ ~(i <= i - 1)
        /\ m - 1 = n - i
    BY <1>0, <2>3, <2>4
  <2>6. Stands(f, 0, FirstText(picture, m))
    <3>1. i - 1 \notin Bad
      BY <2>2, <2>5
    <3> QED BY <2>5, <3>1
  <2> HIDE DEF m, n, Bad
  <2>7. /\ FirstText(picture, m) = FirstText(picture, m - 1) \o EntryText(picture[m])
        /\ EntryText(picture[m]) \in Seq(Letter) /\ FirstText(picture, m - 1) \in Seq(Letter)
    BY <2>5, TextGrows, FirstTextTypes DEF n
  <2>8. Stands(f, 0, FirstText(picture, m - 1))
    BY <2>6, <2>7, StandsBoth
  <2> QED BY <2>3, <2>5, <2>8, Zenon
<1>2. n - k \in Nat /\ n - k <= n /\ n - (n - k) = k
  BY <1>0
<1>3. n - k \notin Bad
  BY <1>1
<1>4. Stands(f, 0, FirstText(picture, n - (n - k)))
  BY <1>2, <1>3
<1> QED BY <1>2, <1>4, Zenon DEF f

\* Behind the first k entries the parser is between two entries.
LEMMA FirstRead ==
  ASSUME NEW picture \in Seq(Pixel), NEW k \in 0 .. Len(picture), NEW q,
         IsParse(PictureText(picture), Len(PictureText(picture)), q)
  PROVE  q[Len(FirstText(picture, k))] = Outside(Len(FirstText(picture, k)))
<1> HIDE DEF Letter
<1> DEFINE f == PictureText(picture)
           At(i) == Len(FirstText(picture, i))
           Bad == {i \in Nat : i <= Len(picture) /\ q[At(i)] # Outside(At(i))}
<1>0. Len(picture) \in Nat
  BY LenProperties
<1> HIDE DEF f
<1>1. ASSUME Bad # {} PROVE FALSE
  <2>1. Bad \subseteq Nat
    OBVIOUS
  <2>2. PICK i \in Bad : \A j \in Bad : i <= j
    <3> HIDE DEF Bad
    <3> QED BY <1>1, <2>1, LeastNumber
  <2>3. i \in Nat /\ i <= Len(picture) /\ q[At(i)] # Outside(At(i))
    OBVIOUS
  <2>4. i # 0
    <3>1. At(0) = 0
      <4>1. Len(<<>>) = 0
        OBVIOUS
      <4> QED BY <4>1, TextStarts, Zenon
    <3> HIDE DEF At
    <3> QED BY <2>3, <3>1, Zenon DEF IsParse
  <2>5. /\ i \in 1 .. Len(picture) /\ i \in 0 .. Len(picture)
        /\ i - 1 \in 0 .. Len(picture) /\ i - 1 \in Nat /\ i - 1 <= Len(picture)
        /\ ~(i <= i - 1)
    BY <1>0, <2>3, <2>4
  <2>6. q[At(i - 1)] = Outside(At(i - 1))
    <3>1. i - 1 \notin Bad
      BY <2>2, <2>5
    <3> HIDE DEF At
    <3> QED BY <2>5, <3>1
  <2>7. /\ FirstText(picture, i) = FirstText(picture, i - 1) \o EntryText(picture[i])
        /\ EntryText(picture[i]) \in Seq(Letter) /\ FirstText(picture, i - 1) \in Seq(Letter)
        /\ picture[i] \in Pixel
    BY <2>5, TextGrows, FirstTextTypes, ElementOfSeq
  <2>8. Stands(f, 0, FirstText(picture, i - 1) \o EntryText(picture[i]))
    BY <2>5, <2>7, FirstStands, Zenon DEF f
  <2>9. Stands(f, 0 + At(i - 1), EntryText(picture[i]))
    BY <2>7, <2>8, StandsBoth
  <2>10. At(i - 1) \in Nat /\ 0 + At(i - 1) = At(i - 1)
         /\ At(i) = At(i - 1) + Len(EntryText(picture[i]))
    <3>1. At(i - 1) \in Nat
      BY <2>5, FirstTextTypes
    <3>2. 0 + At(i - 1) = At(i - 1)
      BY <3>1
    <3>3. At(i) = At(i - 1) + Len(EntryText(picture[i]))
      BY <2>7, TextJoins
    <3> QED BY <3>1, <3>2, <3>3
  <2> HIDE DEF At
  <2>11. Stands(f, At(i - 1), EntryText(picture[i]))
    BY <2>9, <2>10, Zenon
  <2>12. PICK e \in Nat : EntryAt(f, q, picture[i], At(i - 1), e)
    <3>1. IsParse(f, Len(f), q)
      BY Zenon DEF f
    <3> QED BY <2>6, <2>7, <2>11, <3>1, EntryRead
  <2> QED BY <2>3, <2>10, <2>12, Zenon DEF EntryAt
<1>2. k \in Nat /\ k <= Len(picture)
  BY <1>0
<1>3. q[At(k)] = Outside(At(k))
  <2>1. k \notin Bad
    BY <1>1
  <2> HIDE DEF At
  <2> QED BY <1>2, <2>1
<1> QED BY <1>3

\* Where an entry stands and what the parser has there.
LEMMA PixelStands ==
  ASSUME NEW picture \in Pictures, NEW k \in DOMAIN picture, NEW q,
         IsParse(PictureText(picture), Len(PictureText(picture)), q)
  PROVE  EntryAt(PictureText(picture), q, picture[k],
                 TextEnd(picture, k - 1), TextEnd(picture, k) - 1)
<1> DEFINE f == PictureText(picture)
           s == TextEnd(picture, k - 1)
<1>1. picture \in Seq(Pixel)
  BY FileAssumption DEF Pixel
<1> HIDE DEF Pixel, Letter
<1>2. k \in 1 .. Len(picture) /\ picture[k] \in Pixel /\ k \in 0 .. Len(picture)
  BY <1>1, LenProperties, ElementOfSeq
<1>3. /\ k - 1 \in 0 .. Len(picture)
      /\ FirstText(picture, k) = FirstText(picture, k - 1) \o EntryText(picture[k])
      /\ EntryText(picture[k]) \in Seq(Letter)
      /\ FirstText(picture, k - 1) \in Seq(Letter)
  BY <1>1, <1>2, TextGrows, FirstTextTypes
<1>4. s = Len(FirstText(picture, k - 1)) /\ TextEnd(picture, k) = Len(FirstText(picture, k))
  BY Zenon DEF TextEnd, FirstText
<1> HIDE DEF f, s
<1>5. q[s] = Outside(s)
  BY <1>1, <1>3, <1>4, FirstRead
<1>6. Stands(f, 0, FirstText(picture, k - 1) \o EntryText(picture[k]))
  BY <1>1, <1>2, <1>3, FirstStands, Zenon DEF f
<1>7. Stands(f, 0 + s, EntryText(picture[k]))
  BY <1>3, <1>4, <1>6, StandsBoth
<1>8. s \in Nat /\ 0 + s = s /\ TextEnd(picture, k) = s + Len(EntryText(picture[k]))
  BY <1>3, <1>4, TextJoins
<1>9. Stands(f, s, EntryText(picture[k]))
  BY <1>7, <1>8, Zenon
<1>10. PICK e \in Nat : EntryAt(f, q, picture[k], s, e)
  <2>1. IsParse(f, Len(f), q)
    BY Zenon DEF f
  <2> QED BY <1>2, <1>5, <1>9, <2>1, EntryRead
<1>11. e = TextEnd(picture, k) - 1
  <2>1. e + 1 = TextEnd(picture, k)
    BY <1>8, <1>10, Zenon DEF EntryAt
  <2> QED BY <2>1
<1> QED BY <1>10, <1>11, Zenon DEF f, s

-----------------------------------------------------------------------------
(* What the parser knows: sectors are the only thing it loses its way at.  *)

\* Where the sector of position i starts.
SectorAt(i) == SectorSize * (i \div SectorSize)

LEMMA SectorStarts ==
  ASSUME NEW i \in Nat
  PROVE  /\ SectorAt(i) \in Int /\ SectorAt(i) <= i
         /\ (i % SectorSize) = 0 => SectorAt(i) = i
<1> DEFINE r == i % SectorSize
<1>1. SectorSize \in Nat \ {0}
  BY FileAssumption, Zenon
<1>2. r \in 0 .. SectorSize - 1 /\ i \div SectorSize \in Int
      /\ i = SectorSize * (i \div SectorSize) + r
  BY <1>1, Remainder
<1> HIDE DEF r
<1>3. SectorSize * (i \div SectorSize) \in Int
  BY <1>1, <1>2
<1>4. SectorAt(i) \in Int /\ i = SectorAt(i) + r
  BY <1>2, <1>3, Zenon DEF SectorAt
<1>5. r \in Int /\ 0 <= r
  BY <1>1, <1>2
<1> QED BY <1>4, <1>5 DEF r

\* As long as no new sector starts it is the same one.
LEMMA SectorGoesOn ==
  ASSUME NEW i \in Nat, ((i + 1) % SectorSize) # 0
  PROVE  SectorAt(i + 1) = SectorAt(i)
<1> DEFINE w == SectorSize
           a == i \div w
           b == (i + 1) \div w
           r == i % w
           t == (i + 1) % w
<1>1. w \in Nat \ {0}
  BY FileAssumption, Zenon
<1>2. r \in 0 .. w - 1 /\ a \in Int /\ i = w * a + r
  BY <1>1, Remainder
<1>3. t \in 0 .. w - 1 /\ b \in Int /\ i + 1 = w * b + t /\ t # 0
  <2>1. i + 1 \in Int
    OBVIOUS
  <2>2. t \in 0 .. w - 1 /\ b \in Int /\ i + 1 = w * b + t
    BY <1>1, <2>1, Remainder
  <2> QED BY <2>2
<1>4. SectorAt(i) = w * a /\ SectorAt(i + 1) = w * b
  BY Zenon DEF SectorAt
<1> HIDE DEF a, b, r, t, w
<1>5. w * (a - b) + r = t - 1
  <2>1. w * (a - b) = w * a - w * b
    BY <1>1, <1>2, <1>3
  <2>2. w * a \in Int /\ w * b \in Int
    BY <1>1, <1>2, <1>3
  <2>3. r \in Int /\ t \in Int
    BY <1>1, <1>2, <1>3
  <2> QED BY <1>2, <1>3, <2>1, <2>2, <2>3
<1>6. a - b \in Int /\ t - 1 \in 0 .. w - 1
  BY <1>1, <1>2, <1>3
<1>7. r = t - 1
  BY <1>1, <1>2, <1>5, <1>6, OneQuotient
<1>8. w * a = w * b
  <2>1. w * a \in Int /\ w * b \in Int /\ r \in Int /\ t \in Int
    BY <1>1, <1>2, <1>3
  <2> QED BY <1>2, <1>3, <1>7, <2>1
<1> QED BY <1>4, <1>8

LEMMA BeforeLast ==
  ASSUME NEW i \in Nat \ {0}, NEW j \in 1 .. i, j # i
  PROVE  j \in 1 .. i - 1
OBVIOUS

\* Behind an entry that began in this sector the parser holds its values.
InStep(q) ==
  phase = "parse" /\ SectorAt(pos) <= q[pos].from =>
    vals = q[pos].vals /\ num = q[pos].num

\* Every entry that began in the sector of its brace is drawn.
DrawnWhole(q) ==
  \A e \in 1 .. pos :
    file[e] = "}" /\ SectorAt(e - 1) <= q[e - 1].from =>
      <<e, With(q[e - 1].vals, q[e - 1].num)>> \in calls

WholeAt(q) == IsParse(file, Len(file), q) /\ InStep(q) /\ DrawnWhole(q)
SectorsInTurn ==
  /\ phase \in {"text", "clear"} => pos = 0
  /\ phase = "sector" => (pos % SectorSize) = 0 \/ pos = Len(file)
WholeInv == SectorsInTurn /\ \E q : WholeAt(q)

\* Nothing is read, and nothing is drawn.
LEMMA NothingRead ==
  ASSUME pos = 0, phase # "parse", Len(file) \in Nat
  PROVE  \E q : WholeAt(q)
<1>1. PICK q : IsParse(file, Len(file), q)
  BY ParseExists
<1>2. 1 .. pos = {}
  OBVIOUS
<1> QED BY <1>1, <1>2, Zenon DEF WholeAt, InStep, DrawnWhole

LEMMA WholeStarts == PictureInit => WholeInv
<1> SUFFICES ASSUME PictureInit PROVE WholeInv
  OBVIOUS
<1>1. pos = 0 /\ phase = "text" /\ file = <<>>
  BY DEF PictureInit
<1>2. Len(file) \in Nat /\ phase # "parse" /\ phase # "sector"
  BY <1>1
<1> QED BY <1>1, <1>2, NothingRead DEF WholeInv, SectorsInTurn

\* A character is read.
LEMMA ParseKeepsWhole ==
  ASSUME ParserTypes, WholeInv, ParseChar
  PROVE  WholeInv'
<1> DEFINE c == file[pos + 1]
           i == pos + 1
<1>1. /\ phase = "parse" /\ pos < Len(file) /\ pos' = pos + 1
      /\ phase' = IF (pos' % SectorSize) = 0 \/ pos' = Len(file) THEN "sector"
                  ELSE "parse"
      /\ CASE c \in DOMAIN DigitOf -> /\ num' = WithDigit(num, DigitOf[c])
                                     /\ UNCHANGED vals
           [] c = "," -> num' = <<>> /\ vals' = ValsWith
           [] c = "}" -> num' = <<>> /\ vals' = <<>>
           [] OTHER -> UNCHANGED <<num, vals>>
      /\ file' = file
      /\ IF c = "}" THEN calls' = calls \cup {<<pos', ValsWith>>} ELSE UNCHANGED calls
  BY DEF ParseChar
<1>2. file \in Seq(Letter) /\ pos \in 0 .. Len(file)
  BY DEF ParserTypes
<1>3. PICK q : WholeAt(q)
  BY DEF WholeInv
<1> HIDE DEF c
<1>4. /\ i \in 1 .. Len(file) /\ i - 1 = pos /\ i \in Nat \ {0} /\ pos' = i
      /\ pos \in 0 .. Len(file) /\ pos \in Nat /\ Len(file) \in Nat /\ i \in 0 .. Len(file)
  <2>1. Len(file) \in Nat
    BY <1>2, LenProperties
  <2>2. pos < Len(file) /\ pos' = pos + 1
    BY <1>1, Zenon
  <2> QED BY <1>2, <2>1, <2>2
<1> HIDE DEF i
<1>5. /\ IsParse(file, Len(file), q) /\ InStep(q) /\ DrawnWhole(q)
      /\ q[i] = ParseStep(c, i, q[pos])
  <2>1. c = file[i]
    BY Zenon DEF c, i
  <2> QED BY <1>3, <1>4, <2>1, Zenon DEF WholeAt, IsParse
<1>6. Parsing(q[pos], pos) /\ Parsing(q[i], i)
  BY <1>4, <1>5, ParseTypes
<1>7. ValsWith = With(vals, num)
  BY Zenon DEF ValsWith, With
<1>8. ASSUME phase' = "parse"
      PROVE  SectorAt(i) = SectorAt(pos)
  <2>1. ~((i % SectorSize) = 0)
    BY <1>1, <1>4, <1>8
  <2>2. i = pos + 1
    BY Zenon DEF i
  <2> QED BY <1>4, <2>1, <2>2, SectorGoesOn
<1>9. SectorAt(pos) \in Int /\ SectorAt(pos) <= pos
  BY <1>4, SectorStarts
<1>10. InStep(q)'
  <2> SUFFICES ASSUME phase' = "parse", SectorAt(pos') <= q[pos'].from
               PROVE  vals' = q[pos'].vals /\ num' = q[pos'].num
    BY DEF InStep
  <2>1. SectorAt(pos) <= q[i].from
    BY <1>4, <1>8
  <2>2. q[pos].from \in 0 .. pos
    BY <1>6 DEF Parsing
  <2>3. CASE SectorAt(pos) <= q[pos].from
    <3>1. vals = q[pos].vals /\ num = q[pos].num
      BY <1>1, <1>5, <2>3 DEF InStep
    <3>2. CASE c \in DOMAIN DigitOf
      <4>1. num' = WithDigit(num, DigitOf[c]) /\ vals' = vals
        <5>1. c # "," /\ c # "}"
          BY <3>2, Marks
        <5> QED BY <1>1, <3>2, <5>1, Zenon
      <4>2. q[i] = [from |-> q[pos].from, vals |-> q[pos].vals,
                    num |-> WithDigit(q[pos].num, DigitOf[c])]
        BY <1>5, <3>2, Zenon DEF ParseStep
      <4>3. q[i].vals = q[pos].vals /\ q[i].num = WithDigit(q[pos].num, DigitOf[c])
        BY <4>2
      <4> QED BY <1>4, <3>1, <4>1, <4>3, Zenon
    <3>3. CASE c = ","
      <4>1. c \notin DOMAIN DigitOf /\ c # "}"
        BY <3>3, Marks
      <4>2. num' = <<>> /\ vals' = ValsWith
        BY <1>1, <3>3, <4>1, Zenon
      <4>3. q[i] = [from |-> IF q[pos].from = i - 1 THEN i ELSE q[pos].from,
                    vals |-> With(q[pos].vals, q[pos].num), num |-> <<>>]
        BY <1>5, <3>3, <4>1, Zenon DEF ParseStep
      <4>4. q[i].vals = With(q[pos].vals, q[pos].num) /\ q[i].num = <<>>
        BY <4>3
      <4> QED BY <1>4, <1>7, <3>1, <4>2, <4>4, Zenon
    <3>4. CASE c = "}"
      <4>1. c \notin DOMAIN DigitOf /\ c # ","
        BY <3>4, Marks
      <4>2. num' = <<>> /\ vals' = <<>>
        BY <1>1, <3>4, <4>1, Zenon
      <4>3. q[i] = Outside(i)
        BY <1>5, <3>4, <4>1, Zenon DEF ParseStep
      <4> QED BY <1>4, <4>2, <4>3, OutsideParses, Zenon
    <3>5. CASE c \notin DOMAIN DigitOf /\ c # "," /\ c # "}"
      <4>1. num' = num /\ vals' = vals
        BY <1>1, <3>5, Zenon
      <4>2. q[i] = q[pos]
        BY <1>5, <3>5, Zenon DEF ParseStep
      <4> QED BY <1>4, <3>1, <4>1, <4>2, Zenon
    <3> QED BY <3>2, <3>3, <3>4, <3>5, Zenon
  <2>4. CASE ~(SectorAt(pos) <= q[pos].from)
    <3>1. q[i].from # q[pos].from /\ q[pos].from # i - 1
      BY <1>4, <1>9, <2>1, <2>2, <2>4
    <3>2. c \notin DOMAIN DigitOf
      <4>1. SUFFICES ASSUME c \in DOMAIN DigitOf PROVE FALSE
        OBVIOUS
      <4>2. q[i] = [from |-> q[pos].from, vals |-> q[pos].vals,
                    num |-> WithDigit(q[pos].num, DigitOf[c])]
        BY <1>5, <4>1, Zenon DEF ParseStep
      <4>3. q[i].from = q[pos].from
        BY <4>2
      <4> QED BY <3>1, <4>3
    <3>3. c # ","
      <4>1. SUFFICES ASSUME c = "," PROVE FALSE
        OBVIOUS
      <4>2. q[i] = [from |-> IF q[pos].from = i - 1 THEN i ELSE q[pos].from,
                    vals |-> With(q[pos].vals, q[pos].num), num |-> <<>>]
        BY <1>5, <3>2, <4>1, Zenon DEF ParseStep
      <4>3. q[i].from = IF q[pos].from = i - 1 THEN i ELSE q[pos].from
        BY <4>2
      <4> QED BY <3>1, <4>3, Zenon
    <3>4. c = "}"
      <4>1. SUFFICES ASSUME c # "}" PROVE FALSE
        OBVIOUS
      <4>2. q[i] = q[pos]
        BY <1>5, <3>2, <3>3, <4>1, Zenon DEF ParseStep
      <4> QED BY <3>1, <4>2, Zenon
    <3>5. num' = <<>> /\ vals' = <<>>
      BY <1>1, <3>2, <3>3, <3>4, Zenon
    <3>6. q[i] = Outside(i)
      BY <1>5, <3>2, <3>3, <3>4, Zenon DEF ParseStep
    <3> QED BY <1>4, <3>5, <3>6, OutsideParses, Zenon
  <2> QED BY <2>3, <2>4, Zenon
<1>11. DrawnWhole(q)'
  <2> SUFFICES ASSUME NEW e \in 1 .. pos', file'[e] = "}", SectorAt(e - 1) <= q[e - 1].from
               PROVE  <<e, With(q[e - 1].vals, q[e - 1].num)>> \in calls'
    BY DEF DrawnWhole
  <2>1. file' = file /\ calls \subseteq calls'
    <3>1. file' = file /\ (calls' = calls \cup {<<pos', ValsWith>>} \/ calls' = calls)
      BY <1>1, Zenon
    <3> QED BY <3>1
  <2>2. CASE e = i
    <3>1. e - 1 = pos /\ c = "}"
      <4>1. c = file[i]
        BY Zenon DEF c, i
      <4> QED BY <1>4, <2>1, <2>2, <4>1, Zenon
    <3>2. calls' = calls \cup {<<pos', ValsWith>>}
      BY <1>1, <3>1, Zenon
    <3>3. SectorAt(pos) <= q[pos].from
      BY <3>1, Zenon
    <3>4. vals = q[pos].vals /\ num = q[pos].num
      BY <1>1, <1>5, <3>3, Zenon DEF InStep
    <3>5. <<pos', ValsWith>> = <<e, With(q[e - 1].vals, q[e - 1].num)>>
      BY <1>4, <1>7, <2>2, <3>1, <3>4, Zenon
    <3>6. <<pos', ValsWith>> \in calls'
      BY <3>2
    <3> QED BY <3>5, <3>6, Zenon
  <2>3. CASE e # i
    <3>1. e \in 1 .. pos
      <4>1. e \in 1 .. i /\ i - 1 = pos /\ i \in Nat \ {0}
        BY <1>4, Zenon
      <4>2. \A j \in 1 .. i : j # i => j \in 1 .. i - 1
        BY <4>1, BeforeLast, Zenon
      <4> QED BY <2>3, <4>1, <4>2, Zenon
    <3>2. <<e, With(q[e - 1].vals, q[e - 1].num)>> \in calls
      BY <1>5, <2>1, <3>1, Zenon DEF DrawnWhole
    <3> QED BY <2>1, <3>2
  <2> QED BY <2>2, <2>3
<1>12. WholeAt(q)'
  BY <1>1, <1>5, <1>10, <1>11, Zenon DEF WholeAt
<1>13. SectorsInTurn'
  <2>1. phase' = "sector" => (pos' % SectorSize) = 0 \/ pos' = Len(file)
    BY <1>1
  <2>2. phase' = "sector" \/ phase' = "parse"
    BY <1>1, Zenon
  <2>3. phase' \notin {"text", "clear"}
    BY <2>2
  <2> QED BY <1>1, <2>1, <2>3, Zenon DEF SectorsInTurn
<1> QED BY <1>12, <1>13 DEF WholeInv

\* A sector is read, or there is nothing more to read.
LEMMA SectorKeepsWhole ==
  ASSUME ParserTypes, WholeInv, ReadSector
  PROVE  WholeInv'
<1>1. PICK q : WholeAt(q)
  BY DEF WholeInv
<1>2. phase = "sector" /\ file' = file /\ pos' = pos /\ calls' = calls
  BY DEF ReadSector
<1>3. DrawnWhole(q)' /\ IsParse(file', Len(file'), q)
  BY <1>1, <1>2, Zenon DEF WholeAt, DrawnWhole
<1>4. CASE FileRead
  <2>1. phase' = "shown"
    BY <1>4 DEF ReadSector
  <2>2. phase' # "parse" /\ phase' # "sector" /\ phase' \notin {"text", "clear"}
    BY <2>1
  <2> QED BY <1>3, <2>2, Zenon DEF WholeInv, WholeAt, InStep, SectorsInTurn
<1>5. CASE ~FileRead
  <2>1. phase' = "parse" /\ vals' = <<>> /\ num' = <<>>
    BY <1>5 DEF ReadSector, SectorStart
  <2>2. phase' # "sector" /\ phase' \notin {"text", "clear"}
    BY <2>1
  <2>3. pos \in 0 .. Len(file) /\ Len(file) \in Nat
    BY LenProperties DEF ParserTypes
  <2>4. pos \in Nat
    BY <2>3
  <2>5. SectorAt(pos) = pos
    <3>1. pos # Len(file)
      BY <1>5, Zenon DEF FileRead
    <3>2. (pos % SectorSize) = 0
      BY <1>2, <3>1, Zenon DEF WholeInv, SectorsInTurn
    <3> QED BY <2>4, <3>2, SectorStarts
  <2>6. Parsing(q[pos], pos)
    BY <1>1, <2>3, ParseTypes DEF WholeAt
  <2>7. ASSUME SectorAt(pos) <= q[pos].from
        PROVE  q[pos].vals = <<>> /\ q[pos].num = <<>>
    <3>1. q[pos].from \in 0 .. pos
      BY <2>6, Zenon DEF Parsing
    <3>2. q[pos].from = pos
      BY <2>4, <2>5, <2>7, <3>1
    <3> QED BY <2>6, <3>2, Zenon DEF Parsing
  <2>8. InStep(q)'
    BY <1>2, <2>1, <2>7, Zenon DEF InStep
  <2> QED BY <1>3, <2>2, <2>8, Zenon DEF WholeInv, WholeAt, SectorsInTurn
<1> QED BY <1>4, <1>5

LEMMA WholeKept ==
  ASSUME ParserTypes, ParserTypes', WholeInv, [PictureNext]_pictureVars
  PROVE  WholeInv'
<1>0. Len(file') \in Nat
  BY LenProperties DEF ParserTypes
<1>1. CASE \E picture \in Pictures : Display(picture)
  <2>1. pos' = pos /\ phase = "text" /\ phase' = "clear"
    BY <1>1 DEF Display
  <2>2. pos' = 0
    BY <2>1 DEF WholeInv, SectorsInTurn
  <2>3. phase' # "parse" /\ phase' # "sector"
    BY <2>1
  <2>4. (pos = 0 /\ phase # "parse" /\ Len(file) \in Nat => \E q : WholeAt(q))'
    BY NothingRead, PTL
  <2> QED BY <1>0, <2>2, <2>3, <2>4 DEF WholeInv, SectorsInTurn
<1>2. CASE ClearScreen
  <2>1. UNCHANGED parser /\ phase = "clear" /\ (phase' = "sector" \/ phase' = phase)
    BY <1>2 DEF ClearScreen
  <2>2. pos' = 0
    BY <2>1 DEF WholeInv, SectorsInTurn, parser
  <2>3. phase' # "parse"
    BY <2>1
  <2>4. (pos = 0 /\ phase # "parse" /\ Len(file) \in Nat => \E q : WholeAt(q))'
    BY NothingRead, PTL
  <2>5. (0 % SectorSize) = 0
    <3>1. SectorSize \in Nat \ {0}
      BY FileAssumption, Zenon
    <3>2. \A w \in Nat \ {0} : (0 % w) = 0
      OBVIOUS
    <3> QED BY <3>1, <3>2
  <2> QED BY <1>0, <2>2, <2>3, <2>4, <2>5 DEF WholeInv, SectorsInTurn
<1>3. CASE ReadSector
  BY <1>3, SectorKeepsWhole
<1>4. CASE ParseChar
  BY <1>4, ParseKeepsWhole
<1>5. CASE Reboot
  <2>1. pos' = 0 /\ phase' = "text"
    BY <1>5 DEF Reboot
  <2>2. phase' # "parse" /\ phase' # "sector"
    BY <2>1
  <2>3. (pos = 0 /\ phase # "parse" /\ Len(file) \in Nat => \E q : WholeAt(q))'
    BY NothingRead, PTL
  <2> QED BY <1>0, <2>1, <2>2, <2>3 DEF WholeInv, SectorsInTurn
<1>6. CASE UNCHANGED pictureVars
  BY <1>6, Zenon DEF pictureVars, WholeInv, SectorsInTurn, WholeAt, InStep, DrawnWhole
<1> QED BY <1>1, <1>2, <1>3, <1>4, <1>5, <1>6 DEF PictureNext

\* What was drawn while the file was read is what the picture says.
LEMMA WholeIsDrawn ==
  ASSUME ParserTypes, WholeInv
  PROVE  WholePixelsDrawn
<1> SUFFICES ASSUME NEW picture \in Pictures, file = PictureText(picture),
                    NEW k \in DOMAIN picture,
                    ShortNumbers(picture[k]), TextEnd(picture, k) - 1 <= pos,
                    TextEnd(picture, k - 1) \div SectorSize
                      = (TextEnd(picture, k) - 1 - 1) \div SectorSize
             PROVE  <<TextEnd(picture, k) - 1,
                      <<picture[k].x, picture[k].y, picture[k].colour>>>> \in calls
  BY Zenon DEF WholePixelsDrawn
<1> DEFINE s == TextEnd(picture, k - 1)
           e == TextEnd(picture, k) - 1
           p == picture[k]
<1>1. PICK q : WholeAt(q)
  BY DEF WholeInv
<1>2. EntryAt(file, q, p, s, e)
  BY <1>1, PixelStands, Zenon DEF WholeAt
<1>3. picture \in Seq(Pixel)
  BY FileAssumption DEF Pixel
<1>4. s \in Nat
  <2>1. k - 1 \in 0 .. Len(picture)
    BY <1>3, LenProperties
  <2> HIDE DEF Pixel
  <2> QED BY <1>3, <2>1, FirstTextTypes, Zenon DEF TextEnd, FirstText
<1>5. /\ ShortNumbers(p) /\ e <= pos
      /\ s \div SectorSize = (e - 1) \div SectorSize
  OBVIOUS
<1> HIDE DEF s, e, p
<1>6. /\ e \in 1 .. Len(file) /\ file[e] = "}" /\ q[e - 1].from = s
      /\ With(q[e - 1].vals, q[e - 1].num) = <<p.x, p.y, p.colour>>
  BY <1>2, <1>5, Zenon DEF EntryAt
<1>7. SectorAt(e - 1) = SectorAt(s)
  BY <1>5, Zenon DEF SectorAt
<1>8. SectorAt(s) <= s
  BY <1>4, SectorStarts
<1>9. SectorAt(e - 1) <= q[e - 1].from
  BY <1>6, <1>7, <1>8, Zenon
<1>10. e \in 1 .. pos
  <2>1. pos \in 0 .. Len(file) /\ Len(file) \in Nat
    BY LenProperties DEF ParserTypes
  <2>2. e \in 1 .. Len(file)
    BY <1>6, Zenon
  <2> QED BY <1>5, <2>1, <2>2
<1>11. <<e, With(q[e - 1].vals, q[e - 1].num)>> \in calls
  BY <1>1, <1>6, <1>9, <1>10, Zenon DEF WholeAt, DrawnWhole
<1> QED BY <1>6, <1>11, Zenon DEF e, p

\* Every pixel whose entry lies in one sector, and whose numbers num_array
\* holds, is drawn with its own numbers, whatever pixels before it were lost at
\* the end of a sector or had a longer number.
THEOREM WholePixelsAreDrawn == PictureSpec => []WholePixelsDrawn
<1>1. PictureInit => ScreenTypes /\ ParserTypes /\ WholeInv
  BY PictureTypesStart, WholeStarts
<1>2. /\ ScreenTypes /\ ParserTypes /\ WholeInv /\ [PictureNext]_pictureVars
      => ScreenTypes' /\ ParserTypes' /\ WholeInv'
  BY PictureKeepsTypes, WholeKept
<1>3. ParserTypes /\ WholeInv => WholePixelsDrawn
  BY WholeIsDrawn
<1> QED BY <1>1, <1>2, <1>3, PTL DEF PictureSpec
-----------------------------------------------------------------------------
(***************************************************************************)
(* Recursion along a size: the buffer of printf_number, the powers of a    *)
(* radix and the reading of a format are functions of this kind.           *)
(***************************************************************************)
RecRow(R, x, f) ==
  IF x \in R.stops THEN R.stop[x] ELSE R.step[<<x, f[R.prev[x]]>>]
Recursive(R) ==
  /\ \A x \in R.domain : R.size[x] \in Nat
  /\ \A x \in R.domain : x \notin R.stops =>
       R.prev[x] \in R.domain /\ R.size[R.prev[x]] < R.size[x]
SmallerFirst(R, f, k) ==
  \A x \in R.domain : R.size[x] <= k => f[x] = RecRow(R, x, f)

LEMMA Shrinks ==
  ASSUME NEW R, Recursive(R), NEW x \in R.domain, x \notin R.stops
  PROVE  /\ R.prev[x] \in R.domain /\ R.size[x] \in Nat /\ R.size[R.prev[x]] \in Nat
         /\ R.size[R.prev[x]] < R.size[x]
BY DEF Recursive

LEMMA SameRow ==
  ASSUME NEW R, NEW x, NEW f, NEW g,
         x \notin R.stops => f[R.prev[x]] = g[R.prev[x]]
  PROVE  RecRow(R, x, f) = RecRow(R, x, g)
BY Zenon DEF RecRow

LEMMA SmallOnesExist ==
  ASSUME NEW R, Recursive(R), NEW m \in Nat
  PROVE  \E f : SmallerFirst(R, f, m)
<1> DEFINE Bad == {k \in Nat : \A f : ~SmallerFirst(R, f, k)}
<1>1. ASSUME Bad # {} PROVE FALSE
  <2>1. Bad \subseteq Nat
    OBVIOUS
  <2> HIDE DEF Bad
  <2>2. PICK k \in Bad : \A n \in Bad : k <= n
    BY <1>1, <2>1, LeastNumber
  <2>3. k \in Nat /\ \A f : ~SmallerFirst(R, f, k)
    BY <2>2 DEF Bad
  <2>4. PICK f : k # 0 => SmallerFirst(R, f, k - 1)
    <3>1. CASE k = 0
      BY <3>1
    <3>2. CASE k # 0
      <4>1. k - 1 \in Nat /\ ~(k <= k - 1)
        BY <2>3, <3>2
      <4>2. k - 1 \notin Bad
        BY <2>2, <4>1
      <4> QED BY <4>1, <4>2 DEF Bad
    <3> QED BY <3>1, <3>2
  <2> DEFINE g == [x \in R.domain |->
                     IF R.size[x] <= k - 1 THEN f[x] ELSE RecRow(R, x, f)]
  <2>5. ASSUME NEW x \in R.domain, R.size[x] <= k PROVE g[x] = RecRow(R, x, g)
    <3>1. g[x] = RecRow(R, x, f)
      <4>1. CASE R.size[x] <= k - 1
        <5>1. R.size[x] \in Nat /\ k # 0
          BY <2>3, <4>1 DEF Recursive
        <5>2. f[x] = RecRow(R, x, f)
          BY <2>4, <4>1, <5>1 DEF SmallerFirst
        <5> QED BY <4>1, <5>2
      <4>2. CASE ~(R.size[x] <= k - 1)
        BY <4>2
      <4> QED BY <4>1, <4>2
    <3>2. ASSUME x \notin R.stops PROVE g[R.prev[x]] = f[R.prev[x]]
      <4>1. /\ R.prev[x] \in R.domain /\ R.size[x] \in Nat /\ R.size[R.prev[x]] \in Nat
            /\ R.size[R.prev[x]] < R.size[x]
        BY <3>2, Shrinks
      <4>2. R.size[R.prev[x]] <= k - 1
        BY <2>3, <2>5, <4>1
      <4> QED BY <4>1, <4>2
    <3> HIDE DEF g
    <3>3. RecRow(R, x, f) = RecRow(R, x, g)
      BY <3>2, SameRow
    <3> QED BY <3>1, <3>3
  <2> HIDE DEF g
  <2>6. SmallerFirst(R, g, k)
    BY <2>5 DEF SmallerFirst
  <2> QED BY <2>3, <2>6
<1> QED BY <1>1

LEMMA RecursionExists ==
  ASSUME NEW R, Recursive(R)
  PROVE  \E f : f = [x \in R.domain |-> RecRow(R, x, f)]
<1> DEFINE F(m) == CHOOSE f : SmallerFirst(R, f, m)
           g == [x \in R.domain |-> F(R.size[x])[x]]
<1>1. ASSUME NEW m \in Nat, NEW x \in R.domain, R.size[x] <= m
      PROVE  F(m)[x] = RecRow(R, x, F(m))
  <2>1. SmallerFirst(R, F(m), m)
    BY SmallOnesExist
  <2> HIDE DEF F
  <2> QED BY <1>1, <2>1 DEF SmallerFirst
<1> HIDE DEF F
<1> DEFINE Differ(n) == \E x \in R.domain, m, k \in Nat :
             /\ R.size[x] = n /\ n <= m /\ n <= k /\ F(m)[x] # F(k)[x]
           Bad == {n \in Nat : Differ(n)}
<1>2. ASSUME Bad # {} PROVE FALSE
  <2>1. Bad \subseteq Nat
    OBVIOUS
  <2>2. PICK n \in Bad : \A i \in Bad : n <= i
    <3> HIDE DEF Bad
    <3> QED BY <1>2, <2>1, LeastNumber
  <2>3. n \in Nat /\ Differ(n)
    OBVIOUS
  <2>4. PICK x \in R.domain, m \in Nat, k \in Nat :
          R.size[x] = n /\ n <= m /\ n <= k /\ F(m)[x] # F(k)[x]
    BY <2>3
  <2>5. F(m)[x] = RecRow(R, x, F(m)) /\ F(k)[x] = RecRow(R, x, F(k))
    BY <1>1, <2>4
  <2>6. ASSUME x \notin R.stops PROVE F(m)[R.prev[x]] = F(k)[R.prev[x]]
    <3> DEFINE y == R.prev[x]
    <3>1. /\ y \in R.domain /\ R.size[x] \in Nat /\ R.size[y] \in Nat
          /\ R.size[y] < R.size[x]
      BY <2>6, Shrinks
    <3> HIDE DEF y
    <3>2. R.size[y] <= m /\ R.size[y] <= k /\ ~(n <= R.size[y])
      BY <2>3, <2>4, <3>1
    <3>3. R.size[y] \notin Bad
      BY <2>2, <3>2
    <3>4. ~Differ(R.size[y])
      BY <3>1, <3>3
    <3>5. F(m)[y] = F(k)[y]
      BY <3>1, <3>2, <3>4
    <3> QED BY <3>5 DEF y
  <2>7. RecRow(R, x, F(m)) = RecRow(R, x, F(k))
    BY <2>6, SameRow
  <2> QED BY <2>4, <2>5, <2>7
<1>3. ASSUME NEW x \in R.domain PROVE g[x] = RecRow(R, x, g)
  <2> DEFINE m == R.size[x]
  <2>1. m \in Nat /\ m <= m
    BY DEF Recursive
  <2>2. g[x] = F(m)[x] /\ F(m)[x] = RecRow(R, x, F(m))
    BY <1>1, <2>1
  <2>3. ASSUME x \notin R.stops PROVE F(m)[R.prev[x]] = g[R.prev[x]]
    <3> DEFINE y == R.prev[x]
               k == R.size[y]
    <3>1. y \in R.domain /\ k \in Nat /\ k < m
      BY <2>3, Shrinks
    <3>2. g[y] = F(k)[y]
      BY <3>1
    <3>3. ~Differ(k)
      BY <1>2, <3>1
    <3>4. R.size[y] = k /\ k <= m /\ k <= k
      BY <2>1, <3>1
    <3> HIDE DEF k, m
    <3> HIDE DEF y
    <3>5. F(m)[y] = F(k)[y]
      BY <2>1, <3>1, <3>3, <3>4
    <3> HIDE DEF g
    <3> QED BY <3>2, <3>5 DEF y
  <2> HIDE DEF g, m
  <2>4. RecRow(R, x, F(m)) = RecRow(R, x, g)
    BY <2>3, SameRow
  <2> QED BY <2>2, <2>4
<1>4. g = [x \in R.domain |-> g[x]]
  OBVIOUS
<1> HIDE DEF g
<1>5. g = [x \in R.domain |-> RecRow(R, x, g)]
  BY <1>3, <1>4
<1> QED BY <1>5

\* And its values have the type of the steps.
LEMMA RecursionTypes ==
  ASSUME NEW R, Recursive(R), NEW V, NEW f, f = [x \in R.domain |-> RecRow(R, x, f)],
         \A x \in R.domain : x \in R.stops => R.stop[x] \in V,
         \A x \in R.domain, v \in V : x \notin R.stops => R.step[<<x, v>>] \in V
  PROVE  \A x \in R.domain : f[x] \in V
<1> DEFINE Wrong(n) == \E x \in R.domain : R.size[x] = n /\ f[x] \notin V
           Bad == {n \in Nat : Wrong(n)}
<1>1. ASSUME Bad # {} PROVE FALSE
  <2>1. Bad \subseteq Nat
    OBVIOUS
  <2>2. PICK n \in Bad : \A i \in Bad : n <= i
    <3> HIDE DEF Bad
    <3> QED BY <1>1, <2>1, LeastNumber
  <2>3. n \in Nat /\ Wrong(n)
    OBVIOUS
  <2>4. PICK x \in R.domain : R.size[x] = n /\ f[x] \notin V
    BY <2>3
  <2>5. f[x] = RecRow(R, x, f)
    OBVIOUS
  <2>6. x \notin R.stops
    BY <2>4, <2>5 DEF RecRow
  <2> DEFINE y == R.prev[x]
  <2>7. /\ y \in R.domain /\ R.size[x] \in Nat /\ R.size[y] \in Nat
        /\ R.size[y] < R.size[x]
    BY <2>6, Shrinks
  <2>8. f[x] = R.step[<<x, f[y]>>]
    BY <2>5, <2>6 DEF RecRow
  <2> HIDE DEF y
  <2>9. f[y] \notin V
    BY <2>4, <2>6, <2>8
  <2>10. Wrong(R.size[y])
    BY <2>7, <2>9
  <2>11. ~(n <= R.size[y])
    BY <2>3, <2>4, <2>7
  <2> QED BY <2>2, <2>7, <2>10, <2>11
<1>2. ASSUME NEW x \in R.domain PROVE f[x] \in V
  <2>1. R.size[x] \in Nat
    BY DEF Recursive
  <2>2. ~Wrong(R.size[x])
    BY <1>1, <2>1
  <2> QED BY <2>2
<1> QED BY <1>2

\* There is only one.
LEMMA OnlyOne ==
  ASSUME NEW R, Recursive(R), NEW f, NEW h,
         \A x \in R.domain :
           (x \notin R.stops => h[R.prev[x]] = f[R.prev[x]]) => h[x] = f[x]
  PROVE  \A x \in R.domain : h[x] = f[x]
<1> DEFINE Wrong(n) == \E x \in R.domain : R.size[x] = n /\ h[x] # f[x]
           Bad == {n \in Nat : Wrong(n)}
<1>1. ASSUME Bad # {} PROVE FALSE
  <2>1. Bad \subseteq Nat
    OBVIOUS
  <2>2. PICK n \in Bad : \A i \in Bad : n <= i
    <3> HIDE DEF Bad
    <3> QED BY <1>1, <2>1, LeastNumber
  <2>3. n \in Nat /\ Wrong(n)
    OBVIOUS
  <2>4. PICK x \in R.domain : R.size[x] = n /\ h[x] # f[x]
    BY <2>3
  <2>5. x \notin R.stops /\ h[R.prev[x]] # f[R.prev[x]]
    BY <2>4
  <2> DEFINE y == R.prev[x]
  <2>6. /\ y \in R.domain /\ R.size[x] \in Nat /\ R.size[y] \in Nat
        /\ R.size[y] < R.size[x]
    BY <2>5, Shrinks
  <2>7. h[y] # f[y]
    BY <2>5
  <2> HIDE DEF y
  <2>8. Wrong(R.size[y])
    BY <2>6, <2>7
  <2>9. ~(n <= R.size[y])
    BY <2>3, <2>4, <2>6
  <2> QED BY <2>2, <2>6, <2>8, <2>9
<1>2. ASSUME NEW x \in R.domain PROVE h[x] = f[x]
  <2>1. R.size[x] \in Nat
    BY DEF Recursive
  <2>2. ~Wrong(R.size[x])
    BY <1>1, <2>1
  <2> QED BY <2>2
<1> QED BY <1>2

-----------------------------------------------------------------------------
(***************************************************************************)
(* The digits of a number: those the do-while of printf_number collects,   *)
(* read backwards, are the digits by place.                                *)
(***************************************************************************)
PowerRow(r, i, f) == IF i = 0 THEN 1 ELSE r * f[i - 1]

LEMMA Powers ==
  ASSUME NEW r \in Nat
  PROVE  /\ Power(r)[0] = 1
         /\ \A i \in Nat : Power(r)[i] \in Nat /\ Power(r)[i + 1] = r * Power(r)[i]
<1> DEFINE R == [domain |-> Nat, size |-> [i \in Nat |-> i], stops |-> {0},
                 stop |-> [i \in Nat |-> 1], prev |-> [i \in Nat |-> i - 1],
                 step |-> [v \in Nat \X Nat |-> r * v[2]]]
<1>1. /\ R.domain = Nat /\ R.stops = {0}
      /\ \A i \in Nat : R.size[i] = i /\ R.stop[i] = 1 /\ R.prev[i] = i - 1
      /\ \A i \in Nat, n \in Nat : R.step[<<i, n>>] = r * n
  OBVIOUS
<1> HIDE DEF R
<1>2. Recursive(R)
  <2>1. ASSUME NEW x \in Nat, x # 0
        PROVE  x - 1 \in Nat /\ x - 1 < x
    BY <2>1
  <2>2. ASSUME NEW x \in Nat, x \notin R.stops
        PROVE  R.prev[x] \in Nat /\ R.size[R.prev[x]] < R.size[x]
    <3>1. x # 0 /\ R.prev[x] = x - 1 /\ R.size[x] = x
      BY <1>1, <2>2
    <3>2. x - 1 \in Nat /\ x - 1 < x /\ R.size[x - 1] = x - 1
      BY <1>1, <2>1, <3>1
    <3> QED BY <3>1, <3>2
  <2> QED BY <1>1, <2>2 DEF Recursive
<1>3. PICK f : f = [x \in R.domain |-> RecRow(R, x, f)]
  BY <1>2, RecursionExists
<1>4. \A x \in R.domain : f[x] \in Nat
  <2>1. \A x \in R.domain : x \in R.stops => R.stop[x] \in Nat
    BY <1>1
  <2>2. \A x \in R.domain, v \in Nat : x \notin R.stops => R.step[<<x, v>>] \in Nat
    BY <1>1
  <2> QED BY <1>2, <1>3, <2>1, <2>2, RecursionTypes, Zenon
<1>5. ASSUME NEW i \in Nat PROVE f[i] = PowerRow(r, i, f)
  <2>1. f[i] = RecRow(R, i, f)
    BY <1>1, <1>3
  <2>2. CASE i = 0
    BY <1>1, <2>1, <2>2 DEF RecRow, PowerRow
  <2>3. CASE i # 0
    <3>1. i - 1 \in Nat
      BY <2>3
    <3>2. f[i - 1] \in Nat
      BY <1>1, <1>4, <3>1
    <3>3. f[i] = R.step[<<i, f[i - 1]>>]
      BY <1>1, <2>1, <2>3 DEF RecRow
    <3> QED BY <1>1, <2>3, <3>2, <3>3 DEF PowerRow
  <2> QED BY <2>2, <2>3
<1>6. f = [i \in Nat |-> f[i]]
  BY <1>1, <1>3
<1>7. f = [i \in Nat |-> PowerRow(r, i, f)]
  BY <1>5, <1>6
<1>8. Power(r) = CHOOSE g : g = [i \in Nat |-> PowerRow(r, i, g)]
  BY Zenon DEF Power, PowerRow
<1> DEFINE h == Power(r)
<1>9. h = [i \in Nat |-> PowerRow(r, i, h)]
  BY <1>7, <1>8, Zenon
<1> HIDE DEF h
<1>10. \A i \in R.domain : h[i] = f[i]
  <2>1. ASSUME NEW i \in R.domain, i \notin R.stops => h[R.prev[i]] = f[R.prev[i]]
        PROVE  h[i] = f[i]
    <3>1. i \in Nat /\ h[i] = PowerRow(r, i, h) /\ f[i] = PowerRow(r, i, f)
      BY <1>1, <1>5, <1>9
    <3> QED BY <1>1, <2>1, <3>1 DEF PowerRow
  <2> QED BY <1>2, <2>1, OnlyOne
<1>11. h[0] = 1
  BY <1>9 DEF PowerRow
<1>12. ASSUME NEW i \in Nat PROVE h[i] \in Nat /\ h[i + 1] = r * h[i]
  <2>1. i + 1 \in Nat /\ i + 1 # 0 /\ (i + 1) - 1 = i
    OBVIOUS
  <2>2. h[i + 1] = PowerRow(r, i + 1, h)
    BY <1>9, <2>1
  <2> QED BY <1>1, <1>4, <1>10, <2>1, <2>2 DEF PowerRow
<1> QED BY <1>11, <1>12 DEF h

LEMMA PowerGrows ==
  ASSUME NEW r \in Nat, r >= 2
  PROVE  \A i \in Nat : /\ Power(r)[i] \in Nat /\ Power(r)[i] > i
                        /\ \A j \in 0 .. i : Power(r)[j] <= Power(r)[i]
<1> DEFINE p == Power(r)
           Good(i) == p[i] \in Nat /\ p[i] > i /\ \A j \in 0 .. i : p[j] <= p[i]
           Bad == {i \in Nat : ~Good(i)}
<1>1. p[0] = 1 /\ \A i \in Nat : p[i] \in Nat /\ p[i + 1] = r * p[i]
  BY Powers
<1> HIDE DEF p
<1>2. ASSUME Bad # {} PROVE FALSE
  <2>1. Bad \subseteq Nat
    OBVIOUS
  <2>2. PICK k \in Bad : \A n \in Bad : k <= n
    <3> HIDE DEF Bad
    <3> QED BY <1>2, <2>1, LeastNumber
  <2>3. k \in Nat /\ ~Good(k)
    OBVIOUS
  <2>4. k # 0
    <3>1. ASSUME k = 0 PROVE Good(k)
      <4>1. \A j \in 0 .. k : j = 0
        BY <3>1
      <4> QED BY <1>1, <3>1, <4>1
    <3> QED BY <2>3, <3>1
  <2>5. k - 1 \in Nat /\ ~(k <= k - 1) /\ (k - 1) + 1 = k
    BY <2>3, <2>4
  <2>6. Good(k - 1)
    BY <2>2, <2>5
  <2> DEFINE q == p[k - 1]
  <2>7. q \in Nat /\ q > k - 1 /\ \A j \in 0 .. k - 1 : p[j] <= q
    BY <2>6
  <2>8. p[k] = r * q /\ p[k] \in Nat
    BY <1>1, <2>3, <2>5
  <2> HIDE DEF q
  <2>9. r * q >= 2 * q
    BY <2>7
  <2>10. r * q > k /\ r * q >= q /\ r * q \in Nat
    BY <2>3, <2>5, <2>7, <2>9
  <2>11. ASSUME NEW j \in 0 .. k PROVE p[j] <= p[k]
    <3>1. CASE j = k
      BY <2>8, <3>1
    <3>2. CASE j # k
      <4>1. j \in 0 .. k - 1 /\ j \in Nat
        BY <2>3, <3>2
      <4>2. p[j] <= q /\ p[j] \in Nat
        BY <1>1, <2>7, <4>1
      <4> QED BY <2>7, <2>8, <2>10, <4>2
    <3> QED BY <3>1, <3>2
  <2>12. Good(k)
    BY <2>8, <2>10, <2>11
  <2> QED BY <2>3, <2>12
<1>3. ASSUME NEW i \in Nat PROVE Good(i)
  BY <1>2
<1> QED BY <1>3 DEF p

\* A number has one number of digits.
HasDigits(n, r, k) == n < Power(r)[k] /\ (k > 1 => Power(r)[k - 1] <= n)

LEMMA DigitCountIs ==
  ASSUME NEW r \in Nat, r >= 2, NEW n \in Nat, NEW k \in Nat \ {0}, HasDigits(n, r, k)
  PROVE  DigitCount(n, r) = k
<1> DEFINE p == Power(r)
<1>1. \A i \in Nat : p[i] \in Nat /\ p[i] > i /\ \A j \in 0 .. i : p[j] <= p[i]
  BY PowerGrows
<1>2. n < p[k] /\ (k > 1 => p[k - 1] <= n)
  BY DEF HasDigits
<1>3. k \in 1 .. n + 1
  <2>1. CASE k = 1
    BY <2>1
  <2>2. CASE k # 1
    <3>1. k - 1 \in Nat /\ k > 1
      BY <2>2
    <3>2. k - 1 < p[k - 1] /\ p[k - 1] \in Nat
      BY <1>1, <3>1
    <3> HIDE DEF p
    <3> QED BY <1>2, <3>1, <3>2
  <2> QED BY <2>1, <2>2
<1>4. ASSUME NEW i \in 1 .. n + 1, n < p[i], i > 1 => p[i - 1] <= n
      PROVE  i = k
  <2>1. ASSUME NEW a \in Nat \ {0}, NEW b \in Nat \ {0}, n < p[a], b > 1 => p[b - 1] <= n
        PROVE  ~(a < b)
    <3> SUFFICES ASSUME a < b PROVE FALSE
      OBVIOUS
    <3>1. b > 1 /\ b - 1 \in Nat /\ a \in 0 .. b - 1 /\ a \in Nat
      OBVIOUS
    <3>2. p[a] <= p[b - 1] /\ p[a] \in Nat /\ p[b - 1] \in Nat
      BY <1>1, <3>1
    <3> HIDE DEF p
    <3> QED BY <2>1, <3>1, <3>2
  <2>2. i \in Nat \ {0}
    OBVIOUS
  <2> HIDE DEF p
  <2>3. ~(i < k) /\ ~(k < i)
    BY <1>2, <1>4, <2>1, <2>2
  <2> QED BY <2>2, <2>3
<1>5. DigitCount(n, r) = CHOOSE i \in 1 .. n + 1 : n < p[i] /\ (i > 1 => p[i - 1] <= n)
  BY Zenon DEF DigitCount
<1> HIDE DEF p
<1> QED BY <1>2, <1>3, <1>4, <1>5

LEMMA QuotientIs ==
  ASSUME NEW w \in Nat \ {0}, NEW a \in Int, NEW z \in Int, NEW t \in 0 .. w - 1,
         a = w * z + t
  PROVE  a \div w = z
<1> DEFINE q == a \div w
           e == a % w
<1>1. e \in 0 .. w - 1 /\ q \in Int /\ a = w * q + e
  BY Remainder
<1> HIDE DEF q, e
<1> DEFINE d == q - z
<1>2. d \in Int /\ w * d = w * q - w * z
  BY <1>1
<1>3. w * q \in Int /\ w * z \in Int /\ w * d \in Int
  BY <1>1, <1>2
<1> HIDE DEF d
<1>4. w * d = t - e
  BY <1>1, <1>2, <1>3
<1>5. w * d < w /\ -w < w * d
  BY <1>1, <1>3, <1>4
<1>6. d >= 1 => w * d >= w
  BY <1>2
<1>7. d <= -1 => w * d <= -w
  BY <1>2
<1>8. d = 0
  BY <1>2, <1>3, <1>5, <1>6, <1>7
<1>9. q = z
  BY <1>1, <1>8 DEF d
<1> QED BY <1>9 DEF q

LEMMA TwiceDivided ==
  ASSUME NEW m \in Nat, NEW r \in Nat \ {0}, NEW c \in Nat \ {0}
  PROVE  m \div (r * c) = (m \div r) \div c
<1> DEFINE q == m \div r
           a == m % r
           z == q \div c
           b == q % c
<1>1. a \in 0 .. r - 1 /\ q \in Int /\ m = r * q + a
  BY Remainder
<1> HIDE DEF q, a
<1>2. b \in 0 .. c - 1 /\ z \in Int /\ q = c * z + b
  BY <1>1, Remainder
<1> HIDE DEF z, b
<1>3. r * q = r * (c * z) + r * b /\ r * (c * z) = (r * c) * z
  BY <1>1, <1>2
<1>4. /\ r * c \in Nat \ {0} /\ r * b \in Nat /\ (r * c) * z \in Int
      /\ r * q \in Int /\ r * (c * z) \in Int
  BY <1>1, <1>2
<1>5. r * b <= r * c - r
  <2>1. r * (c - 1) = r * c - r
    OBVIOUS
  <2>2. c - 1 - b >= 0 /\ c - 1 - b \in Nat
    BY <1>2
  <2>3. r * (c - 1 - b) \in Nat
    BY <2>2
  <2>4. r * (c - 1 - b) = r * (c - 1) - r * b
    BY <1>2
  <2> QED BY <1>4, <2>1, <2>3, <2>4
<1> DEFINE t == r * b + a
           w == r * c
<1>6. t \in 0 .. w - 1 /\ m = w * z + t /\ w \in Nat \ {0}
  BY <1>1, <1>3, <1>4, <1>5
<1> HIDE DEF t, w
<1>7. m \in Int
  OBVIOUS
<1>8. m \div w = z
  BY <1>2, <1>6, <1>7, QuotientIs
<1> QED BY <1>8 DEF w, z, q

\* s holds the digits of n, the last one first.
ByPlace(s, n, r) ==
  /\ s \in Seq(Nat) /\ Len(s) \in Nat \ {0} /\ HasDigits(n, r, Len(s))
  /\ \A i \in 1 .. Len(s) : s[i] = ((n \div Power(r)[i - 1]) % r)

LEMMA OneDigit ==
  ASSUME NEW r \in Nat, r >= 2, NEW n \in Nat, n < r
  PROVE  ByPlace(<<n>>, n, r)
<1> DEFINE p == Power(r)
<1>1. p[0] = 1 /\ p[0 + 1] = r * p[0]
  BY Powers
<1> HIDE DEF p
<1>2. p[0] = 1 /\ p[1] = r
  BY <1>1
<1>3. (n \div 1) % r = n
  OBVIOUS
<1> DEFINE s == <<n>>
<1>4. s \in Seq(Nat) /\ Len(s) = 1 /\ s[1] = n
  OBVIOUS
<1> HIDE DEF s
<1>5. HasDigits(n, r, 1)
  BY <1>2 DEF HasDigits, p
<1>6. ASSUME NEW i \in 1 .. Len(s) PROVE s[i] = ((n \div p[i - 1]) % r)
  <2>1. i = 1 /\ i - 1 = 0
    BY <1>4
  <2> QED BY <1>2, <1>3, <1>4, <2>1
<1>7. ByPlace(s, n, r)
  BY <1>4, <1>5, <1>6 DEF ByPlace, p
<1> QED BY <1>7 DEF s

LEMMA MoreDigits ==
  ASSUME NEW r \in Nat, r >= 2, NEW n \in Nat, n >= r, NEW t, ByPlace(t, n \div r, r)
  PROVE  ByPlace(<<n % r>> \o t, n, r)
<1> DEFINE p == Power(r)
           q == n \div r
           a == n % r
           l == Len(t)
           s == <<a>> \o t
<1>1. p[0] = 1 /\ \A i \in Nat : p[i] \in Nat /\ p[i + 1] = r * p[i] /\ p[i] > i
  BY Powers, PowerGrows
<1>2. /\ t \in Seq(Nat) /\ l \in Nat \ {0} /\ q < p[l] /\ (l > 1 => p[l - 1] <= q)
      /\ \A i \in 1 .. l : t[i] = ((q \div p[i - 1]) % r)
  BY DEF ByPlace, HasDigits
<1>3. a \in 0 .. r - 1 /\ q \in Int /\ n = r * q + a /\ q \in Nat
  <2>1. n \div r \in Nat
    OBVIOUS
  <2> QED BY <2>1, Remainder
<1>4. s \in Seq(Nat) /\ Len(s) = l + 1 /\ s[1] = a /\ \A i \in 1 .. l : s[i + 1] = t[i]
  <2>1. <<a>> \in Seq(Nat) /\ Len(<<a>>) = 1 /\ <<a>>[1] = a
    BY <1>3
  <2>2. /\ s \in Seq(Nat) /\ Len(s) = Len(<<a>>) + Len(t)
        /\ \A i \in 1 .. Len(<<a>>) + Len(t) :
             s[i] = IF i <= Len(<<a>>) THEN <<a>>[i] ELSE t[i - Len(<<a>>)]
    BY <1>2, <2>1, ConcatProperties
  <2> HIDE DEF s, a, l
  <2>3. Len(s) = l + 1
    BY <1>2, <2>1, <2>2 DEF l
  <2>4. s[1] = a
    BY <1>2, <2>1, <2>2 DEF l
  <2>5. ASSUME NEW i \in 1 .. l PROVE s[i + 1] = t[i]
    <3>1. i + 1 \in 1 .. 1 + l /\ ~(i + 1 <= 1) /\ (i + 1) - 1 = i
      BY <1>2
    <3> QED BY <2>1, <2>2, <3>1 DEF l
  <2> QED BY <2>2, <2>3, <2>4, <2>5
<1> HIDE DEF p, q, a, l, s
<1>5. p[l] \in Nat /\ p[l + 1] = r * p[l] /\ p[l + 1] \in Nat
  <2>1. l \in Nat /\ l + 1 \in Nat
    BY <1>2
  <2> QED BY <1>1, <2>1
<1>6. n < p[l + 1]
  <2> DEFINE c == p[l]
  <2>1. c \in Nat /\ q + 1 <= c
    BY <1>2, <1>3, <1>5
  <2> HIDE DEF c
  <2>2. r * (c - (q + 1)) \in Nat /\ r * (c - (q + 1)) = r * c - (r * q + r)
    BY <1>3, <2>1
  <2>3. r * q \in Nat /\ r * c \in Nat
    BY <1>3, <2>1
  <2>4. n < r * c
    BY <1>3, <2>2, <2>3
  <2> QED BY <1>5, <2>4 DEF c
<1>7. p[l] <= n
  <2>1. CASE l = 1
    <3>1. p[1] = r * p[0] /\ r * 1 = r
      BY <1>1
    <3> QED BY <1>1, <2>1, <3>1
  <2>2. CASE l # 1
    <3> DEFINE c == p[l - 1]
    <3>1. l > 1 /\ l - 1 \in Nat /\ (l - 1) + 1 = l
      BY <1>2, <2>2
    <3>2. c \in Nat /\ p[l] = r * c /\ c <= q
      BY <1>1, <1>2, <3>1
    <3> HIDE DEF c
    <3>3. r * (q - c) \in Nat /\ r * (q - c) = r * q - r * c
      BY <1>3, <3>2
    <3>4. r * q \in Nat /\ r * c \in Nat
      BY <1>3, <3>2
    <3> QED BY <1>3, <3>2, <3>3, <3>4
  <2> QED BY <2>1, <2>2
<1>8. HasDigits(n, r, l + 1)
  <2>1. (l + 1) - 1 = l
    BY <1>2
  <2> QED BY <1>6, <1>7, <2>1 DEF HasDigits, p
<1>9. ASSUME NEW i \in 1 .. l + 1 PROVE s[i] = ((n \div p[i - 1]) % r)
  <2>1. CASE i = 1
    <3>1. n \div 1 = n /\ i - 1 = 0
      BY <2>1
    <3> QED BY <1>1, <1>4, <2>1, <3>1 DEF a
  <2>2. CASE i # 1
    <3> DEFINE j == i - 1
    <3>1. j \in 1 .. l /\ j + 1 = i /\ j - 1 \in Nat /\ (j - 1) + 1 = j
      BY <1>2, <2>2
    <3> DEFINE c == p[j - 1]
    <3>2. c \in Nat \ {0} /\ p[j] = r * c
      BY <1>1, <3>1
    <3>3. s[i] = t[j] /\ t[j] = ((q \div c) % r)
      BY <1>2, <1>4, <3>1
    <3> HIDE DEF c
    <3>4. n \div (r * c) = q \div c
      <4>1. c \in Nat \ {0} /\ r \in Nat \ {0}
        BY <3>2
      <4>2. n \div (r * c) = (n \div r) \div c
        BY <4>1, TwiceDivided
      <4> QED BY <4>2 DEF q
    <3> QED BY <3>2, <3>3, <3>4
  <2> QED BY <2>1, <2>2
<1>10. ByPlace(s, n, r)
  <2>1. Len(s) \in Nat \ {0} /\ Len(s) = l + 1
    BY <1>2, <1>4
  <2> QED BY <1>4, <1>8, <1>9, <2>1 DEF ByPlace, p
<1> QED BY <1>10 DEF s, a

\* The type of a list of digits is needed before its values are.
BufferRow(r, n, f) == IF n < r THEN <<n>> ELSE <<n % r>> \o f[n \div r]

LEMMA Shorter ==
  ASSUME NEW r \in Nat, r >= 2, NEW n \in Nat, ~(n < r)
  PROVE  n \div r \in Nat /\ n \div r < n
<1> DEFINE q == n \div r
           a == n % r
<1>1. a \in 0 .. r - 1 /\ q \in Int /\ n = r * q + a
  BY Remainder
<1>2. q \in Nat
  OBVIOUS
<1> HIDE DEF q, a
<1>3. r * q \in Nat /\ q >= 1
  <2>1. CASE q = 0
    <3>1. r * q = 0
      BY <2>1
    <3> QED BY <1>1, <3>1
  <2>2. CASE q # 0
    BY <1>2, <2>2
  <2> QED BY <2>1, <2>2
<1>4. r * q >= 2 * q
  BY <1>2
<1>5. q < n
  BY <1>1, <1>2, <1>3, <1>4
<1> QED BY <1>2, <1>5 DEF q

LEMMA BufferIs ==
  ASSUME NEW r \in Nat, r >= 2
  PROVE  \E f : /\ f = [n \in Word |-> BufferRow(r, n, f)]
                /\ \A n \in Word : Digits10(n, r) = f[n]
<1> DEFINE R == [domain |-> Word, size |-> [n \in Word |-> n],
                 stops |-> {n \in Word : n < r},
                 stop |-> [n \in Word |-> <<n>>],
                 prev |-> [n \in Word |-> n \div r],
                 step |-> [v \in Word \X Seq(Nat) |-> <<v[1] % r>> \o v[2]]]
<1>1. /\ R.domain = Word
      /\ \A n \in Word : /\ n \in R.stops <=> n < r
                         /\ R.size[n] = n /\ R.stop[n] = <<n>> /\ R.prev[n] = n \div r
      /\ \A n \in Word, t \in Seq(Nat) : R.step[<<n, t>>] = <<n % r>> \o t
  OBVIOUS
<1> HIDE DEF R
<1>2. Word \subseteq Nat /\ \A n \in Word, k \in Nat : k <= n => k \in Word
  BY PrintfAssumption DEF Word
<1>3. ASSUME NEW n \in Word, n \notin R.stops
      PROVE  n \div r \in Word /\ n \div r < n
  <2>1. n \in Nat /\ ~(n < r)
    BY <1>1, <1>2, <1>3
  <2>2. n \div r \in Nat /\ n \div r < n
    BY <2>1, Shorter
  <2> QED BY <1>2, <2>1, <2>2
<1>4. Recursive(R)
  <2>1. \A n \in Word : R.size[n] \in Nat
    BY <1>1, <1>2
  <2>2. ASSUME NEW n \in Word, n \notin R.stops
        PROVE  R.prev[n] \in Word /\ R.size[R.prev[n]] < R.size[n]
    <3>1. n \div r \in Word /\ n \div r < n
      BY <1>3, <2>2
    <3>2. R.prev[n] = n \div r /\ R.size[n] = n
      BY <1>1
    <3>3. R.size[n \div r] = n \div r
      BY <1>1, <3>1
    <3> QED BY <3>1, <3>2, <3>3
  <2> QED BY <1>1, <2>1, <2>2 DEF Recursive
<1>5. PICK f : f = [n \in R.domain |-> RecRow(R, n, f)]
  BY <1>4, RecursionExists
<1>6. \A n \in R.domain : f[n] \in Seq(Nat)
  <2>1. ASSUME NEW n \in R.domain PROVE R.stop[n] \in Seq(Nat)
    <3>1. n \in Nat /\ R.stop[n] = <<n>>
      BY <1>1, <1>2
    <3> QED BY <3>1
  <2>2. ASSUME NEW n \in R.domain, NEW t \in Seq(Nat)
        PROVE  R.step[<<n, t>>] \in Seq(Nat)
    <3>1. n \in Nat /\ R.step[<<n, t>>] = <<n % r>> \o t
      BY <1>1, <1>2
    <3>2. n % r \in Nat
      BY <3>1
    <3>3. <<n % r>> \in Seq(Nat)
      BY <3>2
    <3>4. <<n % r>> \o t \in Seq(Nat)
      BY <3>3, ConcatProperties
    <3> QED BY <3>1, <3>4
  <2> QED BY <1>4, <1>5, <2>1, <2>2, RecursionTypes
<1>7. ASSUME NEW n \in Word PROVE f[n] = BufferRow(r, n, f)
  <2>1. f[n] = RecRow(R, n, f)
    BY <1>1, <1>5
  <2>2. CASE n < r
    BY <1>1, <2>1, <2>2, Zenon DEF RecRow, BufferRow
  <2>3. CASE ~(n < r)
    <3>1. n \notin R.stops /\ R.prev[n] = n \div r
      BY <1>1, <2>3
    <3>2. f[n \div r] \in Seq(Nat)
      BY <1>1, <1>3, <1>6, <3>1
    <3>3. f[n] = R.step[<<n, f[n \div r]>>]
      BY <2>1, <3>1, Zenon DEF RecRow
    <3>4. f[n] = <<n % r>> \o f[n \div r]
      BY <1>1, <3>2, <3>3, Zenon
    <3> QED BY <2>3, <3>4, Zenon DEF BufferRow
  <2> QED BY <2>2, <2>3
<1>8. f = [n \in Word |-> f[n]]
  BY <1>1, <1>5
<1>9. f = [n \in Word |-> BufferRow(r, n, f)]
  BY <1>7, <1>8
<1> DEFINE h == CHOOSE g : g = [n \in Word |-> BufferRow(r, n, g)]
<1>10. h = [n \in Word |-> BufferRow(r, n, h)]
  BY <1>9, Zenon
<1>11. \A n \in Word : Digits10(n, r) = h[n]
  BY Zenon DEF Digits10, BufferRow
<1> HIDE DEF h
<1> QED BY <1>10, <1>11

LEMMA DigitsCollected ==
  ASSUME NEW r \in Nat, r >= 2, NEW m \in Word
  PROVE  ByPlace(Digits10(m, r), m, r)
<1>1. PICK f : /\ f = [n \in Word |-> BufferRow(r, n, f)]
               /\ \A n \in Word : Digits10(n, r) = f[n]
  BY BufferIs
<1>2. Word \subseteq Nat /\ \A n \in Word, k \in Nat : k <= n => k \in Word
  BY PrintfAssumption DEF Word
<1> DEFINE Bad == {n \in Word : ~ByPlace(f[n], n, r)}
<1>3. ASSUME Bad # {} PROVE FALSE
  <2>1. Bad \subseteq Nat
    BY <1>2
  <2>2. PICK n \in Bad : \A i \in Bad : n <= i
    <3> HIDE DEF Bad
    <3> QED BY <1>3, <2>1, LeastNumber
  <2>3. n \in Word /\ n \in Nat /\ ~ByPlace(f[n], n, r)
    BY <1>2
  <2>4. f[n] = BufferRow(r, n, f)
    BY <1>1, <2>3
  <2>5. CASE n < r
    <3>1. f[n] = <<n>>
      BY <2>4, <2>5 DEF BufferRow
    <3>2. ByPlace(<<n>>, n, r)
      BY <2>3, <2>5, OneDigit
    <3> QED BY <2>3, <3>1, <3>2
  <2>6. CASE ~(n < r)
    <3>1. n \div r \in Nat /\ n \div r < n
      BY <2>3, <2>6, Shorter
    <3>2. n \div r \in Word /\ ~(n <= n \div r)
      BY <1>2, <2>3, <3>1
    <3>3. ByPlace(f[n \div r], n \div r, r)
      BY <2>2, <3>2
    <3>4. f[n] = <<n % r>> \o f[n \div r]
      BY <2>4, <2>6 DEF BufferRow
    <3>5. n >= r
      BY <2>3, <2>6
    <3>6. ByPlace(<<n % r>> \o f[n \div r], n, r)
      BY <2>3, <3>3, <3>5, MoreDigits
    <3> QED BY <2>3, <3>4, <3>6
  <2> QED BY <2>5, <2>6
<1>4. ByPlace(f[m], m, r)
  BY <1>3
<1> QED BY <1>1, <1>4

\* printf_number prints the digits of number.
LEMMA DigitsPrinted ==
  ASSUME NEW r \in Nat, r >= 2, NEW m \in Word
  PROVE  /\ Reverse(Digits10(m, r)) = DigitsOf(m, r)
         /\ DigitsOf(m, r) \in Seq(Nat)
<1> DEFINE s == Digits10(m, r)
           l == Len(s)
           p == Power(r)
<1>1. ByPlace(s, m, r)
  BY DigitsCollected
<1>2. m \in Nat
  BY PrintfAssumption DEF Word
<1> HIDE DEF s
<1>3. l \in Nat \ {0} /\ HasDigits(m, r, l) /\ s \in Seq(Nat)
  BY <1>1 DEF ByPlace
<1>4. DigitCount(m, r) = l
  <2> HIDE DEF l
  <2> QED BY <1>2, <1>3, DigitCountIs
<1>5. DigitsOf(m, r) = [i \in 1 .. l |-> (m \div p[l - i]) % r]
  BY <1>4, Zenon DEF DigitsOf
<1>6. Reverse(s) = [i \in 1 .. l |-> s[(l - i) + 1]]
  BY Zenon DEF Reverse
<1> HIDE DEF l, p
<1>7. ASSUME NEW i \in 1 .. l PROVE s[(l - i) + 1] = ((m \div p[l - i]) % r)
  <2>1. (l - i) + 1 \in 1 .. l /\ ((l - i) + 1) - 1 = l - i
    BY <1>3
  <2>2. \A j \in 1 .. l : s[j] = ((m \div p[j - 1]) % r)
    BY <1>1 DEF ByPlace, l, p
  <2>3. s[(l - i) + 1] = ((m \div p[((l - i) + 1) - 1]) % r)
    BY <2>1, <2>2, Zenon
  <2> QED BY <2>1, <2>3, Zenon
<1>8. Reverse(s) = DigitsOf(m, r)
  <2> DEFINE D(i) == s[(l - i) + 1]
             E(i) == (m \div p[l - i]) % r
  <2>1. \A i \in 1 .. l : D(i) = E(i)
    BY <1>7
  <2>2. Reverse(s) = [i \in 1 .. l |-> D(i)] /\ DigitsOf(m, r) = [i \in 1 .. l |-> E(i)]
    BY <1>5, <1>6
  <2> HIDE DEF D, E
  <2> QED BY <2>1, <2>2
<1>9. Reverse(s) \in Seq(Nat)
  <2>1. ASSUME NEW i \in 1 .. l PROVE s[(l - i) + 1] \in Nat
    <3>1. (l - i) + 1 \in 1 .. Len(s)
      BY <1>3 DEF l
    <3> QED BY <1>3, <3>1, ElementOfSeq
  <2> DEFINE D(i) == s[(l - i) + 1]
  <2>2. Reverse(s) = [i \in 1 .. l |-> D(i)] /\ \A i \in 1 .. l : D(i) \in Nat
    BY <1>6, <2>1
  <2> HIDE DEF D
  <2>3. Reverse(s) \in [1 .. l -> Nat] /\ l \in Nat
    BY <1>3, <2>2
  <2> QED BY <2>3
<1> QED BY <1>8, <1>9 DEF s

-----------------------------------------------------------------------------
(***************************************************************************)
(* One number: the word that printf_number prints is the magnitude of the  *)
(* value, whenever the value fits into a word.                             *)
(***************************************************************************)
LEMMA InOneWord ==
  ASSUME NEW w \in Nat, w >= 2, NEW low \in 0 .. w - 1
  PROVE  /\ low - w < 0 /\ -(low - w) = w - low /\ ~(low < 0)
         /\ low >= w \div 2 => w - low \in 0 .. w - 1 /\ (w - low) % w = w - low
<1>1. \A a \in 0 .. w - 1 : a % w = a
  OBVIOUS
<1>2. w \div 2 >= 1
  OBVIOUS
<1>3. low >= w \div 2 => w - low \in 0 .. w - 1
  BY <1>2
<1> QED BY <1>1, <1>3

LEMMA InTwoWords ==
  ASSUME NEW w \in Nat, w >= 2, NEW low \in 0 .. w - 1, NEW high \in 0 .. w - 1
  PROVE  /\ ~(low + w * high < 0) /\ (low + w * high) - w * w < 0
         /\ low + w * high < w => low + w * high = low
         /\ -((low + w * high) - w * w) < w =>
              /\ -((low + w * high) - w * w) = (w - low) % w
              /\ (w - low) % w \in 0 .. w - 1
<1> DEFINE d == w - high
<1>1. d \in Nat /\ d >= 1 /\ w * d = w * w - w * high
  OBVIOUS
<1>2. w * w \in Nat /\ w * high \in Nat /\ w * d \in Nat
  BY <1>1
<1> HIDE DEF d
<1>3. w * d >= w
  BY <1>1
<1>4. ASSUME low + w * high < w PROVE low + w * high = low
  <2>1. high >= 1 => w * high >= w
    OBVIOUS
  <2>2. high = 0
    BY <1>2, <1>4, <2>1
  <2>3. w * high = 0
    BY <2>2
  <2> QED BY <2>3
<1>5. -((low + w * high) - w * w) = w * d - low
  BY <1>1, <1>2
<1>6. ASSUME w * d - low < w PROVE w * d - low = (w - low) % w /\ (w - low) % w \in 0 .. w - 1
  <2>1. d >= 2 => w * d >= 2 * w
    BY <1>1
  <2>2. d = 1
    BY <1>1, <1>2, <1>6, <2>1
  <2>3. w * d = w
    BY <2>2
  <2>4. w - low \in 0 .. w - 1
    BY <1>6, <2>3
  <2>5. \A a \in 0 .. w - 1 : a % w = a
    OBVIOUS
  <2>6. (w - low) % w = w - low
    BY <2>4, <2>5
  <2> QED BY <2>3, <2>4, <2>6
<1>7. ~(low + w * high < 0) /\ (low + w * high) - w * w < 0
  BY <1>1, <1>2, <1>3
<1> QED BY <1>4, <1>5, <1>6, <1>7

Minus(c, top) == Signed(c) /\ Negative(top)
Printed(c, low, top) == IF Minus(c, top) THEN Negate(low) ELSE low

LEMMA ValuePrinted ==
  ASSUME NEW c, NEW w \in Seq(Word), Len(w) \in {1, 2},
         Len(w) = 2 => Magnitude(Value(c, w)) < TwoToBits
  PROVE  /\ (Value(c, w) < 0) = Minus(c, w[Len(w)])
         /\ Magnitude(Value(c, w)) = Printed(c, w[1], w[Len(w)])
         /\ Printed(c, w[1], w[Len(w)]) \in Word
<1> DEFINE T == TwoToBits
           low == w[1]
           top == w[Len(w)]
           m == Minus(c, top)
<1>1. T \in Nat /\ T >= 2 /\ Word = 0 .. T - 1
  BY PrintfAssumption DEF Word
<1>2. low \in 0 .. T - 1 /\ top \in 0 .. T - 1
  <2>1. 1 \in 1 .. Len(w) /\ Len(w) \in 1 .. Len(w)
    OBVIOUS
  <2>2. low \in Word /\ top \in Word
    BY <2>1, ElementOfSeq
  <2> QED BY <1>1, <2>2
<1>3. m <=> Signed(c) /\ top >= T \div 2
  BY DEF Minus, Negative
<1>4. Printed(c, low, top) = IF m THEN (T - low) % T ELSE low
  BY Zenon DEF Printed, Negate
<1>5. m \in BOOLEAN
  BY DEF Minus, Signed, Negative
<1>6. CASE Len(w) = 1
  <2>1. top = low
    BY <1>6
  <2>2. Value(c, w) = IF m THEN low - T ELSE low
    BY <1>3, <1>6 DEF Value
  <2> HIDE DEF T, low, top, m
  <2>3. m => low >= T \div 2
    BY <1>3, <2>1
  <2>4. /\ low - T < 0 /\ -(low - T) = T - low /\ ~(low < 0)
        /\ low >= T \div 2 => T - low \in 0 .. T - 1 /\ (T - low) % T = T - low
    BY <1>1, <1>2, InOneWord
  <2>5. CASE m
    <3>1. Value(c, w) = low - T /\ Printed(c, low, top) = (T - low) % T
      BY <1>4, <2>2, <2>5
    <3>2. Magnitude(low - T) = T - low
      BY <1>1, <1>2, <2>4 DEF Magnitude
    <3>3. (low - T < 0) = m
      BY <1>5, <2>4, <2>5
    <3> QED BY <1>1, <2>3, <2>4, <2>5, <3>1, <3>2, <3>3, Zenon DEF low, top, m
  <2>6. CASE ~m
    <3>1. Value(c, w) = low /\ Printed(c, low, top) = low
      BY <1>4, <2>2, <2>6
    <3>2. Magnitude(low) = low
      BY <1>1, <1>2, <2>4 DEF Magnitude
    <3>3. (low < 0) = m
      BY <1>5, <2>4, <2>6
    <3> QED BY <1>1, <1>2, <3>1, <3>2, <3>3, Zenon DEF low, top, m
  <2> QED BY <2>5, <2>6
<1>7. CASE Len(w) = 2
  <2> DEFINE u == low + T * top
  <2>1. Value(c, w) = IF m THEN u - T * T ELSE u
    BY <1>3, <1>7 DEF Value
  <2>2. Magnitude(Value(c, w)) < T
    BY <1>7
  <2>3. /\ ~(u < 0) /\ u - T * T < 0
        /\ u < T => u = low
        /\ -(u - T * T) < T =>
             /\ -(u - T * T) = (T - low) % T
             /\ (T - low) % T \in 0 .. T - 1
    <3> HIDE DEF T, low, top
    <3> QED BY <1>1, <1>2, InTwoWords
  <2> HIDE DEF T, low, top, m, u
  <2>4. CASE m
    <3>1. Value(c, w) = u - T * T /\ Printed(c, low, top) = (T - low) % T
      BY <1>4, <2>1, <2>4
    <3>2. Magnitude(u - T * T) = -(u - T * T)
      BY <2>3, Zenon DEF Magnitude
    <3>3. (u - T * T < 0) = m
      BY <1>5, <2>3, <2>4, Zenon
    <3>4. -(u - T * T) < T
      BY <2>2, <3>1, <3>2, Zenon
    <3> QED BY <1>1, <2>3, <3>1, <3>2, <3>3, <3>4, Zenon DEF low, top, m
  <2>5. CASE ~m
    <3>1. Value(c, w) = u /\ Printed(c, low, top) = low
      BY <1>4, <2>1, <2>5
    <3>2. Magnitude(u) = u
      BY <2>3, Zenon DEF Magnitude
    <3>3. (u < 0) = m
      <4>1. m = FALSE
        BY <1>5, <2>5
      <4>2. (u < 0) = FALSE
        BY <2>3
      <4> QED BY <4>1, <4>2, Zenon
    <3>4. u < T
      BY <2>2, <3>1, <3>2, Zenon
    <3> QED BY <1>1, <1>2, <2>3, <3>1, <3>2, <3>3, <3>4, Zenon DEF low, top, m
  <2> QED BY <2>4, <2>5
<1> QED BY <1>6, <1>7

Letters == STRING \cup {"-", "%"}
Item == ({"text"} \X Letters) \cup ({"digit"} \X Nat) \cup ({"string", "char"} \X Word)

LEMMA OneItem ==
  ASSUME NEW S, NEW i \in S
  PROVE  <<i>> \in Seq(S)
OBVIOUS

LEMMA TextItem ==
  ASSUME NEW s \in Letters
  PROVE  <<<<"text", s>>>> \in Seq(Item)
<1>1. <<"text", s>> \in {"text"} \X Letters
  OBVIOUS
<1>2. <<"text", s>> \in Item
  BY <1>1, Zenon DEF Item
<1> QED BY <1>2, OneItem

LEMMA WordItem ==
  ASSUME NEW k \in {"string", "char"}, NEW w \in Word
  PROVE  <<<<k, w>>>> \in Seq(Item)
<1>1. <<k, w>> \in {"string", "char"} \X Word
  OBVIOUS
<1>2. <<k, w>> \in Item
  BY <1>1, Zenon DEF Item
<1> QED BY <1>2, OneItem

LEMMA SignItems == <<<<"text", "-">>>> \in Seq(Item) /\ <<>> \in Seq(Item)
<1>1. <<>> \in Seq(Item)
  OBVIOUS
<1>2. "-" \in Letters
  BY Zenon DEF Letters
<1> QED BY <1>1, <1>2, TextItem

LEMMA OneIsNotTwo == 1 # 2
OBVIOUS

LEMMA DigitItems ==
  ASSUME NEW d \in Seq(Nat)
  PROVE  [i \in DOMAIN d |-> <<"digit", d[i]>>] \in Seq(Item)
<1>1. DOMAIN d = 1 .. Len(d) /\ Len(d) \in Nat
  BY LenProperties
<1>2. ASSUME NEW i \in 1 .. Len(d) PROVE <<"digit", d[i]>> \in Item
  <2>1. d[i] \in Nat
    BY <1>2, ElementOfSeq
  <2> QED BY <2>1 DEF Item
<1> DEFINE I(i) == <<"digit", d[i]>>
<1>3. \A i \in 1 .. Len(d) : I(i) \in Item
  BY <1>2
<1> HIDE DEF I
<1>4. [i \in 1 .. Len(d) |-> I(i)] \in [1 .. Len(d) -> Item]
  BY <1>3
<1>5. [i \in 1 .. Len(d) |-> I(i)] \in Seq(Item)
  BY <1>1, <1>4
<1> QED BY <1>1, <1>5 DEF I

LEMMA RadixTypes ==
  ASSUME NEW c \in Number
  PROVE  Radix(c) \in Nat /\ Radix(c) >= 2
BY DEF Number, Radix

\* What printf_number puts out is what the standard says of the value.
LEMMA NumberShown ==
  ASSUME NEW c \in Number, NEW w \in Seq(Word), NEW len, NEW high,
         \/ Len(w) = 1 /\ len # "long long"
         \/ /\ Len(w) = 2 /\ len = "long long" /\ high = w[2]
            /\ Magnitude(Value(c, w)) < TwoToBits
  PROVE  /\ Shown(c, w) = PrintfNumber(c, len, w[1], high)
         /\ Shown(c, w) \in Seq(Item)
<1> DEFINE v == Value(c, w)
           top == w[Len(w)]
           n == Printed(c, w[1], top)
           r == Radix(c)
           sign == IF Minus(c, top) THEN <<<<"text", "-">>>> ELSE <<>>
           Digits2 == DigitsOf(n, r)
           Items == [i \in DOMAIN Digits2 |-> <<"digit", Digits2[i]>>]
<1>1. (v < 0) = Minus(c, top) /\ Magnitude(v) = n /\ n \in Word
  <2>1. Len(w) \in {1, 2}
    OBVIOUS
  <2>2. Len(w) = 2 => Magnitude(Value(c, w)) < TwoToBits
    <3> QED BY OneIsNotTwo, Zenon
  <2> QED BY <2>1, <2>2, ValuePrinted
<1>2. (IF len = "long long" THEN high ELSE w[1]) = top
  <2>1. CASE Len(w) = 1 /\ len # "long long"
    BY <2>1
  <2>2. CASE Len(w) = 2 /\ len = "long long" /\ high = w[2]
    BY <2>2
  <2> QED BY <2>1, <2>2
<1>3. r \in Nat /\ r >= 2
  BY RadixTypes
<1>4. Reverse(Digits10(n, r)) = Digits2 /\ Digits2 \in Seq(Nat)
  <2> HIDE DEF n, r
  <2> QED BY <1>1, <1>3, DigitsPrinted
<1>5. PrintfNumber(c, len, w[1], high) = sign \o Items
  <2>1. (Signed(c) /\ Negative(IF len = "long long" THEN high ELSE w[1])) = Minus(c, top)
    BY <1>2, Zenon DEF Minus
  <2>2. PrintfNumber(c, len, w[1], high)
          = (IF Minus(c, top) THEN <<<<"text", "-">>>> ELSE <<>>)
              \o [i \in DOMAIN Reverse(Digits10(n, r)) |->
                    <<"digit", Reverse(Digits10(n, r))[i]>>]
    BY <2>1, Zenon DEF PrintfNumber, Printed
  <2> HIDE DEF n, r, Digits2
  <2> QED BY <1>4, <2>2, Zenon
<1>6. Shown(c, w) = sign \o Items
  <2>1. Shown(c, w)
          = (IF v < 0 THEN <<<<"text", "-">>>> ELSE <<>>)
              \o [i \in DOMAIN DigitsOf(Magnitude(v), r) |->
                    <<"digit", DigitsOf(Magnitude(v), r)[i]>>]
    BY Zenon DEF Shown
  <2> HIDE DEF v, n, r
  <2> QED BY <1>1, <2>1, Zenon
<1>7. sign \in Seq(Item)
  BY SignItems, Zenon
<1>8. Items \in Seq(Item)
  <2> HIDE DEF Digits2
  <2> QED BY <1>4, DigitItems
<1> HIDE DEF sign, Items
<1>9. sign \o Items \in Seq(Item)
  BY <1>7, <1>8, ConcatProperties
<1> QED BY <1>5, <1>6, <1>9, Zenon

LEMMA WideShown ==
  ASSUME NEW c \in Number, NEW w \in Seq(Word), Len(w) = 2,
         Magnitude(Value(c, w)) < TwoToBits
  PROVE  Shown(c, w) = PrintfNumber(c, "long long", w[1], w[2])
BY NumberShown

-----------------------------------------------------------------------------
(***************************************************************************)
(* The reading of a format, from its front.                                *)
(***************************************************************************)
LEMMA TakenFirst ==
  ASSUME NEW S, NEW s \in Seq(S), NEW n \in Nat \ {0}, n <= Len(s)
  PROVE  /\ SubSeq(s, 1, n) \in Seq(S) /\ Len(SubSeq(s, 1, n)) = n
         /\ \A i \in 1 .. n : SubSeq(s, 1, n)[i] = s[i] /\ s[i] \in S
<1>1. Len(s) \in Nat
  BY LenProperties
<1>2. 1 \in 1 .. Len(s) /\ n \in 1 .. Len(s) /\ 1 <= n /\ n - 1 + 1 = n
  BY <1>1
<1>3. /\ SubSeq(s, 1, n) \in Seq(S) /\ Len(SubSeq(s, 1, n)) = n
      /\ \A i \in 1 .. n : SubSeq(s, 1, n)[i] = s[i]
  BY <1>1, <1>2, SubSeqProperties
<1>4. ASSUME NEW i \in 1 .. n PROVE s[i] \in S
  <2>1. i \in 1 .. Len(s)
    BY <1>1
  <2> QED BY <2>1, ElementOfSeq
<1> QED BY <1>3, <1>4

LEMMA BehindIs ==
  ASSUME NEW S, NEW s \in Seq(S), NEW n \in Nat, n <= Len(s)
  PROVE  /\ Behind(s, n) \in Seq(S) /\ Len(Behind(s, n)) = Len(s) - n
         /\ \A i \in 1 .. Len(s) - n : Behind(s, n)[i] = s[n + i]
<1> DEFINE b == SubSeq(s, n + 1, Len(s))
<1>1. Len(s) \in Nat
  BY LenProperties
<1>2. CASE n = Len(s)
  <2>1. b = <<>>
    BY <1>1, <1>2
  <2>2. <<>> \in Seq(S) /\ Len(<<>>) = 0
    OBVIOUS
  <2>3. Len(s) - n = 0 /\ 1 .. Len(s) - n = {}
    BY <1>1, <1>2
  <2> QED BY <2>1, <2>2, <2>3, Zenon DEF Behind
<1>3. CASE n # Len(s)
  <2>1. n + 1 \in 1 .. Len(s) /\ Len(s) \in 1 .. Len(s) /\ n + 1 <= Len(s)
    BY <1>1, <1>3
  <2>2. /\ b \in Seq(S) /\ Len(b) = Len(s) - (n + 1) + 1
        /\ \A i \in 1 .. Len(s) - (n + 1) + 1 : b[i] = s[n + 1 + i - 1]
    <3>1. b \in Seq(S) /\ Len(b) = Len(s) - (n + 1) + 1
      BY <1>1, <2>1, SubSeqProperties
    <3>2. \A i \in 1 .. Len(s) - (n + 1) + 1 : b[i] = s[n + 1 + i - 1]
      BY <1>1, <2>1, SubSeqProperties
    <3> QED BY <3>1, <3>2
  <2>3. Len(s) - (n + 1) + 1 = Len(s) - n
    BY <1>1
  <2>4. \A i \in 1 .. Len(s) - n : n + 1 + i - 1 = n + i
    BY <1>1
  <2> HIDE DEF b
  <2>5. \A i \in 1 .. Len(s) - n : b[i] = s[n + i]
    BY <2>2, <2>3, <2>4, Zenon
  <2>6. b = Behind(s, n)
    BY Zenon DEF b, Behind
  <2> QED BY <2>2, <2>3, <2>5, <2>6, Zenon
<1> QED BY <1>2, <1>3

LEMMA BehindNothing ==
  ASSUME NEW S, NEW s \in Seq(S)
  PROVE  Behind(s, 0) = s
<1>1. Len(s) \in Nat /\ 0 <= Len(s)
  BY LenProperties
<1>2. /\ Behind(s, 0) \in Seq(S) /\ Len(Behind(s, 0)) = Len(s) - 0
      /\ \A i \in 1 .. Len(s) - 0 : Behind(s, 0)[i] = s[0 + i]
  BY <1>1, BehindIs
<1>3. Len(Behind(s, 0)) = Len(s) /\ \A i \in 1 .. Len(s) : Behind(s, 0)[i] = s[i]
  BY <1>1, <1>2
<1> QED BY <1>2, <1>3, SeqEqual

\* Behind m characters, and then n more.
LEMMA BehindMore ==
  ASSUME NEW S, NEW s \in Seq(S), NEW m \in Nat, NEW n \in Nat, m + n <= Len(s)
  PROVE  Behind(Behind(s, m), n) = Behind(s, m + n)
<1> DEFINE b == Behind(s, m)
           c == Behind(b, n)
           d == Behind(s, m + n)
<1>1. Len(s) \in Nat /\ m <= Len(s) /\ m + n \in Nat
  BY LenProperties
<1>2. b \in Seq(S) /\ Len(b) = Len(s) - m /\ \A i \in 1 .. Len(s) - m : b[i] = s[m + i]
  BY <1>1, BehindIs
<1>3. /\ d \in Seq(S) /\ Len(d) = Len(s) - (m + n)
      /\ \A i \in 1 .. Len(s) - (m + n) : d[i] = s[(m + n) + i]
  BY <1>1, BehindIs
<1> HIDE DEF b, d
<1>4. n <= Len(b) /\ Len(b) - n = Len(s) - (m + n)
  BY <1>1, <1>2
<1>5. /\ c \in Seq(S) /\ Len(c) = Len(b) - n
      /\ \A i \in 1 .. Len(b) - n : c[i] = b[n + i]
  BY <1>2, <1>4, BehindIs
<1> HIDE DEF c
<1>6. ASSUME NEW i \in 1 .. Len(s) - (m + n) PROVE c[i] = d[i]
  <2>1. n + i \in 1 .. Len(s) - m /\ m + (n + i) = (m + n) + i
    BY <1>1
  <2>2. c[i] = b[n + i] /\ b[n + i] = s[m + (n + i)] /\ d[i] = s[(m + n) + i]
    BY <1>2, <1>3, <1>4, <1>5, <2>1
  <2> QED BY <2>1, <2>2
<1>7. Len(c) = Len(d) /\ \A i \in 1 .. Len(c) : c[i] = d[i]
  BY <1>3, <1>4, <1>5, <1>6
<1>8. c = d
  BY <1>3, <1>5, <1>7, SeqEqual
<1> QED BY <1>8 DEF c, b, d

LEMMA DirectiveFits ==
  ASSUME NEW f \in Seq(STRING), Len(f) > 1
  PROVE  DirectiveLength(f) \in 2 .. 4 /\ DirectiveLength(f) <= Len(f)
<1> DEFINE a == Len(f) >= 4 /\ f[2] \in Prefix /\ f[3] = f[2]
           b == Len(f) >= 3 /\ f[2] \in Prefix
<1>1. DirectiveLength(f) = IF a THEN 4 ELSE IF b THEN 3 ELSE 2
  BY Zenon DEF DirectiveLength
<1>2. (a => Len(f) >= 4) /\ (b => Len(f) >= 3)
  BY Zenon
<1> HIDE DEF a, b
<1>3. Len(f) \in Nat
  BY LenProperties
<1> QED BY <1>1, <1>2, <1>3

\* What stands in front is part of the format, and its words are there.
LEMMA FrontFits ==
  ASSUME NEW f \in Seq(STRING), f # <<>>, NEW w \in Seq(Word), Fitting(f, w)
  PROVE  /\ FrontLength(f) \in 1 .. 4 /\ FrontLength(f) <= Len(f)
         /\ Uses(f) \in 0 .. 2 /\ Uses(f) <= Len(w)
<1>1. Len(f) \in Nat /\ Len(f) >= 1 /\ Len(w) \in Nat
  BY LenProperties, EmptySeq
<1>2. CASE IsDirective(f)
  <2>1. Len(f) > 1
    BY <1>2, Zenon DEF IsDirective
  <2>2. FrontLength(f) = DirectiveLength(f)
    BY <1>2, Zenon DEF FrontLength
  <2>3. Uses(f) <= Len(w)
    BY <1>2, Zenon DEF Fitting
  <2>4. Uses(f) = 0 \/ Uses(f) = 1 \/ Uses(f) = 2
    BY Zenon DEF Uses
  <2> QED BY <1>1, <2>1, <2>2, <2>3, <2>4, DirectiveFits
<1>3. CASE ~IsDirective(f)
  <2>1. FrontLength(f) = 1 /\ Uses(f) = 0
    BY <1>3, Zenon DEF FrontLength, Uses
  <2> QED BY <1>1, <2>1
<1> QED BY <1>2, <1>3

LEMMA FrontTypes ==
  ASSUME NEW f \in Seq(STRING), f # <<>>, NEW w \in Seq(Word), Fitting(f, w)
  PROVE  FrontText(f, w) \in Seq(Item)
<1> DEFINE c == Converted(f)
           u == Uses(f)
           t == SubSeq(w, 1, u)
<1>1. u \in 0 .. 2 /\ u <= Len(w)
  BY FrontFits
<1> HIDE DEF u
<1>2. ASSUME u # 0
      PROVE  t \in Seq(Word) /\ Len(t) = u /\ \A i \in 1 .. u : t[i] = w[i] /\ w[i] \in Word
  <2>1. u \in Nat \ {0}
    BY <1>1, <1>2
  <2> QED BY <1>1, <2>1, TakenFirst
<1>3. CASE ~IsDirective(f)
  <2>1. CASE f[1] = "%"
    BY <1>3, <2>1, SignItems, Zenon DEF FrontText
  <2>2. CASE f[1] # "%"
    <3>1. f[1] \in STRING
      <4>1. Len(f) >= 1 /\ Len(f) \in Nat
        BY LenProperties, EmptySeq
      <4>2. 1 \in 1 .. Len(f)
        BY <4>1
      <4> QED BY <4>2, ElementOfSeq
    <3>2. f[1] \in Letters
      BY <3>1, Zenon DEF Letters
    <3> QED BY <1>3, <2>2, <3>2, TextItem, Zenon DEF FrontText
  <2> QED BY <2>1, <2>2
<1>4. CASE IsDirective(f)
  <2>1. FrontText(f, w) = Shown(c, t)
    BY <1>4, Zenon DEF FrontText, u
  <2>2. CASE c \in Number
    <3>1. u = IF Wide(f) THEN 2 ELSE 1
      BY <1>4, <2>2, Zenon DEF Uses, u
    <3>2. CASE Wide(f)
      <4>1. u = 2
        BY <3>1, <3>2, Zenon
      <4>2. Magnitude(Value(c, t)) < TwoToBits
        BY <1>4, <2>2, <3>2, <4>1, Zenon DEF Fitting
      <4>3. t \in Seq(Word) /\ Len(t) = 2
        BY <1>2, <4>1
      <4>4. Shown(c, t) \in Seq(Item)
        <5> HIDE DEF t, c
        <5> QED BY <2>2, <4>2, <4>3, NumberShown
      <4> QED BY <2>1, <4>4, Zenon
    <3>3. CASE ~Wide(f)
      <4>1. u = 1
        BY <3>1, <3>3, Zenon
      <4>2. t \in Seq(Word) /\ Len(t) = 1
        BY <1>2, <4>1
      <4>3. "long" # "long long"
        OBVIOUS
      <4>4. Shown(c, t) \in Seq(Item)
        <5> HIDE DEF t, c
        <5> QED BY <2>2, <4>2, <4>3, NumberShown
      <4> QED BY <2>1, <4>4, Zenon
    <3> QED BY <3>2, <3>3
  <2>3. CASE c \notin Number /\ c \in {"s", "c"}
    <3>1. u = 1
      BY <1>4, <2>3, Zenon DEF Uses, u
    <3>2. t[1] = w[1] /\ w[1] \in Word
      BY <1>2, <3>1
    <3>3. <<<<"string", t[1]>>>> \in Seq(Item) /\ <<<<"char", t[1]>>>> \in Seq(Item)
      <4>1. "string" \in {"string", "char"} /\ "char" \in {"string", "char"}
        OBVIOUS
      <4>2. t[1] \in Word
        BY <3>2, Zenon
      <4> HIDE DEF t
      <4> QED BY <4>1, <4>2, WordItem
    <3>4. Shown(c, t) = <<<<"string", t[1]>>>> \/ Shown(c, t) = <<<<"char", t[1]>>>>
      <4> HIDE DEF t, c
      <4>1. CASE c = "s"
        BY <2>3, <4>1 DEF Shown
      <4>2. CASE c = "c"
        BY <2>3, <4>2 DEF Shown
      <4> QED BY <2>3, <4>1, <4>2
    <3> QED BY <2>1, <3>3, <3>4, Zenon
  <2>4. CASE c \notin Number /\ c \notin {"s", "c"}
    <3>1. Shown(c, t) = <<<<"text", "%">>>> \/ Shown(c, t) = <<>>
      <4> HIDE DEF t, c
      <4>1. CASE c = "%"
        BY <2>4, <4>1 DEF Shown
      <4>2. CASE c # "%"
        BY <2>4, <4>2 DEF Shown
      <4> QED BY <4>1, <4>2
    <3>2. "%" \in Letters
      BY Zenon DEF Letters
    <3>3. <<<<"text", "%">>>> \in Seq(Item)
      BY <3>2, TextItem
    <3> QED BY <2>1, <3>1, <3>3, SignItems, Zenon
  <2> QED BY <2>2, <2>3, <2>4, Zenon
<1> QED BY <1>3, <1>4

Readings == Seq(STRING) \X Seq(Word)
Answer == [text : Seq(Item), exact : BOOLEAN]
AtTheEnd == [text |-> <<>>, exact |-> TRUE]
Elsewhere == [text |-> <<>>, exact |-> FALSE]
RestOf(x) == <<Behind(x[1], FrontLength(x[1])), Behind(x[2], Uses(x[1]))>>
WithFront(x, rest) == [rest EXCEPT !.text = FrontText(x[1], x[2]) \o @]
ReadingRow(x, f) ==
  IF x[1] = <<>> THEN AtTheEnd
  ELSE IF ~Fitting(x[1], x[2]) THEN Elsewhere
  ELSE WithFront(x, f[RestOf(x)])
ReadFirst(x) == x[1] # <<>> /\ Fitting(x[1], x[2])

LEMMA RestIsShorter ==
  ASSUME NEW x \in Readings, ReadFirst(x)
  PROVE  RestOf(x) \in Readings /\ Len(RestOf(x)[1]) < Len(x[1])
<1> DEFINE f == x[1]
           w == x[2]
           n == FrontLength(f)
           u == Uses(f)
<1>1. f \in Seq(STRING) /\ w \in Seq(Word)
  BY DEF Readings
<1>2. f # <<>> /\ Fitting(f, w)
  BY DEF ReadFirst
<1> HIDE DEF f, w
<1>3. n \in 1 .. 4 /\ n <= Len(f) /\ u \in 0 .. 2 /\ u <= Len(w)
  BY <1>1, <1>2, FrontFits
<1>4. Behind(f, n) \in Seq(STRING) /\ Len(Behind(f, n)) = Len(f) - n
  <2> HIDE DEF n
  <2> QED BY <1>1, <1>3, BehindIs
<1>5. Behind(w, u) \in Seq(Word)
  <2> HIDE DEF u
  <2> QED BY <1>1, <1>3, BehindIs
<1>6. RestOf(x) = <<Behind(f, n), Behind(w, u)>>
  BY Zenon DEF RestOf, f, w
<1>7. RestOf(x)[1] = Behind(f, n)
  BY <1>6
<1>8. RestOf(x) \in Readings
  BY <1>4, <1>5, <1>6 DEF Readings
<1>9. Len(f) \in Nat
  BY <1>1, LenProperties
<1> HIDE DEF n
<1>10. Len(Behind(f, n)) < Len(f)
  BY <1>3, <1>4, <1>9
<1> QED BY <1>7, <1>8, <1>10, Zenon DEF f

LEMMA FrontAdded ==
  ASSUME NEW x \in Readings, ReadFirst(x), NEW r \in Answer
  PROVE  /\ WithFront(x, r) \in Answer
         /\ WithFront(x, r).text = FrontText(x[1], x[2]) \o r.text
         /\ WithFront(x, r).exact = r.exact
<1> DEFINE t == FrontText(x[1], x[2])
<1>1. t \in Seq(Item)
  <2>1. x[1] \in Seq(STRING) /\ x[2] \in Seq(Word)
    BY DEF Readings
  <2> QED BY <2>1, FrontTypes DEF ReadFirst
<1>2. WithFront(x, r) = [r EXCEPT !.text = t \o @]
  BY Zenon DEF WithFront
<1> HIDE DEF t
<1>3. r.text \in Seq(Item) /\ r.exact \in BOOLEAN /\ r = [text |-> r.text, exact |-> r.exact]
  BY DEF Answer
<1>4. [r EXCEPT !.text = t \o @] = [text |-> t \o r.text, exact |-> r.exact]
  <2> DEFINE a == r.text
             b == r.exact
             u == t \o a
  <2>1. r = [text |-> a, exact |-> b]
    BY <1>3
  <2>2. [r EXCEPT !.text = t \o @] = [r EXCEPT !.text = u]
    OBVIOUS
  <2> HIDE DEF a, b, u
  <2>3. [r EXCEPT !.text = u] = [text |-> u, exact |-> b]
    BY <2>1
  <2> QED BY <2>2, <2>3, Zenon DEF a, b, u
<1>5. t \o r.text \in Seq(Item)
  BY <1>1, <1>3, ConcatProperties
<1>6. WithFront(x, r) = [text |-> t \o r.text, exact |-> r.exact]
  BY <1>2, <1>4, Zenon
<1>7. WithFront(x, r) \in Answer
  BY <1>3, <1>5, <1>6 DEF Answer
<1>8. WithFront(x, r).text = t \o r.text /\ WithFront(x, r).exact = r.exact
  BY <1>6
<1> QED BY <1>7, <1>8 DEF t

SizeOf(x) == Len(x[1])
NoReading(x) == IF x[1] = <<>> THEN AtTheEnd ELSE Elsewhere

LEMMA ReferenceIs ==
  \A x \in Readings : Reference[x] \in Answer /\ Reference[x] = ReadingRow(x, Reference)
<1> DEFINE stops == {x \in Readings : ~ReadFirst(x)}
           size == [x \in Readings |-> SizeOf(x)]
           stop == [x \in Readings |-> NoReading(x)]
           prev == [x \in Readings |-> RestOf(x)]
           step == [v \in Readings \X Answer |-> WithFront(v[1], v[2])]
           R == [domain |-> Readings, size |-> size, stops |-> stops, stop |-> stop,
                 prev |-> prev, step |-> step]
<1>1. /\ \A x \in Readings : /\ x \in stops <=> ~ReadFirst(x)
                             /\ size[x] = SizeOf(x)
                             /\ stop[x] = NoReading(x)
                             /\ prev[x] = RestOf(x)
      /\ \A x \in Readings, r \in Answer : step[<<x, r>>] = WithFront(x, r)
  <2>1. \A x \in Readings : x \in stops <=> ~ReadFirst(x)
    OBVIOUS
  <2>2. \A x \in Readings : size[x] = SizeOf(x)
    OBVIOUS
  <2>3. \A x \in Readings : stop[x] = NoReading(x)
    OBVIOUS
  <2>4. \A x \in Readings : prev[x] = RestOf(x)
    OBVIOUS
  <2>5. \A x \in Readings, r \in Answer : step[<<x, r>>] = WithFront(x, r)
    OBVIOUS
  <2> QED BY <2>1, <2>2, <2>3, <2>4, <2>5, Zenon
<1> HIDE DEF stops, size, stop, prev, step
<1>2. /\ R.domain = Readings /\ R.stops = stops /\ R.size = size /\ R.stop = stop
      /\ R.prev = prev /\ R.step = step
  OBVIOUS
<1> HIDE DEF R
<1>3. Recursive(R)
  <2>1. ASSUME NEW x \in Readings PROVE R.size[x] \in Nat
    <3>1. x[1] \in Seq(STRING)
      BY DEF Readings
    <3>2. SizeOf(x) \in Nat
      BY <3>1, LenProperties DEF SizeOf
    <3> QED BY <1>1, <1>2, <3>2, Zenon
  <2>2. ASSUME NEW x \in Readings, x \notin R.stops
        PROVE  R.prev[x] \in Readings /\ R.size[R.prev[x]] < R.size[x]
    <3>1. ReadFirst(x)
      BY <1>1, <1>2, <2>2, Zenon
    <3>2. RestOf(x) \in Readings /\ SizeOf(RestOf(x)) < SizeOf(x)
      BY <3>1, RestIsShorter, Zenon DEF SizeOf
    <3>3. R.prev[x] = RestOf(x) /\ R.size[x] = SizeOf(x)
      BY <1>1, <1>2, Zenon
    <3>4. R.size[RestOf(x)] = SizeOf(RestOf(x))
      BY <1>1, <1>2, <3>2, Zenon
    <3> QED BY <3>2, <3>3, <3>4, Zenon
  <2> QED BY <1>2, <2>1, <2>2, Zenon DEF Recursive
<1>4. PICK f : f = [x \in R.domain |-> RecRow(R, x, f)]
  BY <1>3, RecursionExists
<1>5. \A x \in R.domain : f[x] \in Answer
  <2>1. ASSUME NEW x PROVE NoReading(x) \in Answer
    <3>1. AtTheEnd \in Answer /\ Elsewhere \in Answer
      BY DEF Answer, AtTheEnd, Elsewhere
    <3> QED BY <3>1, Zenon DEF NoReading
  <2>2. \A x \in R.domain : x \in R.stops => R.stop[x] \in Answer
    BY <1>1, <1>2, <2>1, Zenon
  <2>3. ASSUME NEW x \in R.domain, NEW r \in Answer, x \notin R.stops
        PROVE  R.step[<<x, r>>] \in Answer
    <3>1. x \in Readings /\ ReadFirst(x)
      BY <1>1, <1>2, <2>3, Zenon
    <3>2. WithFront(x, r) \in Answer
      BY <3>1, FrontAdded
    <3> QED BY <1>1, <1>2, <3>1, <3>2, Zenon
  <2> QED BY <1>3, <1>4, <2>2, <2>3, RecursionTypes
<1>6. ASSUME NEW x \in Readings PROVE f[x] = ReadingRow(x, f)
  <2>1. f[x] = RecRow(R, x, f)
    BY <1>2, <1>4
  <2>2. CASE ~ReadFirst(x)
    <3>1. f[x] = NoReading(x)
      BY <1>1, <1>2, <2>1, <2>2, Zenon DEF RecRow
    <3> QED BY <2>2, <3>1, Zenon DEF ReadingRow, ReadFirst, NoReading
  <2>3. CASE ReadFirst(x)
    <3>1. x \notin R.stops /\ R.prev[x] = RestOf(x)
      BY <1>1, <1>2, <2>3, Zenon
    <3>2. f[RestOf(x)] \in Answer
      BY <1>2, <1>5, <2>3, RestIsShorter, Zenon
    <3>3. f[x] = R.step[<<x, f[RestOf(x)]>>]
      BY <2>1, <3>1, Zenon DEF RecRow
    <3>4. f[x] = WithFront(x, f[RestOf(x)])
      BY <1>1, <1>2, <3>2, <3>3, Zenon
    <3> QED BY <2>3, <3>4, Zenon DEF ReadingRow, ReadFirst
  <2> QED BY <2>2, <2>3
<1>7. f = [x \in Readings |-> f[x]]
  BY <1>2, <1>4
<1>8. f = [x \in Readings |-> ReadingRow(x, f)]
  BY <1>6, <1>7
<1>9. Reference = CHOOSE g : g = [x \in Readings |-> ReadingRow(x, g)]
  BY Zenon DEF Reference, Readings, ReadingRow, WithFront, RestOf, AtTheEnd, Elsewhere
<1> DEFINE h == Reference
<1>10. h = [x \in Readings |-> ReadingRow(x, h)]
  BY <1>8, <1>9, Zenon
<1> HIDE DEF h
<1>11. ASSUME NEW x \in Readings PROVE h[x] = ReadingRow(x, h)
  <2> DEFINE Row2(y) == ReadingRow(y, h)
  <2>1. h = [y \in Readings |-> Row2(y)]
    BY <1>10
  <2> HIDE DEF Row2
  <2>2. h[x] = Row2(x)
    BY <2>1
  <2> QED BY <2>2 DEF Row2
<1>12. \A x \in R.domain : h[x] = f[x]
  <2>1. ASSUME NEW x \in R.domain, x \notin R.stops => h[R.prev[x]] = f[R.prev[x]]
        PROVE  h[x] = f[x]
    <3>1. x \in Readings
      BY <1>2, Zenon
    <3>2. h[x] = ReadingRow(x, h) /\ f[x] = ReadingRow(x, f)
      BY <1>6, <1>11, <3>1, Zenon
    <3>3. CASE ~ReadFirst(x)
      BY <3>2, <3>3, Zenon DEF ReadingRow, ReadFirst
    <3>4. CASE ReadFirst(x)
      <4>1. h[RestOf(x)] = f[RestOf(x)]
        BY <1>1, <1>2, <2>1, <3>1, <3>4, Zenon
      <4> QED BY <3>2, <3>4, <4>1, Zenon DEF ReadingRow, ReadFirst
    <3> QED BY <3>3, <3>4
  <2> QED BY <1>3, <2>1, OnlyOne
<1>13. ASSUME NEW x \in Readings PROVE h[x] \in Answer /\ h[x] = ReadingRow(x, h)
  BY <1>2, <1>5, <1>11, <1>12, Zenon
<1> QED BY <1>13 DEF h

\* What the reading says of a front, and of no front.
LEMMA ReadFront ==
  ASSUME NEW f \in Seq(STRING), NEW w \in Seq(Word), f # <<>>, Reference[<<f, w>>].exact
  PROVE  LET rest == <<Behind(f, FrontLength(f)), Behind(w, Uses(f))>>
         IN  /\ Fitting(f, w) /\ rest \in Readings
             /\ Reference[rest] \in Answer /\ Reference[rest].exact
             /\ Reference[<<f, w>>].text = FrontText(f, w) \o Reference[rest].text
<1> DEFINE x == <<f, w>>
           rest == <<Behind(f, FrontLength(f)), Behind(w, Uses(f))>>
<1>1. x \in Readings /\ x[1] = f /\ x[2] = w
  BY DEF Readings
<1>2. RestOf(x) = rest
  BY <1>1, Zenon DEF RestOf
<1>3. Reference[x].exact
  OBVIOUS
<1> HIDE DEF x, rest
<1>4. Reference[x] = ReadingRow(x, Reference)
  BY <1>1, ReferenceIs
<1>5. Fitting(f, w)
  <2> SUFFICES ASSUME ~Fitting(f, w) PROVE FALSE
    OBVIOUS
  <2>1. Reference[x] = Elsewhere
    BY <1>1, <1>4, Zenon DEF ReadingRow
  <2>2. Elsewhere.exact = FALSE
    BY DEF Elsewhere
  <2> QED BY <1>3, <2>1, <2>2, Zenon
<1>6. ReadFirst(x)
  BY <1>1, <1>5, Zenon DEF ReadFirst
<1>7. Reference[x] = WithFront(x, Reference[rest])
  BY <1>1, <1>2, <1>4, <1>5, Zenon DEF ReadingRow
<1>8. rest \in Readings
  BY <1>1, <1>2, <1>6, RestIsShorter
<1>9. Reference[rest] \in Answer
  BY <1>8, ReferenceIs
<1>10. /\ WithFront(x, Reference[rest]).text = FrontText(x[1], x[2]) \o Reference[rest].text
       /\ WithFront(x, Reference[rest]).exact = Reference[rest].exact
  BY <1>1, <1>6, <1>9, FrontAdded
<1>11. Reference[rest].exact /\ Reference[x].text = FrontText(f, w) \o Reference[rest].text
  BY <1>1, <1>3, <1>7, <1>10, Zenon
<1> QED BY <1>5, <1>8, <1>9, <1>11, Zenon DEF x, rest

LEMMA ReadNothing ==
  ASSUME NEW w \in Seq(Word)
  PROVE  Reference[<<<<>>, w>>].text = <<>>
<1> DEFINE x == <<<<>>, w>>
<1>1. <<>> \in Seq(STRING)
  OBVIOUS
<1>2. x \in Readings /\ x[1] = <<>>
  BY <1>1 DEF Readings
<1> HIDE DEF x
<1>3. Reference[x] = ReadingRow(x, Reference)
  BY <1>2, ReferenceIs
<1>4. Reference[x] = AtTheEnd
  BY <1>2, <1>3, Zenon DEF ReadingRow
<1>5. AtTheEnd.text = <<>>
  BY DEF AtTheEnd
<1> QED BY <1>4, <1>5, Zenon DEF x

-----------------------------------------------------------------------------
(***************************************************************************)
(* printf reads what the standard reads: g is what is left from the last   *)
(* front on, m characters of it are behind printf, and w are its words.    *)
(***************************************************************************)
Inside(g, m, st, len) ==
  \/ m = 0 /\ st = "start" /\ len = "start"
  \/ m = 1 /\ g[1] = "%" /\ st = "length" /\ len = "start"
  \/ m = 2 /\ g[1] = "%" /\ g[2] = "h" /\ st = "short" /\ len = "short"
  \/ m = 2 /\ g[1] = "%" /\ g[2] = "l" /\ st = "long" /\ len = "long"
  \/ m = 3 /\ g[1] = "%" /\ g[2] = "h" /\ g[3] = g[2] /\ st = "spec" /\ len = "short short"
  \/ m = 3 /\ g[1] = "%" /\ g[2] = "l" /\ g[3] = g[2] /\ st = "spec" /\ len = "long long"
\* The character c ends the directive.
Ends(c, st) ==
  \/ st = "length" /\ c \notin {"h", "l"}
  \/ st = "short" /\ c # "h"
  \/ st = "long" /\ c # "l"
  \/ st = "spec"
NoMore(g) == \A i \in 1 .. Len(g) : g[i] # "%"
AtWord(w, s, a) == a - 1 \in 0 .. Len(s) /\ w = Behind(s, a - 1)
SoFar(g, w, m) ==
  /\ m <= Len(g) /\ fmt = Behind(g, m) /\ Inside(g, m, fmtState, length)
  /\ Reference[<<g, w>>].exact /\ out \in Seq(Item)
  /\ Reference[<<call, stack>>].text = out \o Reference[<<g, w>>].text
  /\ AtWord(w, stack, argp) \/ (m = 0 /\ NoMore(g))
PrintfReads ==
  busy /\ Reference[<<call, stack>>].exact =>
    \E g \in Seq(STRING), w \in Seq(Word), m \in 0 .. 3 : SoFar(g, w, m)

LEMMA Onward ==
  ASSUME NEW g \in Seq(STRING), NEW m \in Nat, m < Len(g)
  PROVE  /\ Behind(g, m) # <<>> /\ Head(Behind(g, m)) = g[m + 1]
         /\ Tail(Behind(g, m)) = Behind(g, m + 1)
<1>1. Len(g) \in Nat
  BY LenProperties
<1>2. m + 1 \in 1 .. Len(g) /\ Len(g) \in m + 1 .. Len(g)
  BY <1>1
<1>3. /\ Head(SubSeq(g, m + 1, Len(g))) = g[m + 1]
      /\ Tail(SubSeq(g, m + 1, Len(g))) = SubSeq(g, (m + 1) + 1, Len(g))
  BY <1>2, HeadTailOfSubSeq
<1>4. Len(Behind(g, m)) = Len(g) - m /\ Len(g) - m # 0
  BY <1>1, BehindIs
<1>5. Behind(g, m) # <<>>
  BY <1>4, EmptySeq
<1> QED BY <1>3, <1>5, Zenon DEF Behind

LEMMA AllRead ==
  ASSUME NEW g \in Seq(STRING), NEW m \in Nat, m <= Len(g)
  PROVE  (Behind(g, m) = <<>>) <=> m = Len(g)
<1>1. Len(g) \in Nat
  BY LenProperties
<1>2. Behind(g, m) \in Seq(STRING) /\ Len(Behind(g, m)) = Len(g) - m
  BY BehindIs
<1>3. Behind(g, m) = <<>> => Len(Behind(g, m)) = 0
  BY EmptySeq
<1>4. Len(Behind(g, m)) = 0 => Behind(g, m) = <<>>
  BY <1>2, EmptySeq
<1> QED BY <1>1, <1>2, <1>3, <1>4

LEMMA FrontNot ==
  ASSUME NEW g, g[1] # "%"
  PROVE  /\ ~IsDirective(g) /\ FrontLength(g) = 1 /\ Uses(g) = 0
         /\ \A w : FrontText(g, w) = <<<<"text", g[1]>>>>
<1>1. ~IsDirective(g)
  BY Zenon DEF IsDirective
<1> QED BY <1>1, Zenon DEF FrontLength, Uses, FrontText

\* A directive ends where the standard says that it ends.
LEMMA EndsAlike ==
  ASSUME NEW g \in Seq(STRING), NEW m \in 0 .. 3, m < Len(g), NEW st, NEW len,
         Inside(g, m, st, len), Ends(g[m + 1], st)
  PROVE  IsDirective(g) /\ DirectiveLength(g) = m + 1
<1>1. Len(g) \in Nat
  BY LenProperties
<1>2. m # 0
  <2> SUFFICES ASSUME m = 0 PROVE FALSE
    OBVIOUS
  <2>1. 0 # 1 /\ 0 # 2 /\ 0 # 3
    OBVIOUS
  <2>2. st = "start"
    BY <2>1, Zenon DEF Inside
  <2>3. st # "length" /\ st # "short" /\ st # "long" /\ st # "spec"
    BY <2>2
  <2> QED BY <2>3, Zenon DEF Ends
<1>3. g[1] = "%"
  BY <1>2, Zenon DEF Inside
<1>4. IsDirective(g)
  <2>1. Len(g) > 1
    BY <1>1, <1>2
  <2> QED BY <1>3, <2>1, Zenon DEF IsDirective
<1> DEFINE a == Len(g) >= 4 /\ g[2] \in Prefix /\ g[3] = g[2]
           b == Len(g) >= 3 /\ g[2] \in Prefix
<1>5. DirectiveLength(g) = IF a THEN 4 ELSE IF b THEN 3 ELSE 2
  BY Zenon DEF DirectiveLength
<1>6. 1 # 2 /\ 1 # 3 /\ 2 # 3 /\ 1 + 1 = 2 /\ 2 + 1 = 3 /\ 3 + 1 = 4
  OBVIOUS
<1>7. CASE m = 1
  <2>1. st = "length"
    BY <1>6, <1>7, Zenon DEF Inside
  <2>2. st # "short" /\ st # "long" /\ st # "spec"
    BY <2>1
  <2>3. g[2] \notin Prefix
    BY <1>6, <1>7, <2>2, Zenon DEF Ends, Prefix
  <2> QED BY <1>4, <1>5, <1>6, <1>7, <2>3, Zenon
<1>8. CASE m = 2
  <2>1. Len(g) >= 3
    BY <1>1, <1>8
  <2>2. \/ g[2] = "h" /\ st = "short"
        \/ g[2] = "l" /\ st = "long"
    BY <1>6, <1>8, Zenon DEF Inside
  <2>3. g[2] \in Prefix
    BY <2>2, Zenon DEF Prefix
  <2>4. g[3] # g[2]
    <3>1. CASE g[2] = "h" /\ st = "short"
      <4>1. st # "length" /\ st # "long" /\ st # "spec"
        BY <3>1
      <4> QED BY <1>6, <1>8, <3>1, <4>1, Zenon DEF Ends
    <3>2. CASE g[2] = "l" /\ st = "long"
      <4>1. st # "length" /\ st # "short" /\ st # "spec"
        BY <3>2
      <4> QED BY <1>6, <1>8, <3>2, <4>1, Zenon DEF Ends
    <3> QED BY <2>2, <3>1, <3>2
  <2> QED BY <1>4, <1>5, <1>6, <1>8, <2>1, <2>3, <2>4, Zenon
<1>9. CASE m = 3
  <2>1. Len(g) >= 4
    BY <1>1, <1>9
  <2>2. g[3] = g[2] /\ (g[2] = "h" \/ g[2] = "l")
    <3>1. 3 # 0 /\ 3 # 1 /\ 3 # 2
      OBVIOUS
    <3> QED BY <1>9, <3>1, Zenon DEF Inside
  <2>3. g[2] \in Prefix
    BY <2>2, Zenon DEF Prefix
  <2> QED BY <1>4, <1>5, <1>6, <1>9, <2>1, <2>2, <2>3, Zenon
<1> QED BY <1>2, <1>7, <1>8, <1>9

\* A format that ends inside a directive.
LEMMA EndsInside ==
  ASSUME NEW g \in Seq(STRING), NEW w \in Seq(Word), NEW m \in 0 .. 3, m = Len(g),
         NEW st, NEW len, Inside(g, m, st, len), Reference[<<g, w>>].exact
  PROVE  Reference[<<g, w>>].text = <<>>
<1>1. CASE m = 0
  <2>1. g = <<>>
    BY <1>1, EmptySeq
  <2> QED BY <2>1, ReadNothing
<1>2. CASE m = 1
  <2>1. g[1] = "%" /\ Len(g) = 1 /\ g # <<>>
    <3>1. 1 # 0 /\ 1 # 2 /\ 1 # 3
      OBVIOUS
    <3>2. g[1] = "%"
      BY <1>2, <3>1, Zenon DEF Inside
    <3>3. Len(g) # 0
      BY <1>2
    <3> QED BY <1>2, <3>2, <3>3, EmptySeq
  <2>2. ~IsDirective(g)
    <3>1. ~(1 > 1)
      OBVIOUS
    <3> QED BY <2>1, <3>1, Zenon DEF IsDirective
  <2>3. FrontLength(g) = 1 /\ FrontText(g, w) = <<>>
    BY <2>1, <2>2, Zenon DEF FrontLength, FrontText
  <2>4. Behind(g, 1) = <<>>
    <3>1. 1 \in Nat /\ 1 <= Len(g) /\ 1 = Len(g)
      BY <1>2
    <3> QED BY <3>1, AllRead
  <2>5. LET rest == <<Behind(g, FrontLength(g)), Behind(w, Uses(g))>>
        IN  /\ rest \in Readings
            /\ Reference[<<g, w>>].text = FrontText(g, w) \o Reference[rest].text
    BY <2>1, ReadFront
  <2> DEFINE v == Behind(w, Uses(g))
  <2>6. v \in Seq(Word)
    BY <2>5 DEF Readings
  <2>7. Reference[<<g, w>>].text = <<>> \o Reference[<<<<>>, v>>].text
    BY <2>3, <2>4, <2>5, Zenon
  <2> HIDE DEF v
  <2>8. Reference[<<<<>>, v>>].text = <<>>
    BY <2>6, ReadNothing
  <2>9. <<>> \o <<>> = <<>>
    OBVIOUS
  <2> QED BY <2>7, <2>8, <2>9, Zenon
<1>3. CASE m = 2 \/ m = 3
  <2>1. 2 # 0 /\ 2 # 1 /\ 3 # 0 /\ 3 # 1 /\ 2 # 3
    OBVIOUS
  <2>2. g[1] = "%" /\ g[2] \in Prefix /\ (m = 3 => g[3] = g[2])
    BY <1>3, <2>1, Zenon DEF Inside, Prefix
  <2>3. Len(g) > 1 /\ g # <<>> /\ ~(Len(g) >= 4) /\ (m = 3 => Len(g) >= 3)
        /\ (m = 2 => ~(Len(g) >= 3))
    <3>1. Len(g) = 2 \/ Len(g) = 3
      BY <1>3
    <3>2. \A n : n = 2 \/ n = 3 =>
            /\ n > 1 /\ n # 0 /\ ~(n >= 4) /\ (n = 3 => n >= 3)
            /\ (n = 2 => ~(n >= 3))
      OBVIOUS
    <3>3. Len(g) > 1 /\ Len(g) # 0 /\ ~(Len(g) >= 4) /\ (m = 3 => Len(g) >= 3)
          /\ (m = 2 => ~(Len(g) >= 3))
      BY <3>1, <3>2, Zenon
    <3>4. g # <<>>
      BY <3>3, EmptySeq, Zenon
    <3> QED BY <3>3, <3>4, Zenon
  <2>4. IsDirective(g)
    BY <2>2, <2>3, Zenon DEF IsDirective
  <2>5. DirectiveLength(g) = m
    BY <1>3, <2>1, <2>2, <2>3, Zenon DEF DirectiveLength
  <2>6. Converted(g) \in Prefix
    BY <1>3, <2>1, <2>2, <2>5, Zenon DEF Converted
  <2>7. Fitting(g, w)
    BY <2>3, ReadFront
  <2> QED BY <2>4, <2>6, <2>7, Zenon DEF Fitting
<1> QED BY <1>1, <1>2, <1>3

LEMMA LongAlike ==
  ASSUME NEW g, NEW m \in 1 .. 3, DirectiveLength(g) = m + 1, NEW st, NEW len,
         Inside(g, m, st, len)
  PROVE  /\ Wide(g) <=> len = "long long"
         /\ (DirectiveLength(g) > 2 /\ g[2] = "l") <=> len \in {"long", "long long"}
<1>1. 1 + 1 = 2 /\ 2 + 1 = 3 /\ 3 + 1 = 4 /\ 2 # 4 /\ 3 # 4 /\ ~(2 > 2) /\ 3 > 2 /\ 4 > 2
  OBVIOUS
<1>2. m # 0 /\ (m = 1 \/ m = 2 \/ m = 3)
  OBVIOUS
<1>3. /\ "start" # "long" /\ "start" # "long long" /\ "short" # "long"
      /\ "short" # "long long" /\ "short short" # "long" /\ "short short" # "long long"
      /\ "long" # "long long" /\ "h" # "l"
  OBVIOUS
<1>4. CASE m = 1 /\ len = "start"
  <2>1. DirectiveLength(g) = 2
    BY <1>1, <1>4, Zenon
  <2> QED BY <1>1, <1>3, <1>4, <2>1, Zenon DEF Wide
<1>5. CASE m = 2 /\ g[2] = "h" /\ len = "short"
  <2>1. DirectiveLength(g) = 3
    BY <1>1, <1>5, Zenon
  <2> QED BY <1>1, <1>3, <1>5, <2>1, Zenon DEF Wide
<1>6. CASE m = 2 /\ g[2] = "l" /\ len = "long"
  <2>1. DirectiveLength(g) = 3
    BY <1>1, <1>6, Zenon
  <2> QED BY <1>1, <1>3, <1>6, <2>1, Zenon DEF Wide
<1>7. CASE m = 3 /\ g[2] = "h" /\ len = "short short"
  <2>1. DirectiveLength(g) = 4
    BY <1>1, <1>7, Zenon
  <2> QED BY <1>1, <1>3, <1>7, <2>1, Zenon DEF Wide
<1>8. CASE m = 3 /\ g[2] = "l" /\ len = "long long"
  <2>1. DirectiveLength(g) = 4
    BY <1>1, <1>8, Zenon
  <2> QED BY <1>1, <1>3, <1>8, <2>1, Zenon DEF Wide
<1> QED BY <1>2, <1>4, <1>5, <1>6, <1>7, <1>8, Zenon DEF Inside

\* The words at argp.
LEMMA WordsThere ==
  ASSUME NEW s \in Seq(Word), NEW w, NEW a \in Nat, AtWord(w, s, a), NEW u \in Nat
  PROVE  /\ w \in Seq(Word) /\ Len(w) \in Nat
         /\ 1 <= Len(w) => w[1] = s[a]
         /\ 2 <= Len(w) => w[2] = s[a + 1]
         /\ u <= Len(w) => AtWord(Behind(w, u), s, a + u)
<1> DEFINE n == a - 1
<1>1. n \in 0 .. Len(s) /\ w = Behind(s, n)
  BY DEF AtWord
<1>2. Len(s) \in Nat /\ n \in Nat /\ n <= Len(s) /\ n + 1 = a /\ n + 2 = a + 1
      /\ (a + u) - 1 = n + u
  BY <1>1, LenProperties
<1> HIDE DEF n
<1>3. w \in Seq(Word) /\ Len(w) = Len(s) - n /\ \A i \in 1 .. Len(s) - n : w[i] = s[n + i]
  BY <1>1, <1>2, BehindIs
<1>4. Len(w) \in Nat
  BY <1>2, <1>3
<1>5. 1 <= Len(w) => w[1] = s[a]
  BY <1>2, <1>3
<1>6. 2 <= Len(w) => w[2] = s[a + 1]
  BY <1>2, <1>3
<1>7. ASSUME u <= Len(w) PROVE AtWord(Behind(w, u), s, a + u)
  <2>1. n + u <= Len(s) /\ n + u \in 0 .. Len(s)
    BY <1>2, <1>3, <1>7
  <2>2. Behind(Behind(s, n), u) = Behind(s, n + u)
    BY <1>2, <2>1, BehindMore
  <2> QED BY <1>1, <1>2, <2>1, <2>2, Zenon DEF AtWord
<1> QED BY <1>3, <1>4, <1>5, <1>6, <1>7

LEMMA OutputNumber ==
  ASSUME NEW c \in Number
  PROVE  Output(c) = PrintfNumber(c, length, stack[argp], stack[argp + 1])
<1>1. c # "s" /\ c # "c" /\ c # "%"
  BY DEF Number
<1> QED BY <1>1 DEF Output

\* What printf puts out for a directive, and where it looks for the next.
LEMMA OutputAlike ==
  ASSUME NEW g \in Seq(STRING), NEW w \in Seq(Word), NEW m \in 1 .. 3, m < Len(g),
         IsDirective(g), DirectiveLength(g) = m + 1, Inside(g, m, fmtState, length),
         Fitting(g, w), stack \in Seq(Word), argp \in Nat, AtWord(w, stack, argp)
  PROVE  Output(g[m + 1]) = FrontText(g, w)
<1> DEFINE c == Converted(g)
           u == Uses(g)
           t == SubSeq(w, 1, u)
<1>1. c = g[m + 1]
  BY Zenon DEF Converted
<1>2. /\ 1 <= Len(w) => w[1] = stack[argp]
      /\ 2 <= Len(w) => w[2] = stack[argp + 1]
  <2>1. 0 \in Nat
    OBVIOUS
  <2> QED BY <2>1, WordsThere
<1>3. u <= Len(w)
  BY Zenon DEF Fitting
<1>4. FrontText(g, w) = Shown(c, t)
  BY Zenon DEF FrontText
<1>5. Wide(g) <=> length = "long long"
  <2>1. /\ Wide(g) <=> length = "long long"
        /\ (DirectiveLength(g) > 2 /\ g[2] = "l") <=> length \in {"long", "long long"}
    BY LongAlike, Zenon
  <2> QED BY <2>1, Zenon
<1> HIDE DEF u, t
<1>6. ASSUME u = 1 PROVE t \in Seq(Word) /\ Len(t) = 1 /\ t[1] = stack[argp]
  <2>1. 1 <= Len(w) /\ 1 \in Nat \ {0}
    BY <1>3, <1>6
  <2>2. /\ SubSeq(w, 1, 1) \in Seq(Word) /\ Len(SubSeq(w, 1, 1)) = 1
        /\ \A i \in 1 .. 1 : SubSeq(w, 1, 1)[i] = w[i] /\ w[i] \in Word
    BY <2>1, TakenFirst
  <2>3. 1 \in 1 .. 1
    OBVIOUS
  <2> QED BY <1>2, <1>6, <2>1, <2>2, <2>3, Zenon DEF t
<1>7. ASSUME u = 2
      PROVE  /\ t \in Seq(Word) /\ Len(t) = 2
             /\ t[1] = stack[argp] /\ t[2] = stack[argp + 1]
  <2>1. 1 <= Len(w) /\ 2 <= Len(w) /\ 2 \in Nat \ {0}
    <3>1. Len(w) \in Nat
      BY LenProperties
    <3> QED BY <1>3, <1>7, <3>1
  <2>2. /\ SubSeq(w, 1, 2) \in Seq(Word) /\ Len(SubSeq(w, 1, 2)) = 2
        /\ \A i \in 1 .. 2 : SubSeq(w, 1, 2)[i] = w[i] /\ w[i] \in Word
    BY <2>1, TakenFirst
  <2>3. 1 \in 1 .. 2 /\ 2 \in 1 .. 2
    OBVIOUS
  <2> QED BY <1>2, <1>7, <2>1, <2>2, <2>3, Zenon DEF t
<1>8. CASE c \in Number
  <2>1. u = IF Wide(g) THEN 2 ELSE 1
    BY <1>8, Zenon DEF Uses, u
  <2>2. Output(c) = PrintfNumber(c, length, stack[argp], stack[argp + 1])
    BY <1>8, OutputNumber, Zenon
  <2>3. CASE Wide(g)
    <3>1. u = 2 /\ length = "long long"
      BY <1>5, <2>1, <2>3, Zenon
    <3>2. t \in Seq(Word) /\ Len(t) = 2 /\ t[1] = stack[argp] /\ t[2] = stack[argp + 1]
      BY <1>7, <3>1
    <3>3. Magnitude(Value(c, t)) < TwoToBits
      <4>1. Magnitude(Value(c, SubSeq(w, 1, 2))) < TwoToBits
        BY <1>8, <2>3, Zenon DEF Fitting
      <4> QED BY <3>1, <4>1, Zenon DEF t
    <3>4. Shown(c, t) = PrintfNumber(c, "long long", t[1], t[2])
      <4> HIDE DEF c
      <4> QED BY <1>8, <3>2, <3>3, WideShown
    <3> QED BY <1>1, <1>4, <2>2, <3>1, <3>2, <3>4, Zenon
  <2>4. CASE ~Wide(g)
    <3>1. u = 1 /\ length # "long long"
      BY <1>5, <2>1, <2>4, Zenon
    <3>2. t \in Seq(Word) /\ Len(t) = 1 /\ t[1] = stack[argp]
      BY <1>6, <3>1
    <3> DEFINE high == stack[argp + 1]
    <3>3. Shown(c, t) = PrintfNumber(c, length, t[1], high)
      <4> HIDE DEF high, c
      <4> QED BY <1>8, <3>1, <3>2, NumberShown, Zenon
    <3> QED BY <1>1, <1>4, <2>2, <3>2, <3>3, Zenon
  <2> QED BY <2>3, <2>4
<1>9. CASE c \notin Number /\ c \in {"s", "c"}
  <2>1. u = 1
    BY <1>9, Zenon DEF Uses, u
  <2>2. t[1] = stack[argp]
    BY <1>6, <2>1
  <2>3. Output(c) = Shown(c, t)
    <3> DEFINE v == stack[argp]
               x == t[1]
    <3>1. Output(c) = CASE c = "s" -> <<<<"string", v>>>>
                        [] c = "c" -> <<<<"char", v>>>>
                        [] OTHER -> <<>>
      <4> HIDE DEF c
      <4> QED BY <1>9 DEF Output
    <3>2. Shown(c, t) = CASE c = "s" -> <<<<"string", x>>>>
                          [] c = "c" -> <<<<"char", x>>>>
                          [] OTHER -> <<>>
      <4> HIDE DEF c
      <4> QED BY <1>9 DEF Shown
    <3> QED BY <2>2, <3>1, <3>2, Zenon
  <2> QED BY <1>1, <1>4, <2>3, Zenon
<1>10. CASE c \notin Number /\ c \notin {"s", "c"}
  <2> HIDE DEF c
  <2>1. CASE c = "%"
    <3>1. Output(c) = <<<<"text", "%">>>>
      BY <1>10, <2>1 DEF Output
    <3>2. Shown(c, t) = <<<<"text", "%">>>>
      BY <1>10, <2>1 DEF Shown
    <3> QED BY <1>1, <1>4, <3>1, <3>2, Zenon
  <2>2. CASE c # "%"
    <3>1. Output(c) = <<>>
      BY <1>10, <2>2 DEF Output
    <3>2. Shown(c, t) = <<>>
      BY <1>10, <2>2 DEF Shown
    <3> QED BY <1>1, <1>4, <3>1, <3>2, Zenon
  <2> QED BY <2>1, <2>2
<1> QED BY <1>8, <1>9, <1>10, Zenon

LEMMA PlaceAlike ==
  ASSUME NEW g \in Seq(STRING), NEW w \in Seq(Word), NEW m \in 1 .. 3, m < Len(g),
         IsDirective(g), DirectiveLength(g) = m + 1, Inside(g, m, fmtState, length),
         Fitting(g, w), stack \in Seq(Word), argp \in Nat, AtWord(w, stack, argp)
  PROVE  \/ AtWord(Behind(w, Uses(g)), stack, argp + Advance(g[m + 1]))
         \/ NoMore(Behind(g, m + 1))
<1> DEFINE c == Converted(g)
           u == Uses(g)
           long == length \in {"long", "long long"}
<1>1. c = g[m + 1]
  BY Zenon DEF Converted
<1>2. u <= Len(w)
  BY Zenon DEF Fitting
<1>3. (Wide(g) <=> length = "long long") /\ ((DirectiveLength(g) > 2 /\ g[2] = "l") <=> long)
  BY LongAlike, Zenon
<1>4. u = IF c \notin Number \cup {"s", "c"} THEN 0
          ELSE IF Wide(g) /\ c \in Number THEN 2 ELSE 1
  BY Zenon DEF Uses
<1>5. u \in Nat
  <2> HIDE DEF u, c
  <2> QED BY <1>4
<1> HIDE DEF u, c
<1>6. ASSUME long, u # 0 PROVE NoMore(Behind(g, m + 1))
  <2>1. u > 0
    <3>1. \A n \in Nat : n # 0 => n > 0
      OBVIOUS
    <3> QED BY <1>5, <1>6, <3>1, Zenon
  <2>2. \A i \in DirectiveLength(g) + 1 .. Len(g) : g[i] # "%"
    BY <1>3, <1>6, <2>1, Zenon DEF Fitting, u
  <2> DEFINE n == m + 1
             b == Behind(g, n)
  <2>3. n \in Nat /\ n <= Len(g) /\ Len(g) \in Nat /\ DirectiveLength(g) = n
    BY LenProperties
  <2> HIDE DEF n
  <2>4. Len(b) = Len(g) - n /\ \A i \in 1 .. Len(g) - n : b[i] = g[n + i]
    BY <2>3, BehindIs
  <2> HIDE DEF b
  <2>5. ASSUME NEW i \in 1 .. Len(b) PROVE b[i] # "%"
    <3>1. i \in 1 .. Len(g) - n /\ n + i \in n + 1 .. Len(g)
      BY <2>3, <2>4
    <3>2. b[i] = g[n + i]
      BY <2>4, <3>1
    <3> QED BY <2>2, <2>3, <3>1, <3>2, Zenon
  <2>6. NoMore(b)
    BY <2>5 DEF NoMore
  <2> QED BY <2>6 DEF b, n
<1>7. ASSUME ~long \/ u = 0 PROVE Advance(c) = u
  <2>1. CASE u = 0
    <3>1. c \notin Number /\ c # "s" /\ c # "c"
      <4>1. 2 # 0 /\ 1 # 0
        OBVIOUS
      <4> QED BY <1>4, <2>1, <4>1, Zenon
    <3>2. Advance(c) = 0
      BY <3>1 DEF Advance
    <3> QED BY <2>1, <3>2
  <2>2. CASE u # 0 /\ ~long
    <3>1. c \in Number \cup {"s", "c"}
      BY <1>4, <2>2, Zenon
    <3>2. ~Wide(g)
      BY <1>3, <2>2
    <3>3. u = 1
      BY <1>4, <3>1, <3>2, Zenon
    <3>4. length # "long" /\ length # "long long"
      BY <2>2
    <3>5. CASE c \in Number
      <4>1. Advance(c) = 1
        BY <3>4, <3>5 DEF Advance
      <4> QED BY <3>3, <4>1
    <3>6. CASE c \notin Number /\ c = "s"
      <4>1. Advance(c) = 1
        BY <3>4, <3>6 DEF Advance
      <4> QED BY <3>3, <4>1
    <3>7. CASE c \notin Number /\ c = "c"
      <4>1. Advance(c) = 1
        BY <3>7 DEF Advance
      <4> QED BY <3>3, <4>1
    <3> QED BY <3>1, <3>5, <3>6, <3>7
  <2> QED BY <1>7, <2>1, <2>2
<1>8. AtWord(Behind(w, u), stack, argp + u)
  BY <1>2, <1>5, WordsThere
<1> QED BY <1>1, <1>6, <1>7, <1>8, Zenon DEF u

LEMMA SmallSums == 1 + 1 = 2 /\ 2 + 1 = 3
OBVIOUS

LEMMA LengthAlike ==
  ASSUME NEW g, NEW m \in 0 .. 3, NEW st, NEW len, NEW st2, NEW len2,
         Inside(g, m, st, len),
         \/ st = "length" /\ g[m + 1] = "h" /\ len2 = "short" /\ st2 = "short"
         \/ st = "length" /\ g[m + 1] = "l" /\ len2 = "long" /\ st2 = "long"
         \/ st = "short" /\ g[m + 1] = "h" /\ len2 = "short short" /\ st2 = "spec"
         \/ st = "long" /\ g[m + 1] = "l" /\ len2 = "long long" /\ st2 = "spec"
  PROVE  Inside(g, m + 1, st2, len2) /\ m \in {1, 2}
<1>1. 1 + 1 = 2 /\ 2 + 1 = 3
  BY SmallSums, Zenon
<1>2. /\ "start" # "length" /\ "start" # "short" /\ "start" # "long"
      /\ "length" # "short" /\ "length" # "long" /\ "short" # "long"
      /\ "spec" # "length" /\ "spec" # "short" /\ "spec" # "long"
  OBVIOUS
<1>3. CASE st = "length"
  <2>1. m = 1 /\ g[1] = "%"
    BY <1>2, <1>3, Zenon DEF Inside
  <2>2. \/ g[2] = "h" /\ len2 = "short" /\ st2 = "short"
        \/ g[2] = "l" /\ len2 = "long" /\ st2 = "long"
    BY <1>1, <1>2, <1>3, <2>1, Zenon
  <2>3. Inside(g, 2, st2, len2)
    BY <2>1, <2>2, Zenon DEF Inside
  <2> QED BY <1>1, <2>1, <2>3, Zenon
<1>4. CASE st = "short"
  <2>1. m = 2 /\ g[1] = "%" /\ g[2] = "h"
    BY <1>2, <1>4, Zenon DEF Inside
  <2>2. g[3] = "h" /\ len2 = "short short" /\ st2 = "spec"
    BY <1>1, <1>2, <1>4, <2>1, Zenon
  <2>3. g[3] = g[2]
    BY <2>1, <2>2, Zenon
  <2>4. Inside(g, 3, st2, len2)
    BY <2>1, <2>2, <2>3, Zenon DEF Inside
  <2> QED BY <1>1, <2>1, <2>4, Zenon
<1>5. CASE st = "long"
  <2>1. m = 2 /\ g[1] = "%" /\ g[2] = "l"
    BY <1>2, <1>5, Zenon DEF Inside
  <2>2. g[3] = "l" /\ len2 = "long long" /\ st2 = "spec"
    BY <1>1, <1>2, <1>5, <2>1, Zenon
  <2>3. g[3] = g[2]
    BY <2>1, <2>2, Zenon
  <2>4. Inside(g, 3, st2, len2)
    BY <2>1, <2>2, <2>3, Zenon DEF Inside
  <2> QED BY <1>1, <2>1, <2>4, Zenon
<1> QED BY <1>3, <1>4, <1>5, Zenon

LEMMA StartInside ==
  ASSUME NEW g, NEW m, NEW len, Inside(g, m, "start", len)
  PROVE  m = 0 /\ len = "start"
<1>1. /\ "start" # "length" /\ "start" # "short" /\ "start" # "long" /\ "start" # "spec"
  OBVIOUS
<1> QED BY <1>1, Zenon DEF Inside

\* What is put out next to what there is.
LEMMA PutOne ==
  ASSUME NEW S, NEW s \in Seq(S), NEW i \in S
  PROVE  Append(s, i) = s \o <<i>>
OBVIOUS

\* A call begins before the first character and at the first word.
LEMMA ReadsCall ==
  ASSUME NEW f \in Formats, NEW s \in Stacks, Call(f, s)
  PROVE  PrintfReads'
<1> SUFFICES ASSUME Reference[<<call', stack'>>].exact
             PROVE  \E g \in Seq(STRING), w \in Seq(Word), m \in 0 .. 3 : SoFar(g, w, m)'
  BY Zenon DEF PrintfReads
<1>1. f \in Seq(STRING) /\ s \in Seq(Word)
  BY PrintfAssumption
<1>2. /\ call' = f /\ stack' = s /\ fmt' = f /\ fmtState' = "start" /\ length' = "start"
      /\ argp' = 1 /\ out' = <<>>
  BY DEF Call
<1>3. Behind(f, 0) = f /\ Behind(s, 0) = s
  BY <1>1, BehindNothing
<1>4. 0 <= Len(f) /\ 1 - 1 = 0 /\ 0 \in 0 .. Len(s) /\ 0 \in 0 .. 3
  BY <1>1, LenProperties
<1>5. Inside(f, 0, "start", "start")
  BY Zenon DEF Inside
<1>6. AtWord(s, s, 1)
  BY <1>3, <1>4, Zenon DEF AtWord
<1>7. Reference[<<f, s>>].text = <<>> \o Reference[<<f, s>>].text
  <2>1. <<f, s>> \in Readings
    BY <1>1 DEF Readings
  <2>2. Reference[<<f, s>>] \in Answer
    BY <2>1, ReferenceIs
  <2>3. Reference[<<f, s>>].text \in Seq(Item)
    BY <2>2 DEF Answer
  <2> QED BY <2>3, ConcatEmptySeq
<1>8. <<>> \in Seq(Item)
  OBVIOUS
<1>9. SoFar(f, s, 0)'
  <2>1. fmt' = Behind(f, 0) /\ Inside(f, 0, fmtState', length') /\ out' \in Seq(Item)
    BY <1>2, <1>3, <1>5, <1>8, Zenon
  <2>2. Reference[<<f, s>>].exact /\ AtWord(s, stack', argp')
    BY <1>2, <1>6, Zenon
  <2>3. Reference[<<call', stack'>>].text = out' \o Reference[<<f, s>>].text
    BY <1>2, <1>7, Zenon
  <2> QED BY <1>4, <2>1, <2>2, <2>3, Zenon DEF SoFar
<1> QED BY <1>1, <1>4, <1>9, Zenon

LEMMA ThreeTexts ==
  ASSUME NEW a \in Seq(Item), NEW b \in Seq(Item), NEW c \in Seq(Item)
  PROVE  (a \o b) \o c = a \o (b \o c) /\ a \o b \in Seq(Item)
BY ConcatAssociative, ConcatProperties

\* The front of g is read: out has its text, and the rest is left.
LEMMA FrontRead ==
  ASSUME NEW g \in Seq(STRING), NEW w \in Seq(Word), NEW m \in 0 .. 3, SoFar(g, w, m),
         g # <<>>
  PROVE  LET f == Behind(g, FrontLength(g))
             v == Behind(w, Uses(g))
         IN  /\ Fitting(g, w) /\ f \in Seq(STRING) /\ v \in Seq(Word)
             /\ FrontText(g, w) \in Seq(Item) /\ out \o FrontText(g, w) \in Seq(Item)
             /\ Reference[<<f, v>>].exact
             /\ Reference[<<call, stack>>].text
                  = (out \o FrontText(g, w)) \o Reference[<<f, v>>].text
<1> DEFINE f == Behind(g, FrontLength(g))
           v == Behind(w, Uses(g))
           rest == <<f, v>>
<1>1. /\ Reference[<<g, w>>].exact /\ out \in Seq(Item)
      /\ Reference[<<call, stack>>].text = out \o Reference[<<g, w>>].text
  BY Zenon DEF SoFar
<1>2. /\ Fitting(g, w) /\ rest \in Readings /\ Reference[rest] \in Answer
      /\ Reference[rest].exact
      /\ Reference[<<g, w>>].text = FrontText(g, w) \o Reference[rest].text
  BY <1>1, ReadFront
<1>3. f \in Seq(STRING) /\ v \in Seq(Word)
  <2> HIDE DEF f, v
  <2> QED BY <1>2 DEF Readings
<1> HIDE DEF f, v
<1>4. Reference[rest].text \in Seq(Item)
  <2> HIDE DEF rest
  <2> QED BY <1>2 DEF Answer
<1>5. FrontText(g, w) \in Seq(Item)
  BY <1>2, FrontTypes
<1> DEFINE t == FrontText(g, w)
           r == Reference[rest].text
           u == Reference[<<call, stack>>].text
<1>6. u = out \o (t \o r)
  BY <1>1, <1>2, Zenon
<1>7. t \in Seq(Item) /\ r \in Seq(Item)
  BY <1>4, <1>5, Zenon
<1> HIDE DEF t, r, u
<1>8. u = (out \o t) \o r /\ out \o t \in Seq(Item)
  <2>1. out \in Seq(Item)
    BY <1>1, Zenon
  <2>2. (out \o t) \o r = out \o (t \o r) /\ out \o t \in Seq(Item)
    BY <1>7, <2>1, ThreeTexts, Zenon
  <2> QED BY <1>6, <2>2, Zenon
<1> QED BY <1>2, <1>3, <1>5, <1>8, Zenon DEF t, r, u, rest, f, v

LEMMA TextReads ==
  ASSUME PrintfTypes, fmt # <<>>, Text, fmt' = Tail(fmt), UNCHANGED <<stack, call>>,
         NEW g \in Seq(STRING), NEW w \in Seq(Word), NEW m \in 0 .. 3, SoFar(g, w, m)
  PROVE  \E h \in Seq(STRING), v \in Seq(Word), n \in 0 .. 3 : SoFar(h, v, n)'
<1>1. /\ m <= Len(g) /\ fmt = Behind(g, m) /\ Inside(g, m, fmtState, length)
      /\ Reference[<<g, w>>].exact /\ out \in Seq(Item)
      /\ Reference[<<call, stack>>].text = out \o Reference[<<g, w>>].text
      /\ AtWord(w, stack, argp) \/ (m = 0 /\ NoMore(g))
  BY Zenon DEF SoFar
<1>2. fmtState = "start" /\ UNCHANGED <<length, argp>>
  BY DEF Text
<1>3. m = 0 /\ length = "start"
  BY <1>1, <1>2, StartInside
<1>4. 0 < Len(g) /\ g # <<>> /\ 1 \in 1 .. Len(g) /\ 0 \in Nat /\ 0 + 1 = 1 /\ 1 <= Len(g)
  <2>1. Len(g) \in Nat /\ 0 \in Nat
    BY LenProperties
  <2>2. 0 # Len(g)
    BY <1>1, <1>3, <2>1, AllRead, Zenon
  <2>3. g # <<>>
    BY <2>2, EmptySeq
  <2>4. 0 < Len(g) /\ 1 \in 1 .. Len(g) /\ 0 + 1 = 1 /\ 1 <= Len(g)
    BY <2>1, <2>2
  <2> QED BY <2>1, <2>3, <2>4, Zenon
<1>5. Head(fmt) = g[1] /\ fmt' = Behind(g, 1)
  <2>1. Head(Behind(g, 0)) = g[0 + 1] /\ Tail(Behind(g, 0)) = Behind(g, 0 + 1)
    BY <1>4, Onward, Zenon
  <2> QED BY <1>1, <1>3, <1>4, <2>1, Zenon
<1>6. CASE g[1] = "%"
  <2>1. fmtState' = "length" /\ out' = out
    BY <1>5, <1>6 DEF Text
  <2>2. Inside(g, 1, "length", "start")
    BY <1>6, Zenon DEF Inside
  <2>3. AtWord(w, stack, argp)
    BY <1>1, <1>4, <1>6, Zenon DEF NoMore
  <2>4. length' = "start" /\ argp' = argp /\ stack' = stack /\ call' = call
    BY <1>2, <1>3
  <2>5. SoFar(g, w, 1)'
    BY <1>1, <1>4, <1>5, <2>1, <2>2, <2>3, <2>4, Zenon DEF SoFar
  <2>6. 1 \in 0 .. 3
    OBVIOUS
  <2> QED BY <2>5, <2>6
<1>7. CASE g[1] # "%"
  <2> DEFINE h == Behind(g, 1)
             i == <<"text", g[1]>>
  <2>1. FrontLength(g) = 1 /\ Uses(g) = 0 /\ FrontText(g, w) = <<i>>
    BY <1>7, FrontNot, Zenon
  <2>2. Behind(w, 0) = w
    BY BehindNothing
  <2>3. /\ h \in Seq(STRING) /\ <<i>> \in Seq(Item) /\ out \o <<i>> \in Seq(Item)
        /\ Reference[<<h, w>>].exact
        /\ Reference[<<call, stack>>].text = (out \o <<i>>) \o Reference[<<h, w>>].text
    <3>1. /\ Behind(g, FrontLength(g)) \in Seq(STRING)
          /\ FrontText(g, w) \in Seq(Item) /\ out \o FrontText(g, w) \in Seq(Item)
          /\ Reference[<<Behind(g, FrontLength(g)), Behind(w, Uses(g))>>].exact
          /\ Reference[<<call, stack>>].text
               = (out \o FrontText(g, w))
                   \o Reference[<<Behind(g, FrontLength(g)), Behind(w, Uses(g))>>].text
      BY <1>4, FrontRead
    <3> QED BY <2>1, <2>2, <3>1, Zenon
  <2>4. fmtState' = "start" /\ out' = Append(out, i)
    BY <1>2, <1>5, <1>7 DEF Text
  <2>5. out' = out \o <<i>>
    <3>1. <<i>>[1] = i /\ 1 \in 1 .. Len(<<i>>)
      OBVIOUS
    <3> HIDE DEF i
    <3>2. i \in Item
      BY <2>3, <3>1, ElementOfSeq
    <3> QED BY <1>1, <2>4, <3>2, PutOne
  <2>6. length' = "start" /\ argp' = argp /\ stack' = stack /\ call' = call
    BY <1>2, <1>3
  <2>7. /\ 0 <= Len(h) /\ Behind(h, 0) = h /\ Len(h) \in Nat
    BY <2>3, LenProperties, BehindNothing
  <2>8. Inside(h, 0, "start", "start")
    BY Zenon DEF Inside
  <2>9. NoMore(g) => NoMore(h)
    <3>1. Len(h) = Len(g) - 1 /\ \A j \in 1 .. Len(g) - 1 : h[j] = g[1 + j]
      BY <1>4, BehindIs
    <3>2. Len(g) \in Nat
      BY LenProperties
    <3> HIDE DEF h
    <3>3. \A j \in 1 .. Len(h) : 1 + j \in 1 .. Len(g) /\ j \in 1 .. Len(g) - 1
      BY <3>1, <3>2
    <3> QED BY <3>1, <3>3, Zenon DEF NoMore
  <2> HIDE DEF h, i
  <2>10. SoFar(h, w, 0)'
    <3>1. fmt' = Behind(h, 0) /\ Inside(h, 0, fmtState', length') /\ out' \in Seq(Item)
      BY <1>5, <2>3, <2>4, <2>5, <2>6, <2>7, <2>8, Zenon DEF h
    <3>2. AtWord(w, stack', argp') \/ NoMore(h)
      BY <1>1, <2>6, <2>9, Zenon
    <3>3. Reference[<<call', stack'>>].text = out' \o Reference[<<h, w>>].text
      BY <2>3, <2>5, <2>6, Zenon
    <3> QED BY <2>3, <2>7, <3>1, <3>2, <3>3, Zenon DEF SoFar
  <2>11. 0 \in 0 .. 3
    OBVIOUS
  <2> QED BY <2>3, <2>10, <2>11, Zenon
<1> QED BY <1>6, <1>7

LEMMA LengthReads ==
  ASSUME PrintfTypes, fmt # <<>>, Length, fmt' = Tail(fmt), UNCHANGED <<stack, call>>,
         NEW g \in Seq(STRING), NEW w \in Seq(Word), NEW m \in 0 .. 3, SoFar(g, w, m)
  PROVE  \E h \in Seq(STRING), v \in Seq(Word), n \in 0 .. 3 : SoFar(h, v, n)'
<1>1. /\ m <= Len(g) /\ fmt = Behind(g, m) /\ Inside(g, m, fmtState, length)
      /\ Reference[<<g, w>>].exact /\ out \in Seq(Item)
      /\ Reference[<<call, stack>>].text = out \o Reference[<<g, w>>].text
      /\ AtWord(w, stack, argp) \/ (m = 0 /\ NoMore(g))
  BY Zenon DEF SoFar
<1>2. UNCHANGED <<argp, out>>
  BY DEF Length
<1>3. m \in Nat /\ m < Len(g) /\ m + 1 <= Len(g)
  <2>1. Len(g) \in Nat /\ m \in Nat
    BY LenProperties
  <2>2. m # Len(g)
    BY <1>1, <2>1, AllRead, Zenon
  <2> QED BY <1>1, <2>1, <2>2
<1>4. Head(fmt) = g[m + 1] /\ fmt' = Behind(g, m + 1)
  BY <1>1, <1>3, Onward, Zenon
<1>5. \/ fmtState = "length" /\ g[m + 1] = "h" /\ length' = "short" /\ fmtState' = "short"
      \/ fmtState = "length" /\ g[m + 1] = "l" /\ length' = "long" /\ fmtState' = "long"
      \/ fmtState = "short" /\ g[m + 1] = "h" /\ length' = "short short" /\ fmtState' = "spec"
      \/ fmtState = "long" /\ g[m + 1] = "l" /\ length' = "long long" /\ fmtState' = "spec"
  BY <1>4, Zenon DEF Length
<1>6. Inside(g, m + 1, fmtState', length') /\ m \in {1, 2}
  BY <1>1, <1>5, LengthAlike, Zenon
<1>7. m # 0 /\ m + 1 \in 0 .. 3
  BY <1>6
<1>8. SoFar(g, w, m + 1)'
  <2>1. argp' = argp /\ out' = out /\ stack' = stack /\ call' = call
    BY <1>2
  <2>2. AtWord(w, stack', argp') /\ out' \in Seq(Item)
    BY <1>1, <1>7, <2>1, Zenon
  <2>3. Reference[<<call', stack'>>].text = out' \o Reference[<<g, w>>].text
    BY <1>1, <2>1, Zenon
  <2> QED BY <1>1, <1>3, <1>4, <1>6, <2>2, <2>3, Zenon DEF SoFar
<1> QED BY <1>7, <1>8, Zenon

LEMMA ConversionReads ==
  ASSUME PrintfTypes, fmt # <<>>, Conversion, fmt' = Tail(fmt), UNCHANGED <<stack, call>>,
         NEW g \in Seq(STRING), NEW w \in Seq(Word), NEW m \in 0 .. 3, SoFar(g, w, m)
  PROVE  \E h \in Seq(STRING), v \in Seq(Word), n \in 0 .. 3 : SoFar(h, v, n)'
<1>1. /\ m <= Len(g) /\ fmt = Behind(g, m) /\ Inside(g, m, fmtState, length)
      /\ Reference[<<g, w>>].exact /\ out \in Seq(Item)
      /\ Reference[<<call, stack>>].text = out \o Reference[<<g, w>>].text
      /\ AtWord(w, stack, argp) \/ (m = 0 /\ NoMore(g))
  BY Zenon DEF SoFar
<1>2. m \in Nat /\ m < Len(g) /\ m + 1 \in Nat /\ m + 1 <= Len(g) /\ g # <<>>
  <2>1. Len(g) \in Nat /\ m \in Nat
    BY LenProperties
  <2>2. m # Len(g)
    BY <1>1, <2>1, AllRead, Zenon
  <2>3. m < Len(g) /\ Len(g) # 0
    BY <1>1, <2>1, <2>2
  <2>4. g # <<>>
    BY <2>3, EmptySeq
  <2> QED BY <2>1, <2>3, <2>4
<1>3. Head(fmt) = g[m + 1] /\ fmt' = Behind(g, m + 1)
  BY <1>1, <1>2, Onward, Zenon
<1> DEFINE c == g[m + 1]
           u == Uses(g)
           h == Behind(g, m + 1)
           v == Behind(w, u)
<1>4. /\ Ends(c, fmtState) /\ out' = out \o Output(c)
      /\ argp' = argp + Advance(c) /\ fmtState' = "start" /\ length' = "start"
  BY <1>3, Zenon DEF Conversion, Ends
<1>5. IsDirective(g) /\ DirectiveLength(g) = m + 1
  BY <1>1, <1>2, <1>4, EndsAlike, Zenon
<1>6. m # 0 /\ m \in 1 .. 3
  <2>1. m # 0
    <3> SUFFICES ASSUME m = 0 PROVE FALSE
      OBVIOUS
    <3>1. DirectiveLength(g) \in 2 .. 4
      <4>1. Len(g) > 1
        BY <1>5, Zenon DEF IsDirective
      <4> QED BY <4>1, DirectiveFits
    <3> QED BY <1>5, <3>1
  <2> QED BY <2>1
<1>7. FrontLength(g) = m + 1
  BY <1>5, Zenon DEF FrontLength
<1>8. /\ Fitting(g, w) /\ h \in Seq(STRING) /\ v \in Seq(Word)
      /\ out \o FrontText(g, w) \in Seq(Item)
      /\ Reference[<<h, v>>].exact
      /\ Reference[<<call, stack>>].text
           = (out \o FrontText(g, w)) \o Reference[<<h, v>>].text
  <2>1. LET f2 == Behind(g, FrontLength(g))
            v2 == Behind(w, Uses(g))
        IN  /\ Fitting(g, w) /\ f2 \in Seq(STRING) /\ v2 \in Seq(Word)
            /\ FrontText(g, w) \in Seq(Item) /\ out \o FrontText(g, w) \in Seq(Item)
            /\ Reference[<<f2, v2>>].exact
            /\ Reference[<<call, stack>>].text
                 = (out \o FrontText(g, w)) \o Reference[<<f2, v2>>].text
    BY <1>2, FrontRead
  <2> QED BY <1>7, <2>1, Zenon
<1>9. stack \in Seq(Word) /\ argp \in Nat /\ AtWord(w, stack, argp)
  BY <1>1, <1>6, Zenon DEF PrintfTypes
<1>10. Output(c) = FrontText(g, w)
  BY <1>1, <1>2, <1>5, <1>6, <1>8, <1>9, OutputAlike, Zenon
<1>11. AtWord(v, stack, argp + Advance(c)) \/ NoMore(h)
  BY <1>1, <1>2, <1>5, <1>6, <1>8, <1>9, PlaceAlike, Zenon
<1>12. 0 <= Len(h) /\ Behind(h, 0) = h
  BY <1>8, LenProperties, BehindNothing
<1>13. Inside(h, 0, "start", "start")
  BY Zenon DEF Inside
<1>14. stack' = stack /\ call' = call
  OBVIOUS
<1> HIDE DEF c, u, h, v
<1>15. SoFar(h, v, 0)'
  <2>1. fmt' = Behind(h, 0)
    BY <1>3, <1>12, Zenon DEF h
  <2>2. Inside(h, 0, fmtState', length') /\ out' \in Seq(Item)
    BY <1>4, <1>8, <1>10, <1>13, Zenon
  <2>3. AtWord(v, stack', argp') \/ NoMore(h)
    BY <1>4, <1>11, <1>14, Zenon
  <2>4. Reference[<<call', stack'>>].text = out' \o Reference[<<h, v>>].text
    BY <1>4, <1>8, <1>10, <1>14, Zenon
  <2> QED BY <1>8, <1>12, <2>1, <2>2, <2>3, <2>4, Zenon DEF SoFar
<1>16. 0 \in 0 .. 3
  OBVIOUS
<1> QED BY <1>8, <1>15, <1>16, Zenon

LEMMA PrintfReadsOn ==
  PrintfTypes /\ PrintfReads /\ [PrintfNext]_printfVars => PrintfReads'
<1> SUFFICES ASSUME PrintfTypes, PrintfReads, [PrintfNext]_printfVars PROVE PrintfReads'
  OBVIOUS
<1>1. CASE \E f \in Formats, s \in Stacks : Call(f, s)
  BY <1>1, ReadsCall
<1>2. CASE Turn
  <2>1. /\ busy /\ fmt # <<>> /\ fmt' = Tail(fmt) /\ UNCHANGED <<stack, call>>
        /\ Text \/ Length \/ Conversion
    BY <1>2 DEF Turn
  <2> SUFFICES ASSUME Reference[<<call', stack'>>].exact
               PROVE  \E g \in Seq(STRING), w \in Seq(Word), m \in 0 .. 3 : SoFar(g, w, m)'
    BY Zenon DEF PrintfReads
  <2>2. stack' = stack /\ call' = call
    BY <2>1
  <2>3. Reference[<<call, stack>>].exact
    BY <2>2, Zenon
  <2>4. PICK g \in Seq(STRING), w \in Seq(Word), m \in 0 .. 3 : SoFar(g, w, m)
    BY <2>1, <2>3, Zenon DEF PrintfReads
  <2>5. CASE Text
    BY <2>1, <2>4, <2>5, TextReads, Zenon
  <2>6. CASE Length
    BY <2>1, <2>4, <2>6, LengthReads, Zenon
  <2>7. CASE Conversion
    BY <2>1, <2>4, <2>7, ConversionReads, Zenon
  <2> QED BY <2>1, <2>5, <2>6, <2>7
<1>3. CASE Return
  <2>1. busy' = FALSE
    BY <1>3 DEF Return
  <2> QED BY <2>1, Zenon DEF PrintfReads
<1>4. CASE UNCHANGED printfVars
  <2>1. /\ fmt' = fmt /\ fmtState' = fmtState /\ length' = length /\ argp' = argp
        /\ stack' = stack /\ out' = out /\ call' = call /\ busy' = busy
    BY <1>4 DEF printfVars
  <2>2. \A g, w, m : SoFar(g, w, m) => SoFar(g, w, m)'
    BY <2>1, Zenon DEF SoFar
  <2> QED BY <2>1, <2>2, Zenon DEF PrintfReads
<1> QED BY <1>1, <1>2, <1>3, <1>4 DEF PrintfNext

LEMMA PrintfReadsAll == PrintfTypes /\ PrintfReads => PrintsArguments
<1> SUFFICES ASSUME PrintfTypes, PrintfReads, busy, fmt = <<>>,
                    Reference[<<call, stack>>].exact
             PROVE  out = Reference[<<call, stack>>].text
  BY Zenon DEF PrintsArguments
<1>1. PICK g \in Seq(STRING), w \in Seq(Word), m \in 0 .. 3 : SoFar(g, w, m)
  BY Zenon DEF PrintfReads
<1>2. /\ m <= Len(g) /\ fmt = Behind(g, m) /\ Inside(g, m, fmtState, length)
      /\ Reference[<<g, w>>].exact /\ out \in Seq(Item)
      /\ Reference[<<call, stack>>].text = out \o Reference[<<g, w>>].text
  BY <1>1, Zenon DEF SoFar
<1>3. m = Len(g)
  <2>1. m \in Nat
    OBVIOUS
  <2> QED BY <1>2, <2>1, AllRead, Zenon
<1>4. Reference[<<g, w>>].text = <<>>
  BY <1>2, <1>3, EndsInside, Zenon
<1>5. out \o <<>> = out
  BY <1>2, ConcatEmptySeq
<1> QED BY <1>2, <1>4, <1>5, Zenon

LEMMA ReadsFromStart == PrintfInit => PrintfTypes /\ PrintfReads
<1>1. PrintfInit => busy = FALSE
  BY DEF PrintfInit
<1> QED BY <1>1, PrintfStarts, Zenon DEF PrintfReads

LEMMA ReadsAlways ==
  PrintfTypes /\ PrintfReads /\ [PrintfNext]_printfVars => (PrintfTypes /\ PrintfReads)'
BY PrintfKeepsTypes, PrintfReadsOn, Zenon

\* At the end of a call printf has put out what the C standard says of its
\* format and its arguments, for every format and every word: a directive ends
\* where the standard ends it, argp is at its word, a number is its digits by
\* place behind its sign, the smallest number too.  Excepted are the arguments
\* behind a %l.. or %ll.. directive and a long long that does not fit into a word.
THEOREM PrintfPrintsArguments == PrintfSpec => []PrintsArguments
BY ReadsFromStart, ReadsAlways, PrintfReadsAll, PTL DEF PrintfSpec
=============================================================================
