----------------------------- MODULE Scheduler -----------------------------
(***************************************************************************)
(* The scheduling simulation of the C kernel (1.1/libs/process.c): four    *)
(* demo tasks, three algorithms, and run_scheduler, which plays one of     *)
(* them until every task is finished.  Nothing is preempted: a task is a   *)
(* control block whose time_remaining is counted down.                     *)
(*                                                                         *)
(* run_scheduler builds new control blocks each time.  current_task_index  *)
(* is a global of its own and is not reset.                                *)
(***************************************************************************)
EXTENDS Integers, FiniteSets, FiniteSetsExt

CONSTANTS
  NumTasks,     \* NUM_TASKS
  ExecTime,     \* the exec_time each task is created with
  Tickets,      \* its lottery tickets
  TimeQuantum,  \* TIME_QUANTUM
  MaxRuns       \* bound: calls of run_scheduler

Task == 0 .. NumTasks - 1

ASSUME NumTasksAssumption == NumTasks \in Nat \ {0} /\ MaxRuns \in Nat
ASSUME TasksAssumption ==
  ExecTime \in [Task -> Nat \ {0}] /\ Tickets \in [Task -> Nat \ {0}]
ASSUME TimesAscendAssumption ==
  \A i, j \in Task : i < j => ExecTime[i] <= ExecTime[j]
ASSUME QuantumAssumption == TimeQuantum \in Nat \ {0}
ASSUME LongTasksAssumption == \A i \in Task : ExecTime[i] > 1

Algorithm == {"RR", "FCFS", "Lottery"}

VARIABLES
  algorithm,           \* of the running call, or "none"
  state,               \* task_list[i]->state
  time_remaining,      \* task_list[i]->time_remaining
  current_task,        \* the task current_task points at
  current_task_index,
  quanta,              \* history: time slices task i has used in this run
  runs,                \* history: calls so far
  panicked             \* a division by zero has halted the machine

schedVars == <<algorithm, state, time_remaining, current_task,
               current_task_index, quanta, runs, panicked>>

Ready == {i \in Task : state[i] = 0}
Finished == {i \in Task : state[i] = 2}

SchedInit ==
  /\ algorithm = "none" /\ panicked = FALSE /\ runs = 0
  /\ state = [i \in Task |-> 0] /\ time_remaining = ExecTime
  /\ current_task = 0 /\ current_task_index = 0
  /\ quanta = [i \in Task |-> 0]

\* run_scheduler(a) up to its loop, with init_tasks.
RunScheduler(a) ==
  /\ algorithm = "none" /\ ~panicked /\ runs < MaxRuns
  /\ algorithm' = a /\ runs' = runs + 1
  /\ state' = [i \in Task |-> 0] /\ time_remaining' = ExecTime
  /\ current_task' = 0
  /\ quanta' = [i \in Task |-> 0]
  /\ UNCHANGED <<current_task_index, panicked>>

\* Mutant: a task that is not finished keeps its turn.
NextIndexStays == IF state[current_task] # 2 THEN current_task_index
                  ELSE (current_task_index + 1) % NumTasks
\* Mutant: the index never comes back to the first task.
NextIndexStops == IF current_task_index = NumTasks - 1 THEN current_task_index
                  ELSE current_task_index + 1

NextIndex == (current_task_index + 1) % NumTasks

ScheduleRR ==
  LET c == current_task
      left == IF time_remaining[c] > 0 THEN time_remaining[c] - TimeQuantum
              ELSE time_remaining[c]
  IN  /\ algorithm = "RR" /\ Finished # Task
      /\ time_remaining' = [time_remaining EXCEPT ![c] = left]
      /\ state' = [state EXCEPT ![c] = IF left <= 0 THEN 2 ELSE @]
      /\ quanta' = [quanta EXCEPT ![c] = IF time_remaining[c] > 0 THEN @ + 1
                                         ELSE @]
      /\ current_task_index' = NextIndex /\ current_task' = NextIndex
      /\ UNCHANGED <<algorithm, runs, panicked>>

\* Runs every ready task to its end.
ScheduleFCFS ==
  /\ algorithm = "FCFS" /\ Finished # Task
  /\ state' = [i \in Task |-> IF i \in Ready THEN 2 ELSE state[i]]
  /\ time_remaining' = [i \in Task |-> IF i \in Ready THEN 0
                                       ELSE time_remaining[i]]
  /\ current_task' = IF Ready = {} THEN current_task ELSE Max(Ready)
  /\ UNCHANGED <<algorithm, current_task_index, quanta, runs, panicked>>

\* The tickets of the ready tasks up to and including i.
TicketsUpTo(i) == FoldSet(LAMBDA j, sum : sum + Tickets[j], 0,
                          {j \in Ready : j <= i})

Total == TicketsUpTo(NumTasks - 1)

\* The first ready task at which the sum of tickets passes the number drawn.
Wins(i, drawn) ==
  /\ i \in Ready /\ TicketsUpTo(i) > drawn
  /\ \A j \in Ready : j < i => TicketsUpTo(j) <= drawn

\* A winner is "running" from then on, and never takes part again.
ScheduleLottery ==
  /\ algorithm = "Lottery" /\ Finished # Task /\ Total > 0 /\ ~panicked
  /\ \E drawn \in 0 .. Total - 1, w \in Task :
       LET left == time_remaining[w] - 1
       IN  /\ Wins(w, drawn)
           /\ current_task' = w
           /\ time_remaining' = [time_remaining EXCEPT ![w] = left]
           /\ state' = [state EXCEPT ![w] = IF left <= 0 THEN 2 ELSE 1]
  /\ UNCHANGED <<algorithm, current_task_index, quanta, runs, panicked>>

\* rand() % 0: the exception handler prints and halts.
NoTickets ==
  /\ algorithm = "Lottery" /\ Finished # Task /\ Total = 0 /\ ~panicked
  /\ panicked' = TRUE
  /\ UNCHANGED <<algorithm, state, time_remaining, current_task,
                 current_task_index, quanta, runs>>

\* All tasks are finished: the metrics are printed and the call returns.
Completed ==
  /\ algorithm # "none" /\ Finished = Task
  /\ algorithm' = "none"
  /\ UNCHANGED <<state, time_remaining, current_task, current_task_index,
                 quanta, runs, panicked>>

SchedStep ==
  ScheduleRR \/ ScheduleFCFS \/ ScheduleLottery \/ NoTickets \/ Completed

SchedNext == (\E a \in Algorithm : RunScheduler(a)) \/ SchedStep

\* A call that has begun goes on: nothing else runs.
SchedFairness == WF_schedVars(SchedStep)

SchedSpec == SchedInit /\ [][SchedNext]_schedVars /\ SchedFairness

-----------------------------------------------------------------------------
SchedTypeOK ==
  /\ algorithm \in Algorithm \cup {"none"}
  /\ state \in [Task -> 0 .. 2] /\ time_remaining \in [Task -> Int]
  /\ current_task \in Task /\ current_task_index \in Task
  /\ quanta \in [Task -> Nat] /\ runs \in 0 .. MaxRuns /\ panicked \in BOOLEAN

\* Round robin is fair in every run: two tasks that are not finished have used
\* the same number of time slices, but for one, although the index of an
\* earlier run is left over and only current_task is reset (init_tasks).  It
\* holds because with the times of init_tasks the last task finishes last,
\* which brings the index back to 0.
FairShare ==
  algorithm = "RR" =>
    \A i, j \in Task \ Finished : quanta[i] - quanta[j] \in -1 .. 1

\* Every run comes to an end: round robin and first come first served return,
\* the lottery runs out of tickets first and halts the machine.
RunsEnd ==
  /\ algorithm \in {"RR", "FCFS"} ~> algorithm = "none"
  /\ algorithm = "Lottery" ~> panicked

\* The lottery never finishes a task: each gets one tick at most.
LotteryFinishesNothing ==
  algorithm = "Lottery" =>
    Finished = {} /\ \A i \in Task : time_remaining[i] > 0
=============================================================================
