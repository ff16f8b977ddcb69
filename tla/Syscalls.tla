------------------------------ MODULE Syscalls ------------------------------
(***************************************************************************)
(* The tables behind the system calls of the C kernel (1.1/libs/syscall.c):*)
(* open files, processes, the end of the heap sbrk hands out.  The C++     *)
(* kernel has the same tables; only its open never fills a slot.           *)
(*                                                                         *)
(* read, write and execve go through a UEFI table at a fixed address and   *)
(* change none of this.  A call runs with interrupts off: one step each.   *)
(***************************************************************************)
EXTENDS Integers

CONSTANTS
  MaxFiles,      \* MAX_FILES
  MaxProcesses,  \* MAX_PROCESSES
  Increment,     \* the increments sbrk is called with
  HeapStart,     \* 0x100000
  MaxHeap,       \* bound: the furthest heap_end moves
  MaxPid         \* bound: next_pid

ASSUME TablesAssumption == MaxFiles \in Nat \ {0} /\ MaxProcesses \in Nat \ {0}
ASSUME HeapAssumption == HeapStart \in Nat \ {0} /\ Increment \subseteq Int

Fd == 0 .. MaxFiles - 1
Slot == 0 .. MaxProcesses - 1
CallNumber == {"exit", "sbrk", "open", "close", "fork", "kill", "other"}

VARIABLES
  file_table,     \* "null" or "file"
  process_table,  \* [pid, active, memory]
  next_pid,
  heap_end,       \* 0 before the first call
  halted,         \* sys_exit ends in for(;;)
  ret,            \* what the last call returned
  strayed,        \* history: fork has read behind process_table
  kills           \* history: a kill has found a process

sysVars == <<file_table, process_table, next_pid, heap_end, halted, ret,
             strayed, kills>>
files == <<file_table>>
processes == <<process_table, next_pid, strayed, kills>>

SyscallsInit ==
  /\ file_table = [fd \in Fd |-> "null"]
  /\ process_table = [i \in Slot |-> [pid |-> 0, active |-> FALSE,
                                      memory |-> "null"]]
  /\ next_pid = 1 /\ heap_end = 0 /\ halted = FALSE /\ ret = 0
  /\ strayed = FALSE /\ kills = FALSE

\* The first free slot; i is unique.
FirstFree(i) ==
  /\ ~process_table[i].active
  /\ \A j \in Slot : j < i => process_table[j].active

\* read_file returns nothing: open takes what is left in the register.
Open ==
  \/ \E fd \in Fd :
       /\ file_table[fd] = "null" /\ \A e \in Fd : e < fd => file_table[e] # "null"
       /\ \/ file_table' = [file_table EXCEPT ![fd] = "file"] /\ ret' = fd
          \/ UNCHANGED file_table /\ ret' = -1
  \/ /\ \A fd \in Fd : file_table[fd] # "null"
     /\ UNCHANGED file_table /\ ret' = -1

Close(fd) ==
  IF fd \notin Fd \/ file_table[fd] = "null"
  THEN UNCHANGED file_table /\ ret' = -1
  ELSE file_table' = [file_table EXCEPT ![fd] = "null"] /\ ret' = 0

\* Mutant: the pid of the child itself is used.
ParentSlotNext == next_pid

\* The memory pointer is taken from the slot whose number is the last pid,
\* whatever process that slot has, and whether or not the table has it.
ParentSlot == next_pid - 1

Fork ==
  \/ \E i \in Slot, m \in {"null", "stray"} :
       /\ FirstFree(i) /\ next_pid < MaxPid
       /\ ParentSlot \in Slot => m = process_table[ParentSlot].memory
       /\ process_table' = [process_table EXCEPT ![i] =
            [pid |-> next_pid, active |-> TRUE, memory |-> m]]
       /\ next_pid' = next_pid + 1 /\ ret' = next_pid
       /\ strayed' = (strayed \/ ParentSlot \notin Slot)
       /\ UNCHANGED kills
  \/ /\ \A i \in Slot : process_table[i].active
     /\ ret' = -1 /\ UNCHANGED processes

\* The first slot with this pid, active or not.
Kill(pid) ==
  \/ \E i \in Slot :
       /\ process_table[i].pid = pid
       /\ \A j \in Slot : j < i => process_table[j].pid # pid
       /\ process_table' = [process_table EXCEPT ![i].active = FALSE]
       /\ kills' = (kills \/ process_table[i].active) /\ ret' = 0
       /\ UNCHANGED <<next_pid, strayed>>
  \/ /\ \A i \in Slot : process_table[i].pid # pid
     /\ ret' = -1 /\ UNCHANGED processes

\* heap_end is set up whenever it is 0, not only the first time.
Sbrk(increment) ==
  LET old == IF heap_end = 0 THEN HeapStart ELSE heap_end
  IN  /\ old + increment \in 0 .. MaxHeap
      /\ heap_end' = old + increment /\ ret' = old

Exit == halted' = TRUE /\ ret' = ret

\* syscall_handler: numbers it does not know return -1.
SyscallHandler(number) ==
  /\ ~halted
  /\ CASE number = "exit" -> Exit /\ UNCHANGED <<files, processes, heap_end>>
       [] number = "sbrk" -> /\ \E n \in Increment : Sbrk(n)
                             /\ UNCHANGED <<files, processes, halted>>
       [] number = "open" -> Open /\ UNCHANGED <<processes, heap_end, halted>>
       [] number = "close" -> /\ \E fd \in -1 .. MaxFiles : Close(fd)
                              /\ UNCHANGED <<processes, heap_end, halted>>
       [] number = "fork" -> Fork /\ UNCHANGED <<files, heap_end, halted>>
       [] number = "kill" -> /\ \E pid \in 0 .. MaxPid : Kill(pid)
                             /\ UNCHANGED <<files, heap_end, halted>>
       [] OTHER -> ret' = -1 /\ UNCHANGED <<files, processes, heap_end, halted>>

SyscallsNext == \E number \in CallNumber : SyscallHandler(number)

SyscallsSpec == SyscallsInit /\ [][SyscallsNext]_sysVars

-----------------------------------------------------------------------------
Process == [pid : Nat, active : BOOLEAN, memory : {"null", "stray"}]

SyscallsTypeOK ==
  /\ file_table \in [Fd -> {"null", "file"}]
  /\ process_table \in [Slot -> Process]
  /\ next_pid \in Nat \ {0} /\ heap_end \in Int /\ ret \in Int
  /\ halted \in BOOLEAN /\ strayed \in BOOLEAN /\ kills \in BOOLEAN

\* fork uses a pid as an index and never compares it with MAX_PROCESSES.  As
\* long as no process was killed this stays inside the table, even for the
\* call that finds the table full; and whatever happened, two slots never
\* have the same process, so kill stops the one it names.
StrayForkNeedsKill ==
  /\ strayed => kills
  /\ \A i, j \in Slot : i # j /\ process_table[i].pid # 0 =>
       process_table[i].pid # process_table[j].pid
=============================================================================
