------------------------------ MODULE Services ------------------------------
(***************************************************************************)
(* The parts of the two kernels that share no state with one another, side *)
(* by side: the interrupts at boot, the disk driver and the rest of boot,  *)
(* printf, the calculator, the picture viewer, and of the C kernel the     *)
(* scheduling simulation and the tables of the system calls.  A behaviour  *)
(* is one of a single part, chosen at the start; the others keep their     *)
(* initial states.                                                         *)
(***************************************************************************)
EXTENDS Scheduler, Syscalls, Calculator, Printf, Picture, AtaDisk, Interrupts

VARIABLE part

Parts == {"scheduler", "syscalls", "calculator", "printf", "picture", "disk",
          "interrupts"}

vars == <<schedVars, sysVars, calcVars, printfVars, pictureVars, diskVars,
          intVars, part>>

\* What is in the drive is a choice for the disk's part alone.
Init ==
  /\ part \in Parts
  /\ SchedInit /\ SyscallsInit /\ CalcInit /\ PrintfInit /\ PictureInit
  /\ DiskInit /\ IntInit
  /\ part # "disk" => medium = CHOOSE m \in Media : TRUE

OfScheduler(A) ==
  /\ part = "scheduler" /\ A
  /\ UNCHANGED <<sysVars, calcVars, printfVars, pictureVars, diskVars, intVars,
                 part>>
OfSyscalls(A) ==
  /\ part = "syscalls" /\ A
  /\ UNCHANGED <<schedVars, calcVars, printfVars, pictureVars, diskVars,
                 intVars, part>>
OfCalculator(A) ==
  /\ part = "calculator" /\ A
  /\ UNCHANGED <<schedVars, sysVars, printfVars, pictureVars, diskVars, intVars,
                 part>>
OfPrintf(A) ==
  /\ part = "printf" /\ A
  /\ UNCHANGED <<schedVars, sysVars, calcVars, pictureVars, diskVars, intVars,
                 part>>
OfPicture(A) ==
  /\ part = "picture" /\ A
  /\ UNCHANGED <<schedVars, sysVars, calcVars, printfVars, diskVars, intVars,
                 part>>
OfDisk(A) ==
  /\ part = "disk" /\ A
  /\ UNCHANGED <<schedVars, sysVars, calcVars, printfVars, pictureVars, intVars,
                 part>>
OfInterrupts(A) ==
  /\ part = "interrupts" /\ A
  /\ UNCHANGED <<schedVars, sysVars, calcVars, printfVars, pictureVars,
                 diskVars, part>>

Next ==
  \/ OfScheduler(SchedNext)
  \/ OfSyscalls(SyscallsNext)
  \/ OfCalculator(CalcNext)
  \/ OfPrintf(PrintfNext)
  \/ OfPicture(PictureNext)
  \/ OfDisk(DiskNext)
  \/ OfInterrupts(IntNext)

\* The fairness of the scheduler, of the disk, and of the processor with the
\* keyboard controller, for these variables.
Fairness ==
  /\ WF_vars(OfScheduler(SchedStep))
  /\ WF_vars(OfDisk(Execute)) /\ WF_vars(OfDisk(Drive))
  /\ WF_vars(OfInterrupts(Processor)) /\ WF_vars(OfInterrupts(Fill))

Spec == Init /\ [][Next]_vars /\ Fairness

-----------------------------------------------------------------------------
\* Types, and the bounds of the arrays the code indexes without a check.
TypeOK ==
  /\ part \in Parts
  /\ SchedTypeOK /\ SyscallsTypeOK /\ CalcTypeOK /\ PrintfTypeOK
  /\ PictureTypeOK /\ DiskTypeOK /\ IntTypeOK
=============================================================================
