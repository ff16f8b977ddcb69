------------------------------ MODULE Interrupts ------------------------------
(***************************************************************************)
(* How an interrupt gets to its routine (src/1.2/descriptors/idt.cpp and   *)
(* idt_flush.s), and what main does to the keyboard controller while keys  *)
(* and the mouse already interrupt it (keyboard.cpp, mouse.cpp, timer.cpp  *)
(* as kernel.cpp calls them).                                              *)
(*                                                                         *)
(* The two interrupt controllers and the keyboard controller are external. *)
(* They behave as those of the emulator the Makefile starts: a port access *)
(* is answered, and an interrupt it raises is taken, before the next       *)
(* instruction; the data port of an empty buffer shows the last byte again.*)
(*                                                                         *)
(* A byte is the set of those bits of it that mean something in the        *)
(* controller's command byte.                                              *)
(***************************************************************************)
EXTENDS Integers, Sequences

CONSTANTS
  KeyByte,       \* the scan codes of the keys, as bytes
  MaxPresses,    \* bound: keys pressed
  MaxMoves,      \* bound: bytes of mouse packets
  MaxTicks       \* bound: ticks of the timer

Bit == {"irq1", "irq12", "off"}   \* 0x01, 0x02, 0x10 of the command byte
ASSUME KeyByteAssumption == KeyByte \subseteq SUBSET Bit /\ KeyByte # {}

Ack == {"irq12", "off"}           \* 0xFA
Packet == {"irq12"}               \* a byte of a mouse packet

VARIABLES
  at,            \* main: the next statement of Boot
  routines,      \* irq_routines: the interrupts that have one
  cpu,           \* <<>> in main, or <<irq, how far its handler is>>
  requested,     \* external: interrupts raised and not yet taken
  inService,     \* external: interrupts taken and not yet ended
  buffer,        \* external: the output buffer: <<>> or <<[from, byte]>>
  last,          \* external: the byte the data port shows
  waiting,       \* external: bytes that wait for the buffer, per source
  command,       \* external: the command byte
  target,        \* external: who gets the next byte main writes
  status,        \* the local variable of enable_mouse
  early,         \* history: a device sent a byte before anyone waited for it
  presses, moves, ticks

controller == <<buffer, last, waiting, command, target>>
pic == <<requested, inService>>
counts == <<presses, moves, ticks>>
intVars == <<at, routines, cpu, pic, controller, status, early, counts>>

Source == {"keyboard", "mouse", "controller"}

\* IDT::init, Keyboard::init, Mouse::init with enable_mouse, Timer::init and
\* Timer::terminate, from the first instruction with interrupts on.
Boot == <<"install 1",
          "read command byte", "in status", "write command byte", "out status",
          "to mouse", "out", "in", "to mouse", "out", "in",
          "to mouse", "out enable", "in", "install 12",
          "install 0", "clear 0">>
Before(statement) == at <= CHOOSE k \in DOMAIN Boot : Boot[k] = statement

IntInit ==
  /\ at = 1 /\ routines = {} /\ cpu = <<>>
  /\ requested = {} /\ inService = {}
  /\ buffer = <<>> /\ last = {} /\ waiting = [s \in Source |-> <<>>]
  /\ command = {"irq1"} /\ target = "keyboard"
  /\ status = {} /\ early = FALSE
  /\ presses = 0 /\ moves = 0 /\ ticks = 0

-----------------------------------------------------------------------------
(* The keyboard controller and the devices.                                *)

Sends(s, byte) == waiting' = [waiting EXCEPT ![s] = Append(@, byte)]

HasByte(s) == waiting[s] # <<>> /\ (s = "keyboard" => "off" \notin command)
CanFill == buffer = <<>> /\ \E s \in Source : HasByte(s)

\* The next byte goes into the buffer, and an interrupt is raised.
Fill ==
  /\ buffer = <<>>
  /\ \E s \in {t \in Source : HasByte(t)} :
       LET irq == IF s = "mouse" THEN 12 ELSE 1
           on == IF s = "mouse" THEN "irq12" ELSE "irq1"
       IN  /\ buffer' = <<Head(waiting[s])>>
           /\ last' = Head(waiting[s])
           /\ waiting' = [waiting EXCEPT ![s] = Tail(@)]
           /\ requested' = requested \cup (IF on \in command THEN {irq} ELSE {})
  /\ UNCHANGED <<at, routines, cpu, inService, command, target, status, early,
                 counts>>

\* A read of port 0x60.
Take == buffer' = <<>> /\ UNCHANGED <<last, waiting, command, target>>

Press ==
  /\ presses < MaxPresses /\ presses' = presses + 1
  /\ \E byte \in KeyByte : Sends("keyboard", byte)
  /\ early' = (early \/ Before("in status"))
  /\ UNCHANGED <<at, routines, cpu, pic, buffer, last, command, target, status,
                 moves, ticks>>

\* The mouse moves: it sends once main has enabled it.
MouseMoves ==
  /\ moves < MaxMoves /\ moves' = moves + 1
  /\ ~Before("out enable")
  /\ Sends("mouse", Packet)
  /\ early' = (early \/ Before("install 12"))
  /\ UNCHANGED <<at, routines, cpu, pic, buffer, last, command, target, status,
                 presses, ticks>>

Tick ==
  /\ ticks < MaxTicks /\ ticks' = ticks + 1
  /\ requested' = requested \cup {0}
  /\ UNCHANGED <<at, routines, cpu, inService, controller, status, early,
                 presses, moves>>

-----------------------------------------------------------------------------
(* The interrupt controllers and the handlers.                             *)

\* The slave hangs on line 2 of the master.
Line(irq) == IF irq >= 8 THEN 2 ELSE irq
Taken(irq) == IF irq >= 8 THEN {2, irq} ELSE {irq}
Deliverable(irq) ==
  /\ irq \in requested
  /\ \A s \in inService : s < 8 => Line(irq) < s
  /\ \A s \in inService : s >= 8 => irq < s

\* Interrupts are off in a handler; the gate turns them off, IRET on again.
Interrupt ==
  /\ cpu = <<>> /\ ~CanFill
  /\ \E irq \in {q \in requested : Deliverable(q)} :
       /\ \A q \in requested : Deliverable(q) => irq <= q
       /\ requested' = requested \ {irq}
       /\ inService' = inService \cup Taken(irq)
       /\ cpu' = <<irq, IF irq \in routines THEN "routine" ELSE "end">>
  /\ UNCHANGED <<at, routines, controller, status, early, counts>>

\* The routines: the keyboard's reads the port twice, the mouse's once, the
\* timer's counts.
Routine ==
  /\ cpu # <<>> /\ ~CanFill
  /\ \/ cpu[2] = "routine" /\ cpu[1] = 0 /\ UNCHANGED controller
     \/ cpu[2] = "routine" /\ cpu[1] # 0 /\ Take
     \/ cpu[2] = "again" /\ Take
  /\ cpu' = <<cpu[1], IF cpu = <<1, "routine">> THEN "again" ELSE "end">>
  /\ UNCHANGED <<at, routines, pic, status, early, counts>>

\* Mutant of Ended: the master is not told of the slave's interrupts.
EndedOnce(irq) ==
  IF irq >= 40 - 32 THEN inService \ {irq}
  ELSE {s \in inService : \E q \in inService : q < s}
\* The end of an interrupt, told to the slave and to the master, which takes
\* it for the first one in service.
Ended(irq) ==
  LET left == IF irq >= 40 - 32 THEN inService \ {irq} ELSE inService
  IN  {s \in left : \E q \in left : q < s}

\* handle_irq after the routine, and the return from the interrupt.
EndOfInterrupt ==
  /\ cpu # <<>> /\ cpu[2] = "end" /\ ~CanFill
  /\ inService' = Ended(cpu[1])
  /\ cpu' = <<>>
  /\ UNCHANGED <<at, routines, requested, controller, status, early, counts>>

-----------------------------------------------------------------------------
(* main.                                                                   *)

\* irq_install_handler, clear_irq_handler
NextRoutines(statement) ==
  CASE statement = "install 0"  -> routines \cup {0}
    [] statement = "install 1"  -> routines \cup {1}
    [] statement = "install 12" -> routines \cup {12}
    [] statement = "clear 0"    -> routines \ {0}
    [] OTHER -> routines

\* Writes to the ports 0x64 and 0x60.
Write(statement) ==
  \/ /\ statement = "read command byte"
     /\ Sends("controller", command) /\ UNCHANGED <<command, target>>
  \/ /\ statement = "write command byte" /\ target' = "command byte"
     /\ UNCHANGED <<waiting, command>>
  \/ /\ statement = "to mouse" /\ target' = "mouse"
     /\ UNCHANGED <<waiting, command>>
  \/ /\ statement = "out status" /\ command' = status \cup {"irq12"}
     /\ target' = "keyboard" /\ UNCHANGED waiting
  \/ /\ statement \in {"out", "out enable"} /\ Sends("mouse", Ack)
     /\ target' = "keyboard" /\ UNCHANGED command

\* No wait for the controller anywhere.
MainRuns ==
  /\ cpu = <<>> /\ at \in DOMAIN Boot
  /\ ~CanFill /\ ~\E q \in requested : Deliverable(q)
  /\ at' = at + 1
  /\ routines' = NextRoutines(Boot[at])
  /\ \/ Write(Boot[at]) /\ UNCHANGED <<buffer, last, status>>
     \/ Boot[at] = "in status" /\ status' = last /\ Take
     \/ Boot[at] = "in" /\ UNCHANGED status /\ Take
     \/ /\ Boot[at] \in {"install 0", "install 1", "install 12", "clear 0"}
        /\ UNCHANGED <<controller, status>>
  /\ UNCHANGED <<cpu, pic, early, counts>>

Processor == MainRuns \/ Interrupt \/ Routine \/ EndOfInterrupt

IntNext == Processor \/ Fill \/ Press \/ MouseMoves \/ Tick

IntTypeOK ==
  /\ at \in 1 .. Len(Boot) + 1 /\ routines \subseteq {0, 1, 12}
  /\ requested \subseteq {0, 1, 12} /\ inService \subseteq {0, 1, 2, 12}
  /\ Len(buffer) <= 1 /\ last \subseteq Bit /\ command \subseteq Bit
  /\ status \subseteq Bit /\ early \in BOOLEAN

\* The keyboard and the mouse are never cut off: a byte in the one output
\* buffer they share is read, be it by a routine or by main, so that the next
\* one can come and interrupt.  Except when a key is pressed before main has
\* read the command byte, which main then takes for it, or when the mouse moves
\* before its routine is installed: then its byte stays there for ever.
InputServed == buffer # <<>> ~> buffer = <<>> \/ early
=============================================================================
