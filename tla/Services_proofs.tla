--------------------------- MODULE Services_proofs ---------------------------
(***************************************************************************)
(* Interrupts at boot and the calculator's line, and what the other parts  *)
(* promise, carried over from their own specifications to this one; and    *)
(* the types of all of them.                                               *)
(***************************************************************************)
EXTENDS Services, Parts_proofs, Disk_proofs

-----------------------------------------------------------------------------
(***************************************************************************)
(* The statements of Boot, by number.                                      *)
(***************************************************************************)
LEMMA Statements ==
  /\ DOMAIN Boot = 1 .. 17
  /\ Boot[1] = "install 1" /\ Boot[2] = "read command byte" /\ Boot[3] = "in status"
  /\ Boot[4] = "write command byte" /\ Boot[5] = "out status"
  /\ Boot[6] = "to mouse" /\ Boot[7] = "out" /\ Boot[8] = "in"
  /\ Boot[9] = "to mouse" /\ Boot[10] = "out" /\ Boot[11] = "in"
  /\ Boot[12] = "to mouse" /\ Boot[13] = "out enable" /\ Boot[14] = "in"
  /\ Boot[15] = "install 12" /\ Boot[16] = "install 0" /\ Boot[17] = "clear 0"
BY DEF Boot

LEMMA Positions ==
  /\ Before("in status") <=> at <= 3
  /\ Before("out enable") <=> at <= 13
  /\ Before("install 12") <=> at <= 15
<1>0. DOMAIN Boot = 1 .. 17
  BY Statements, Zenon
<1>1. ASSUME NEW k \in DOMAIN Boot
      PROVE  /\ Boot[k] = "in status" => k = 3
             /\ Boot[k] = "out enable" => k = 13
             /\ Boot[k] = "install 12" => k = 15
  <2>1. \/ k = 1 \/ k = 2 \/ k = 3 \/ k = 4 \/ k = 5 \/ k = 6 \/ k = 7 \/ k = 8 \/ k = 9
        \/ k = 10 \/ k = 11 \/ k = 12 \/ k = 13 \/ k = 14 \/ k = 15 \/ k = 16 \/ k = 17
    BY <1>0
  <2> QED BY <2>1, Statements
<1>2. 3 \in DOMAIN Boot /\ 13 \in DOMAIN Boot /\ 15 \in DOMAIN Boot
  BY <1>0
<1>3. (CHOOSE k \in DOMAIN Boot : Boot[k] = "in status") = 3
  BY <1>1, <1>2, Statements, Zenon
<1>4. (CHOOSE k \in DOMAIN Boot : Boot[k] = "out enable") = 13
  BY <1>1, <1>2, Statements, Zenon
<1>5. (CHOOSE k \in DOMAIN Boot : Boot[k] = "install 12") = 15
  BY <1>1, <1>2, Statements, Zenon
<1> QED BY <1>3, <1>4, <1>5 DEF Before

-----------------------------------------------------------------------------
(***************************************************************************)
(* Interrupts.                                                             *)
(***************************************************************************)
Irq == {0, 1, 12}
Bytes == Seq(SUBSET Bit)

IntTypes ==
  /\ at \in 1 .. 18 /\ routines \subseteq Irq /\ requested \subseteq Irq
  /\ \/ cpu = <<>>
     \/ \E irq \in Irq, x \in {"routine", "again", "end"} : cpu = <<irq, x>>
  /\ buffer \in Bytes /\ Len(buffer) <= 1 /\ waiting \in [Source -> Bytes]
  /\ last \subseteq Bit /\ command \subseteq Bit /\ status \subseteq Bit
  /\ early \in BOOLEAN

\* In a handler its own interrupt is in service, at one controller or at both,
\* and out of it none is: the end of an interrupt is told to whoever waits
\* for it.
EndsWhatItTakes ==
  inService = IF cpu = <<>> THEN {} ELSE Taken(cpu[1])

Installed == (at >= 2 => 1 \in routines) /\ (at >= 16 => 12 \in routines)

\* The keyboard's routine is going to read the port.
KeyboardReads == 1 \in requested \/ cpu \in {<<1, "routine">>, <<1, "again">>}

\* main reads the command byte, and writes it back with the mouse's bit.
CommandByteKept ==
  /\ at <= 2 => waiting["controller"] = <<>> /\ buffer = <<>>
  /\ at <= 3 => waiting["keyboard"] = <<>>
  /\ at = 3 => \/ waiting["controller"] = <<{"irq1"}>> /\ buffer = <<>>
               \/ waiting["controller"] = <<>> /\ last = {"irq1"}
  /\ at \in 4 .. 5 => status = {"irq1"}
  /\ command = IF at <= 5 THEN {"irq1"} ELSE {"irq1", "irq12"}

\* While the mouse has no routine, main reads what it sends: one byte at a time,
\* in the statements 8, 11 and 14.
MouseAnswered ==
  /\ at <= 15 => waiting["mouse"] \in {<<>>, <<Ack>>}
  /\ at <= 15 /\ at \notin {8, 11, 14} =>
       waiting["mouse"] = <<>> /\ (buffer # <<>> => KeyboardReads)
  /\ at <= 15 /\ waiting["mouse"] # <<>> /\ buffer # <<>> => KeyboardReads
  /\ at >= 16 /\ buffer # <<>> =>
       KeyboardReads \/ 12 \in requested \/ cpu = <<12, "routine">>

IntInv ==
  /\ IntTypes /\ EndsWhatItTakes /\ Installed
  /\ ~early => CommandByteKept /\ MouseAnswered

LEMMA IntStarts == IntInit => IntInv
<1> SUFFICES ASSUME IntInit PROVE IntInv
  OBVIOUS
<1>1. /\ buffer = <<>> /\ <<>> \in Bytes /\ Len(<<>>) = 0
      /\ waiting \in [Source -> Bytes] /\ \A s \in Source : waiting[s] = <<>>
      /\ "mouse" \in Source /\ "keyboard" \in Source /\ "controller" \in Source
  BY DEF IntInit, Bytes, Source
<1>2. /\ at = 1 /\ routines = {} /\ requested = {} /\ inService = {} /\ cpu = <<>>
      /\ last = {} /\ status = {} /\ command = {"irq1"} /\ early \in BOOLEAN
  BY DEF IntInit
<1>3. IntTypes
  <2>1. Len(buffer) <= 1
    BY <1>1
  <2> QED BY <1>1, <1>2, <2>1 DEF IntTypes, Bit
<1>4. EndsWhatItTakes /\ Installed
  BY <1>2 DEF EndsWhatItTakes, Installed
<1>5. CommandByteKept /\ MouseAnswered
  BY <1>1, <1>2 DEF CommandByteKept, MouseAnswered
<1> QED BY <1>3, <1>4, <1>5 DEF IntInv

\* A byte more for the controller to show.
LEMMA SendsEffect ==
  ASSUME IntTypes, NEW s \in Source, NEW byte \in SUBSET Bit, Sends(s, byte)
  PROVE  /\ waiting' \in [Source -> Bytes]
         /\ waiting'[s] = Append(waiting[s], byte)
         /\ \A t \in Source \ {s} : waiting'[t] = waiting[t]
<1>1. waiting \in [Source -> Bytes] /\ waiting[s] \in Bytes
  BY DEF IntTypes
<1>2. Append(waiting[s], byte) \in Bytes
  BY <1>1, AppendProperties DEF Bytes
<1> HIDE DEF Bytes
<1>3. waiting' = [waiting EXCEPT ![s] = Append(waiting[s], byte)]
  BY DEF Sends
<1> DEFINE more == Append(waiting[s], byte)
<1> HIDE DEF more
<1>4. waiting' = [waiting EXCEPT ![s] = more] /\ more \in Bytes
  BY <1>2, <1>3 DEF more
<1>5. /\ waiting' \in [Source -> Bytes] /\ waiting'[s] = more
      /\ \A t \in Source \ {s} : waiting'[t] = waiting[t]
  BY <1>1, <1>4
<1> QED BY <1>5 DEF more

\* The controller fills its buffer.
LEMMA FillKeeps ==
  ASSUME IntInv, Fill
  PROVE  IntInv'
<1>1. PICK s \in Source :
        /\ HasByte(s) /\ buffer' = <<Head(waiting[s])>> /\ last' = Head(waiting[s])
        /\ waiting' = [waiting EXCEPT ![s] = Tail(@)]
        /\ requested' = requested \cup
             (IF (IF s = "mouse" THEN "irq12" ELSE "irq1") \in command
              THEN {IF s = "mouse" THEN 12 ELSE 1} ELSE {})
  BY DEF Fill
<1>2. /\ buffer = <<>>
      /\ UNCHANGED <<at, routines, cpu, inService, command, target, status, early>>
  BY DEF Fill, counts
<1>3. IntTypes
  BY DEF IntInv
<1>4. /\ waiting[s] \in Seq(SUBSET Bit) /\ waiting[s] # <<>>
  BY <1>1, <1>3 DEF IntTypes, HasByte, Bytes
<1>5. Head(waiting[s]) \in SUBSET Bit /\ Tail(waiting[s]) \in Bytes
  BY <1>4, HeadTailProperties DEF Bytes
<1>6. /\ waiting' \in [Source -> Bytes] /\ waiting'[s] = Tail(waiting[s])
      /\ \A t \in Source \ {s} : waiting'[t] = waiting[t]
  <2> DEFINE less == Tail(waiting[s])
  <2>1. waiting' = [waiting EXCEPT ![s] = less] /\ waiting \in [Source -> Bytes]
        /\ less \in Bytes
    BY <1>1, <1>3, <1>5 DEF IntTypes
  <2> HIDE DEF less
  <2>2. /\ waiting' \in [Source -> Bytes] /\ waiting'[s] = less
        /\ \A t \in Source \ {s} : waiting'[t] = waiting[t]
    BY <2>1
  <2> QED BY <2>2 DEF less
<1>7. IntTypes'
  <2> DEFINE b == Head(waiting[s])
  <2>1. b \in SUBSET Bit /\ buffer' = <<b>> /\ last' = b
    BY <1>1, <1>5
  <2> HIDE DEF b
  <2>2. buffer' \in Bytes /\ Len(buffer') = 1
    BY <2>1 DEF Bytes
  <2>3. requested' \subseteq Irq
    BY <1>1, <1>3 DEF IntTypes, Irq
  <2> QED BY <1>2, <1>3, <1>6, <2>1, <2>2, <2>3 DEF IntTypes
<1>8. EndsWhatItTakes' /\ Installed'
  BY <1>2 DEF IntInv, EndsWhatItTakes, Installed
<1>9. ASSUME ~early PROVE CommandByteKept' /\ MouseAnswered'
  <2>1. CommandByteKept /\ MouseAnswered /\ early' = early
    BY <1>2, <1>9 DEF IntInv
  <2>2. "irq1" \in command
    BY <2>1 DEF CommandByteKept
  <2>3. at > 2 /\ (at <= 3 => s # "keyboard")
    BY <1>3, <1>4, <2>1 DEF IntTypes, CommandByteKept, MouseAnswered, Source
  <2>4. CASE s = "mouse"
    <3>1. at >= 7
      BY <1>3, <1>4, <2>1, <2>4 DEF IntTypes, MouseAnswered
    <3>2. CommandByteKept'
      BY <1>2, <1>3, <2>1, <3>1 DEF IntTypes, CommandByteKept
    <3>3. 12 \in requested'
      <4>1. "irq12" \in command
        BY <1>3, <2>1, <3>1 DEF IntTypes, CommandByteKept
      <4> QED BY <1>1, <2>4, <4>1
    <3>4. at <= 15 => waiting[s] = <<Ack>> /\ at \in {8, 11, 14}
      BY <1>4, <2>1, <2>4 DEF MouseAnswered
    <3>5. at <= 15 => waiting'["mouse"] = <<>>
      <4>1. Tail(<<Ack>>) = <<>>
        OBVIOUS
      <4> QED BY <1>6, <2>4, <3>4, <4>1
    <3>6. MouseAnswered'
      BY <1>2, <3>3, <3>4, <3>5 DEF MouseAnswered
    <3> QED BY <3>2, <3>6
  <2>5. CASE s # "mouse"
    <3>1. 1 \in requested' /\ waiting'["mouse"] = waiting["mouse"]
      BY <1>1, <1>6, <2>2, <2>5 DEF Source
    <3>2. KeyboardReads'
      BY <3>1 DEF KeyboardReads
    <3>3. MouseAnswered'
      BY <1>2, <2>1, <3>1, <3>2 DEF MouseAnswered
    <3>4. at <= 3 => waiting'["keyboard"] = waiting["keyboard"]
      BY <1>6, <2>3 DEF Source
    <3>5. at = 3 => waiting'["controller"] = <<>> /\ last' = {"irq1"}
      <4> SUFFICES ASSUME at = 3 PROVE waiting'["controller"] = <<>> /\ last' = {"irq1"}
        OBVIOUS
      <4>1. s = "controller"
        BY <2>3, <2>5 DEF Source
      <4>2. waiting[s] = <<{"irq1"}>>
        BY <1>4, <2>1, <4>1 DEF CommandByteKept
      <4>3. Tail(<<{"irq1"}>>) = <<>> /\ Head(<<{"irq1"}>>) = {"irq1"}
        OBVIOUS
      <4> QED BY <1>1, <1>6, <4>1, <4>2, <4>3
    <3>6. CommandByteKept'
      BY <1>2, <1>3, <2>1, <2>3, <3>4, <3>5 DEF IntTypes, CommandByteKept
    <3> QED BY <3>3, <3>6
  <2> QED BY <2>4, <2>5
<1> QED BY <1>2, <1>7, <1>8, <1>9 DEF IntInv

\* A device or the timer.
LEMMA PressKeeps ==
  ASSUME IntInv, Press
  PROVE  IntInv'
<1>1. PICK byte \in KeyByte : Sends("keyboard", byte)
  BY DEF Press
<1>2. byte \in SUBSET Bit /\ "keyboard" \in Source /\ "mouse" \in Source \ {"keyboard"}
  BY KeyByteAssumption DEF Source
<1>3. /\ UNCHANGED <<at, routines, cpu, requested, inService, buffer, last, command, status>>
      /\ early' = (early \/ Before("in status"))
  BY DEF Press, pic
<1>4. IntTypes
  BY DEF IntInv
<1>5. early' \in BOOLEAN
  BY <1>3
<1>6. waiting' \in [Source -> Bytes] /\ waiting'["mouse"] = waiting["mouse"]
  BY <1>1, <1>2, <1>4, SendsEffect
<1>7. IntTypes'
  BY <1>3, <1>4, <1>5, <1>6 DEF IntTypes
<1>8. EndsWhatItTakes' /\ Installed'
  BY <1>3 DEF IntInv, EndsWhatItTakes, Installed
<1>9. ASSUME ~early' PROVE CommandByteKept' /\ MouseAnswered'
  <2>1. ~early /\ ~Before("in status")
    BY <1>3, <1>9
  <2>2. ~(at <= 3)
    BY <2>1, Positions
  <2>3. CommandByteKept /\ MouseAnswered
    BY <2>1 DEF IntInv
  <2>4. at' = at /\ at \in 4 .. 18
    <3>1. at \in 1 .. 18
      BY <1>4 DEF IntTypes
    <3>2. at \in 4 .. 18
      BY <2>2, <3>1
    <3> QED BY <1>3, <3>2
  <2>5. CommandByteKept'
    <3>1. ~(at <= 2) /\ ~(at <= 3) /\ at # 3 /\ (at \in 4 .. 5 <=> at' \in 4 .. 5)
      BY <2>4
    <3>2. UNCHANGED <<status, command>> /\ at' = at
      BY <1>3
    <3> QED BY <2>3, <3>1, <3>2 DEF CommandByteKept
  <2>6. KeyboardReads' <=> KeyboardReads
    BY <1>3 DEF KeyboardReads
  <2>7. MouseAnswered'
    BY <1>3, <1>6, <2>3, <2>6 DEF MouseAnswered
  <2> QED BY <2>5, <2>7
<1> QED BY <1>7, <1>8, <1>9 DEF IntInv

LEMMA MovesKeep ==
  ASSUME IntInv, MouseMoves
  PROVE  IntInv'
<1>1. Sends("mouse", Packet) /\ Packet \in SUBSET Bit /\ "mouse" \in Source
  BY DEF MouseMoves, Packet, Bit, Source
<1>2. /\ UNCHANGED <<at, routines, cpu, requested, inService, buffer, last, command, status>>
      /\ early' = (early \/ Before("install 12"))
  BY DEF MouseMoves, pic
<1>3. IntTypes
  BY DEF IntInv
<1>4. early' \in BOOLEAN
  BY <1>2
<1>5. waiting' \in [Source -> Bytes]
  BY <1>1, <1>3, SendsEffect
<1>6. IntTypes'
  BY <1>2, <1>3, <1>4, <1>5 DEF IntTypes
<1>7. EndsWhatItTakes' /\ Installed'
  BY <1>2 DEF IntInv, EndsWhatItTakes, Installed
<1>8. ASSUME ~early' PROVE CommandByteKept' /\ MouseAnswered'
  <2>1. ~early /\ ~Before("install 12")
    BY <1>2, <1>8
  <2>2. ~(at <= 15)
    BY <2>1, Positions
  <2>3. CommandByteKept /\ MouseAnswered
    BY <2>1 DEF IntInv
  <2>4. at' = at /\ at \in 16 .. 18
    <3>1. at \in 1 .. 18
      BY <1>3 DEF IntTypes
    <3>2. at \in 16 .. 18
      BY <2>2, <3>1
    <3> QED BY <1>2, <3>2
  <2>5. CommandByteKept'
    <3>1. ~(at <= 2) /\ ~(at <= 3) /\ at # 3 /\ (at \in 4 .. 5 <=> at' \in 4 .. 5)
      BY <2>4
    <3>2. UNCHANGED <<status, command>> /\ at' = at
      BY <1>2
    <3> QED BY <2>3, <3>1, <3>2 DEF CommandByteKept
  <2>6. KeyboardReads' <=> KeyboardReads
    BY <1>2 DEF KeyboardReads
  <2>7. MouseAnswered'
    <3>1. ~(at <= 15) /\ at >= 16
      BY <2>4
    <3>2. UNCHANGED <<at, buffer, requested, cpu>>
      BY <1>2
    <3> QED BY <2>3, <2>6, <3>1, <3>2 DEF MouseAnswered
  <2> QED BY <2>5, <2>7
<1> QED BY <1>6, <1>7, <1>8 DEF IntInv

LEMMA TickKeeps ==
  ASSUME IntInv, Tick
  PROVE  IntInv'
<1>1. /\ requested' = requested \cup {0}
      /\ UNCHANGED <<at, routines, cpu, inService, buffer, last, waiting, command, status, early>>
  BY DEF Tick, controller
<1>2. IntTypes' /\ EndsWhatItTakes' /\ Installed'
  BY <1>1 DEF IntInv, IntTypes, Irq, EndsWhatItTakes, Installed
<1>3. /\ KeyboardReads => KeyboardReads'
      /\ 12 \in requested => 12 \in requested'
  BY <1>1 DEF KeyboardReads
<1>4. CommandByteKept => CommandByteKept'
  BY <1>1 DEF CommandByteKept
<1>5. MouseAnswered => MouseAnswered'
  BY <1>1, <1>3 DEF MouseAnswered
<1> QED BY <1>1, <1>2, <1>4, <1>5 DEF IntInv

\* Out of a handler nothing is in service, so every interrupt raised is let in.
LEMMA LetIn ==
  ASSUME IntInv, cpu = <<>>
  PROVE  inService = {} /\ \A q \in requested : Deliverable(q)
BY DEF IntInv, EndsWhatItTakes, Deliverable

LEMMA InterruptKeeps ==
  ASSUME IntInv, Interrupt
  PROVE  IntInv'
<1>1. PICK irq \in requested :
        /\ requested' = requested \ {irq} /\ inService' = inService \cup Taken(irq)
        /\ cpu' = <<irq, IF irq \in routines THEN "routine" ELSE "end">>
  BY DEF Interrupt
<1>2. /\ cpu = <<>> /\ inService = {}
      /\ UNCHANGED <<at, routines, buffer, last, waiting, command, status, early>>
  BY LetIn DEF Interrupt, controller
<1>3. IntTypes /\ Installed
  BY DEF IntInv
<1>4. irq \in Irq
  BY <1>3 DEF IntTypes
<1>5. IntTypes'
  <2>1. cpu' = <<irq, "routine">> \/ cpu' = <<irq, "end">>
    BY <1>1
  <2>2. \E q \in Irq, x \in {"routine", "again", "end"} : cpu' = <<q, x>>
    BY <1>4, <2>1
  <2>3. requested' \subseteq Irq
    BY <1>1, <1>3 DEF IntTypes
  <2> QED BY <1>2, <1>3, <2>2, <2>3 DEF IntTypes
<1>6. EndsWhatItTakes'
  <2>1. cpu' # <<>> /\ cpu'[1] = irq
    BY <1>1
  <2> QED BY <1>1, <1>2, <2>1 DEF EndsWhatItTakes
<1>7. Installed'
  BY <1>2, <1>3 DEF Installed
<1>8. ASSUME ~early PROVE CommandByteKept' /\ MouseAnswered'
  <2>1. CommandByteKept /\ MouseAnswered
    BY <1>8 DEF IntInv
  <2>2. CommandByteKept'
    BY <1>2, <2>1 DEF CommandByteKept
  <2>3. KeyboardReads => 1 \in requested
    BY <1>2 DEF KeyboardReads
  <2>4. ASSUME KeyboardReads, at >= 2 PROVE KeyboardReads'
    <3>1. CASE irq = 1
      BY <1>1, <1>3, <2>4, <3>1 DEF Installed, KeyboardReads
    <3>2. CASE irq # 1
      BY <1>1, <2>3, <2>4, <3>2 DEF KeyboardReads
    <3> QED BY <3>1, <3>2
  <2>5. ASSUME 12 \in requested, at >= 16 PROVE 12 \in requested' \/ cpu' = <<12, "routine">>
    BY <1>1, <1>3, <2>5 DEF Installed
  <2>6. buffer # <<>> => at >= 2
    BY <1>3, <2>1 DEF IntTypes, CommandByteKept
  <2>7. cpu # <<12, "routine">>
    BY <1>2
  <2>8. MouseAnswered'
    BY <1>2, <1>3, <2>1, <2>4, <2>5, <2>6, <2>7 DEF IntTypes, MouseAnswered
  <2> QED BY <2>2, <2>8
<1> QED BY <1>2, <1>5, <1>6, <1>7, <1>8 DEF IntInv

\* A read of the port leaves nothing in the buffer that would have to be read.
LEMMA TakeKeeps ==
  ASSUME Take, UNCHANGED <<at, status>>, CommandByteKept, MouseAnswered
  PROVE  CommandByteKept' /\ MouseAnswered'
<1>1. buffer' = <<>> /\ UNCHANGED <<last, waiting, command>>
  BY DEF Take
<1> QED BY <1>1 DEF CommandByteKept, MouseAnswered

LEMMA RoutineKeeps ==
  ASSUME IntInv, Routine
  PROVE  IntInv'
<1>1. IntTypes /\ cpu # <<>>
  BY DEF IntInv, Routine
<1>2. PICK irq \in Irq, x \in {"routine", "again", "end"} : cpu = <<irq, x>>
  BY <1>1 DEF IntTypes
<1>3. /\ cpu' = <<irq, "again">> \/ cpu' = <<irq, "end">>
      /\ UNCHANGED <<at, routines, requested, inService, status, early>>
  BY <1>2 DEF Routine, pic
<1>4. \/ x = "routine" /\ irq = 0 /\ UNCHANGED controller
      \/ Take
  BY <1>2 DEF Routine
<1>5. buffer' \in {buffer, <<>>} /\ UNCHANGED <<last, waiting, command>>
  BY <1>4 DEF Take, controller
<1>6. IntTypes'
  <2>1. <<>> \in Bytes /\ Len(<<>>) <= 1
    BY DEF Bytes
  <2>2. buffer' \in Bytes /\ Len(buffer') <= 1
    BY <1>1, <1>5, <2>1 DEF IntTypes
  <2>3. \E q \in Irq, y \in {"routine", "again", "end"} : cpu' = <<q, y>>
    BY <1>3
  <2> QED BY <1>1, <1>3, <1>5, <2>2, <2>3 DEF IntTypes
<1>7. EndsWhatItTakes'
  <2>1. cpu[1] = irq /\ cpu'[1] = irq /\ cpu' # <<>>
    BY <1>2, <1>3
  <2> QED BY <1>1, <1>3, <2>1 DEF IntInv, EndsWhatItTakes
<1>8. Installed'
  BY <1>3 DEF IntInv, Installed
<1>9. ASSUME ~early PROVE CommandByteKept' /\ MouseAnswered'
  <2>1. CommandByteKept /\ MouseAnswered
    BY <1>9 DEF IntInv
  <2>2. CASE Take
    BY <1>3, <2>1, <2>2, TakeKeeps
  <2>3. CASE irq = 0 /\ UNCHANGED controller
    <3>1. KeyboardReads => KeyboardReads'
      BY <1>2, <1>3, <2>3 DEF KeyboardReads
    <3>2. cpu # <<12, "routine">>
      BY <1>2, <2>3
    <3>3. UNCHANGED <<buffer, last, waiting, command>>
      BY <2>3 DEF controller
    <3>4. CommandByteKept'
      BY <1>3, <2>1, <3>3 DEF CommandByteKept
    <3>5. MouseAnswered'
      BY <1>3, <2>1, <3>1, <3>2, <3>3 DEF MouseAnswered
    <3> QED BY <3>4, <3>5
  <2> QED BY <1>4, <2>2, <2>3
<1> QED BY <1>3, <1>6, <1>7, <1>8, <1>9 DEF IntInv

\* EndedAll: the ends told to the controllers leave nothing in service.
LEMMA EndedAll ==
  ASSUME NEW irq \in Irq, inService = Taken(irq)
  PROVE  Ended(irq) = {}
<1>1. CASE irq = 12
  <2>1. inService = {2, 12}
    BY <1>1 DEF Taken
  <2> QED BY <1>1, <2>1 DEF Ended
<1>2. CASE irq \in {0, 1}
  <2>1. inService = {irq}
    BY <1>2 DEF Taken
  <2> QED BY <1>2, <2>1 DEF Ended
<1> QED BY <1>1, <1>2 DEF Irq

LEMMA EndKeeps ==
  ASSUME IntInv, EndOfInterrupt
  PROVE  IntInv'
<1>1. IntTypes /\ cpu # <<>>
  BY DEF IntInv, EndOfInterrupt
<1>2. PICK irq \in Irq, x \in {"routine", "again", "end"} : cpu = <<irq, x>>
  BY <1>1 DEF IntTypes
<1>3. /\ x = "end" /\ cpu' = <<>> /\ inService' = Ended(irq)
      /\ UNCHANGED <<at, routines, requested, buffer, last, waiting, command, status, early>>
  BY <1>2 DEF EndOfInterrupt, controller
<1>4. inService' = {}
  BY <1>1, <1>2, <1>3, EndedAll DEF IntInv, EndsWhatItTakes
<1>5. IntTypes' /\ EndsWhatItTakes' /\ Installed'
  BY <1>1, <1>3, <1>4 DEF IntInv, IntTypes, EndsWhatItTakes, Installed
<1>6. cpu # <<12, "routine">> /\ (KeyboardReads => KeyboardReads')
  BY <1>2, <1>3 DEF KeyboardReads
<1>7. CommandByteKept => CommandByteKept'
  BY <1>3 DEF CommandByteKept
<1>8. MouseAnswered => MouseAnswered'
  BY <1>3, <1>6 DEF MouseAnswered
<1> QED BY <1>3, <1>5, <1>7, <1>8 DEF IntInv

\* What main's statements do, by their numbers.
LEMMA MainEffect ==
  ASSUME IntTypes, MainRuns
  PROVE  /\ at \in 1 .. 17 /\ at' = at + 1 /\ cpu = <<>> /\ ~CanFill
         /\ UNCHANGED <<cpu, requested, inService, early>>
         /\ \A q \in requested : ~Deliverable(q)
         /\ at \in {1, 15, 16, 17} =>
              UNCHANGED <<buffer, last, waiting, command, status>>
         /\ at = 2 => /\ Sends("controller", command)
                      /\ UNCHANGED <<buffer, last, command, status>>
         /\ at = 3 => Take /\ status' = last
         /\ at \in {4, 6, 9, 12} => UNCHANGED <<buffer, last, waiting, command, status>>
         /\ at = 5 => /\ command' = status \cup {"irq12"}
                      /\ UNCHANGED <<buffer, last, waiting, status>>
         /\ at \in {7, 10, 13} => /\ Sends("mouse", Ack)
                                  /\ UNCHANGED <<buffer, last, command, status>>
         /\ at \in {8, 11, 14} => Take /\ UNCHANGED status
         /\ routines' = CASE at = 1 -> routines \cup {1}
                          [] at = 15 -> routines \cup {12}
                          [] at = 16 -> routines \cup {0}
                          [] at = 17 -> routines \ {0}
                          [] OTHER -> routines
<1>1. /\ at \in 1 .. 17 /\ at' = at + 1 /\ cpu = <<>> /\ ~CanFill
      /\ UNCHANGED <<cpu, requested, inService, early>>
      /\ \A q \in requested : ~Deliverable(q)
  BY Statements DEF MainRuns, pic
<1>2. routines' = NextRoutines(Boot[at])
  BY DEF MainRuns
<1>3. \/ Write(Boot[at]) /\ UNCHANGED <<buffer, last, status>>
      \/ Boot[at] = "in status" /\ status' = last /\ Take
      \/ Boot[at] = "in" /\ UNCHANGED status /\ Take
      \/ /\ Boot[at] \in {"install 0", "install 1", "install 12", "clear 0"}
         /\ UNCHANGED <<controller, status>>
  BY DEF MainRuns
<1>4. \/ at = 1 \/ at = 2 \/ at = 3 \/ at = 4 \/ at = 5 \/ at = 6 \/ at = 7 \/ at = 8 \/ at = 9
      \/ at = 10 \/ at = 11 \/ at = 12 \/ at = 13 \/ at = 14 \/ at = 15 \/ at = 16 \/ at = 17
  BY <1>1
<1>5. CASE at \in {1, 15, 16, 17}
  <2>1. \/ at = 1 /\ Boot[at] = "install 1"
        \/ at = 15 /\ Boot[at] = "install 12"
        \/ at = 16 /\ Boot[at] = "install 0"
        \/ at = 17 /\ Boot[at] = "clear 0"
    BY <1>5, Statements
  <2>2. UNCHANGED <<buffer, last, waiting, command, status>>
    BY <1>3, <2>1 DEF Write, controller
  <2>3. at = 1 => routines' = routines \cup {1}
    <3>1. at = 1 => Boot[at] = "install 1"
      BY Statements
    <3> QED BY <1>2, <3>1 DEF NextRoutines
  <2>4. at = 15 => routines' = routines \cup {12}
    <3>1. at = 15 => Boot[at] = "install 12"
      BY Statements
    <3> QED BY <1>2, <3>1 DEF NextRoutines
  <2>5. at = 16 => routines' = routines \cup {0}
    <3>1. at = 16 => Boot[at] = "install 0"
      BY Statements
    <3> QED BY <1>2, <3>1 DEF NextRoutines
  <2>6. at = 17 => routines' = routines \ {0}
    <3>1. at = 17 => Boot[at] = "clear 0"
      BY Statements
    <3> QED BY <1>2, <3>1 DEF NextRoutines
  <2> QED BY <1>1, <1>5, <2>2, <2>3, <2>4, <2>5, <2>6
<1>6. CASE at = 2
  <2>1. Boot[at] = "read command byte"
    BY <1>6, Statements
  <2>2. Sends("controller", command) /\ UNCHANGED <<buffer, last, command, status>>
    BY <1>3, <2>1 DEF Write
  <2>3. routines' = routines
    BY <1>2, <2>1 DEF NextRoutines
  <2> QED BY <1>1, <1>6, <2>2, <2>3
<1>7. CASE at = 3
  <2>1. Boot[at] = "in status"
    BY <1>7, Statements
  <2>2. Take /\ status' = last
    BY <1>3, <2>1 DEF Write
  <2>3. routines' = routines
    BY <1>2, <2>1 DEF NextRoutines
  <2> QED BY <1>1, <1>7, <2>2, <2>3
<1>8. CASE at \in {4, 6, 9, 12}
  <2>1. Boot[at] = "write command byte" \/ Boot[at] = "to mouse"
    BY <1>8, Statements
  <2>2. UNCHANGED <<buffer, last, waiting, command, status>>
    BY <1>3, <2>1 DEF Write
  <2>3. routines' = routines
    BY <1>2, <2>1 DEF NextRoutines
  <2> QED BY <1>1, <1>8, <2>2, <2>3
<1>9. CASE at = 5
  <2>1. Boot[at] = "out status"
    BY <1>9, Statements
  <2>2. command' = status \cup {"irq12"} /\ UNCHANGED <<buffer, last, waiting, status>>
    BY <1>3, <2>1 DEF Write
  <2>3. routines' = routines
    BY <1>2, <2>1 DEF NextRoutines
  <2> QED BY <1>1, <1>9, <2>2, <2>3
<1>10. CASE at \in {7, 10, 13}
  <2>1. Boot[at] = "out" \/ Boot[at] = "out enable"
    BY <1>10, Statements
  <2>2. Sends("mouse", Ack) /\ UNCHANGED <<buffer, last, command, status>>
    BY <1>3, <2>1 DEF Write
  <2>3. routines' = routines
    BY <1>2, <2>1 DEF NextRoutines
  <2> QED BY <1>1, <1>10, <2>2, <2>3
<1>11. CASE at \in {8, 11, 14}
  <2>1. Boot[at] = "in"
    BY <1>11, Statements
  <2>2. Take /\ UNCHANGED status
    BY <1>3, <2>1 DEF Write
  <2>3. routines' = routines
    BY <1>2, <2>1 DEF NextRoutines
  <2> QED BY <1>1, <1>11, <2>2, <2>3
<1> QED BY <1>4, <1>5, <1>6, <1>7, <1>8, <1>9, <1>10, <1>11

\* main takes a step only when no interrupt waits, and then nothing is in the
\* buffer that a routine would have to read.
LEMMA MainKeeps ==
  ASSUME IntInv, MainRuns
  PROVE  IntInv'
<1>1. IntTypes /\ "controller" \in Source /\ "keyboard" \in Source /\ "mouse" \in Source
  BY DEF IntInv, Source
<1>2. /\ at \in 1 .. 17 /\ at' = at + 1 /\ cpu = <<>> /\ cpu' = <<>>
      /\ UNCHANGED <<requested, inService, early>>
  BY <1>1, MainEffect
<1>3. inService = {} /\ requested = {}
  BY <1>1, <1>2, LetIn, MainEffect
<1>4. ~KeyboardReads /\ ~KeyboardReads' /\ 12 \notin requested /\ cpu # <<12, "routine">>
  BY <1>2, <1>3 DEF KeyboardReads
<1>5. buffer # <<>> \/ \A s \in Source : ~HasByte(s)
  BY <1>1, MainEffect DEF CanFill
<1>6. routines' \subseteq Irq /\ Installed'
  <2>1. routines \subseteq Irq /\ Installed
    BY DEF IntInv, IntTypes
  <2>2. routines' = CASE at = 1 -> routines \cup {1}
                      [] at = 15 -> routines \cup {12}
                      [] at = 16 -> routines \cup {0}
                      [] at = 17 -> routines \ {0}
                      [] OTHER -> routines
    BY <1>1, MainEffect
  <2>3. CASE at = 1
    BY <1>2, <2>1, <2>2, <2>3 DEF Irq, Installed
  <2>4. CASE at = 15
    BY <1>2, <2>1, <2>2, <2>4 DEF Irq, Installed
  <2>5. CASE at = 16
    BY <1>2, <2>1, <2>2, <2>5 DEF Irq, Installed
  <2>6. CASE at = 17
    BY <1>2, <2>1, <2>2, <2>6 DEF Irq, Installed
  <2>7. CASE at \notin {1, 15, 16, 17}
    <3>1. routines' = routines
      BY <2>2, <2>7
    <3>2. (at' >= 2 => at >= 2) /\ (at' >= 16 => at >= 16)
      BY <1>2, <2>7
    <3> QED BY <2>1, <3>1, <3>2 DEF Installed
  <2> QED BY <2>3, <2>4, <2>5, <2>6, <2>7
<1>7. EndsWhatItTakes'
  BY <1>2, <1>3 DEF EndsWhatItTakes
<1>8. /\ at \in {1, 15, 16, 17} =>
           UNCHANGED <<buffer, last, waiting, command, status>>
      /\ at = 2 => /\ Sends("controller", command)
                   /\ UNCHANGED <<buffer, last, command, status>>
      /\ at = 3 => Take /\ status' = last
      /\ at \in {4, 6, 9, 12} => UNCHANGED <<buffer, last, waiting, command, status>>
      /\ at = 5 => /\ command' = status \cup {"irq12"}
                   /\ UNCHANGED <<buffer, last, waiting, status>>
      /\ at \in {7, 10, 13} => /\ Sends("mouse", Ack)
                               /\ UNCHANGED <<buffer, last, command, status>>
      /\ at \in {8, 11, 14} => Take /\ UNCHANGED status
  BY <1>1, MainEffect
<1>9. \/ at \in {1, 15, 16, 17} \/ at = 2 \/ at = 3 \/ at \in {4, 6, 9, 12} \/ at = 5
      \/ at \in {7, 10, 13} \/ at \in {8, 11, 14}
  BY <1>2
<1>10. IntTypes'
  <2>1. /\ buffer' \in Bytes /\ Len(buffer') <= 1 /\ waiting' \in [Source -> Bytes]
        /\ last' \subseteq Bit /\ command' \subseteq Bit /\ status' \subseteq Bit
    <3>1. /\ buffer \in Bytes /\ Len(buffer) <= 1 /\ waiting \in [Source -> Bytes]
          /\ last \subseteq Bit /\ command \subseteq Bit /\ status \subseteq Bit
          /\ Ack \in SUBSET Bit
      BY <1>1 DEF IntTypes, Ack, Bit
    <3>2. <<>> \in Bytes /\ Len(<<>>) <= 1
      BY DEF Bytes
    <3>3. CASE at \in {1, 15, 16, 17} \/ at \in {4, 6, 9, 12}
      BY <1>8, <3>1, <3>3
    <3>4. CASE at = 2
      BY <1>1, <1>8, <3>1, <3>4, SendsEffect
    <3>5. CASE at = 3 \/ at \in {8, 11, 14}
      BY <1>8, <3>1, <3>2, <3>5 DEF Take
    <3>6. CASE at = 5
      BY <1>8, <3>1, <3>6 DEF Bit
    <3>7. CASE at \in {7, 10, 13}
      BY <1>1, <1>8, <3>1, <3>7, SendsEffect
    <3> QED BY <1>9, <3>3, <3>4, <3>5, <3>6, <3>7
  <2>2. at' \in 1 .. 18
    BY <1>2
  <2>3. requested' \subseteq Irq /\ early' \in BOOLEAN
    BY <1>1, <1>2 DEF IntTypes
  <2> QED BY <1>2, <1>6, <2>1, <2>2, <2>3 DEF IntTypes
<1>11. ASSUME ~early PROVE CommandByteKept' /\ MouseAnswered'
  <2>1. CommandByteKept /\ MouseAnswered
    BY <1>11 DEF IntInv
  <2>2. at \notin {8, 11, 14} => buffer = <<>>
    <3>1. CASE at <= 15
      BY <1>4, <2>1, <3>1 DEF MouseAnswered
    <3>2. CASE at >= 16
      BY <1>4, <2>1, <3>2 DEF MouseAnswered
    <3> QED BY <1>2, <3>1, <3>2
  <2>3. at <= 15 => waiting["mouse"] = <<>>
    <3> SUFFICES ASSUME at <= 15, waiting["mouse"] # <<>> PROVE FALSE
      OBVIOUS
    <3>1. HasByte("mouse")
      BY DEF HasByte
    <3>2. buffer # <<>>
      BY <1>1, <1>5, <3>1
    <3> QED BY <1>4, <2>1, <3>2 DEF MouseAnswered
  <2>4. at >= 16 => buffer' = <<>>
    <3> SUFFICES ASSUME at >= 16 PROVE buffer' = <<>>
      OBVIOUS
    <3>1. at \in {1, 15, 16, 17} /\ at \notin {8, 11, 14}
      BY <1>2
    <3> QED BY <1>8, <2>2, <3>1
  <2>5. CASE at = 1
    BY <1>2, <1>8, <2>1, <2>2, <2>3, <2>5 DEF CommandByteKept, MouseAnswered
  <2>6. CASE at = 2
    <3>1. waiting'["controller"] = <<{"irq1"}>>
      <4>1. waiting["controller"] = <<>> /\ command = {"irq1"}
        BY <2>1, <2>6 DEF CommandByteKept
      <4>2. command \in SUBSET Bit /\ Append(<<>>, {"irq1"}) = <<{"irq1"}>>
        BY <1>1 DEF IntTypes
      <4> QED BY <1>1, <1>8, <2>6, <4>1, <4>2, SendsEffect
    <3>2. /\ waiting'["keyboard"] = waiting["keyboard"]
          /\ waiting'["mouse"] = waiting["mouse"]
      <4>1. command \in SUBSET Bit
        BY <1>1 DEF IntTypes
      <4> QED BY <1>1, <1>8, <2>6, <4>1, SendsEffect
    <3>3. at' = 3 /\ buffer' = <<>> /\ command' = {"irq1"}
      BY <1>2, <1>8, <2>1, <2>2, <2>6 DEF CommandByteKept
    <3>4. waiting["keyboard"] = <<>>
      BY <2>1, <2>6 DEF CommandByteKept
    <3>5. CommandByteKept'
      BY <3>1, <3>2, <3>3, <3>4 DEF CommandByteKept
    <3>6. MouseAnswered'
      BY <2>3, <2>6, <3>2, <3>3 DEF MouseAnswered
    <3> QED BY <3>5, <3>6
  <2>7. CASE at = 3
    <3>1. last = {"irq1"} /\ command = {"irq1"}
      <4>1. ~HasByte("controller")
        BY <1>1, <1>5, <2>2, <2>7
      <4>2. waiting["controller"] = <<>>
        BY <4>1 DEF HasByte
      <4>3. waiting["controller"] # <<{"irq1"}>>
        BY <4>2
      <4> QED BY <2>1, <2>7, <4>3 DEF CommandByteKept
    <3>2. at' = 4 /\ buffer' = <<>> /\ waiting' = waiting /\ command' = command
          /\ status' = {"irq1"}
      BY <1>2, <1>8, <2>7, <3>1 DEF Take
    <3>3. CommandByteKept'
      BY <3>1, <3>2 DEF CommandByteKept
    <3>4. MouseAnswered'
      BY <2>3, <2>7, <3>2 DEF MouseAnswered
    <3> QED BY <3>3, <3>4
  <2>8. CASE at \in {4, 6, 9, 12}
    <3>1. UNCHANGED <<buffer, waiting, command, status>> /\ at' \in {5, 7, 10, 13}
          /\ (at = 4 <=> at' = 5)
      BY <1>2, <1>8, <2>8
    <3>2. waiting'["mouse"] = <<>> /\ buffer' = <<>>
      BY <2>2, <2>3, <2>8, <3>1
    <3>3. CommandByteKept'
      BY <2>1, <2>8, <3>1 DEF CommandByteKept
    <3>4. MouseAnswered'
      BY <3>1, <3>2 DEF MouseAnswered
    <3> QED BY <3>3, <3>4
  <2>9. CASE at = 5
    <3>1. UNCHANGED <<buffer, waiting, status>> /\ at' = 6
          /\ command' = {"irq1", "irq12"}
      BY <1>2, <1>8, <2>1, <2>9 DEF CommandByteKept
    <3>2. waiting'["mouse"] = <<>> /\ buffer' = <<>>
      BY <2>2, <2>3, <2>9, <3>1
    <3>3. CommandByteKept'
      BY <3>1 DEF CommandByteKept
    <3>4. MouseAnswered'
      BY <3>1, <3>2 DEF MouseAnswered
    <3> QED BY <3>3, <3>4
  <2>10. CASE at \in {7, 10, 13}
    <3>1. buffer' = <<>> /\ command' = command /\ at' \in {8, 11, 14}
      BY <1>2, <1>8, <2>2, <2>10
    <3>2. waiting'["mouse"] = <<Ack>>
      <4>1. Ack \in SUBSET Bit /\ Append(<<>>, Ack) = <<Ack>>
        BY DEF Ack, Bit
      <4> QED BY <1>1, <1>8, <2>3, <2>10, <4>1, SendsEffect
    <3>3. CommandByteKept'
      BY <2>1, <2>10, <3>1 DEF CommandByteKept
    <3>4. MouseAnswered'
      BY <3>1, <3>2 DEF MouseAnswered
    <3> QED BY <3>3, <3>4
  <2>11. CASE at \in {8, 11, 14}
    <3>1. buffer' = <<>> /\ UNCHANGED <<waiting, command>> /\ at' \in {9, 12, 15}
      BY <1>2, <1>8, <2>11 DEF Take
    <3>2. waiting'["mouse"] = <<>>
      BY <2>3, <2>11, <3>1
    <3>3. CommandByteKept'
      BY <2>1, <2>11, <3>1 DEF CommandByteKept
    <3>4. MouseAnswered'
      BY <3>1, <3>2 DEF MouseAnswered
    <3> QED BY <3>3, <3>4
  <2>12. CASE at \in {15, 16, 17}
    <3>1. UNCHANGED <<buffer, command>> /\ at' \in {16, 17, 18}
      BY <1>2, <1>8, <2>12
    <3>2. buffer' = <<>>
      BY <2>2, <2>12, <3>1
    <3>3. CommandByteKept'
      BY <2>1, <2>12, <3>1 DEF CommandByteKept
    <3>4. MouseAnswered'
      BY <3>1, <3>2 DEF MouseAnswered
    <3> QED BY <3>3, <3>4
  <2> QED BY <1>9, <2>5, <2>6, <2>7, <2>8, <2>9, <2>10, <2>11, <2>12
<1> QED BY <1>2, <1>6, <1>7, <1>10, <1>11 DEF IntInv

LEMMA IntStepKeeps == IntInv /\ [IntNext]_intVars => IntInv'
<1> SUFFICES ASSUME IntInv, [IntNext]_intVars PROVE IntInv'
  OBVIOUS
<1>1. CASE UNCHANGED intVars
  BY <1>1 DEF intVars, pic, controller, IntInv, IntTypes, EndsWhatItTakes, Installed,
              CommandByteKept, MouseAnswered, KeyboardReads
<1> QED BY <1>1, MainKeeps, InterruptKeeps, RoutineKeeps, EndKeeps, FillKeeps, PressKeeps,
           MovesKeep, TickKeeps DEF IntNext, Processor

-----------------------------------------------------------------------------
(***************************************************************************)
(* The parts in one specification: a step of one leaves the others alone.  *)
(***************************************************************************)
LEMMA PartsStep ==
  ASSUME [Next]_vars
  PROVE  /\ [SchedNext]_schedVars /\ [SyscallsNext]_sysVars /\ [CalcNext]_calcVars
         /\ [PictureNext]_pictureVars /\ [DiskNext]_diskVars /\ [IntNext]_intVars
         /\ [PrintfNext]_printfVars /\ part' = part
<1>1. CASE OfScheduler(SchedNext)
  BY <1>1, Zenon DEF OfScheduler
<1>2. CASE OfSyscalls(SyscallsNext)
  BY <1>2, Zenon DEF OfSyscalls
<1>3. CASE OfCalculator(CalcNext)
  BY <1>3, Zenon DEF OfCalculator
<1>4. CASE OfPrintf(PrintfNext)
  BY <1>4, Zenon DEF OfPrintf
<1>5. CASE OfPicture(PictureNext)
  BY <1>5, Zenon DEF OfPicture
<1>6. CASE OfDisk(DiskNext)
  BY <1>6, Zenon DEF OfDisk
<1>7. CASE OfInterrupts(IntNext)
  BY <1>7, Zenon DEF OfInterrupts
<1>8. CASE UNCHANGED vars
  BY <1>8, Zenon DEF vars
<1> QED BY <1>1, <1>2, <1>3, <1>4, <1>5, <1>6, <1>7, <1>8, Zenon DEF Next

LEMMA PartsStart ==
  ASSUME Init
  PROVE  /\ SchedInit /\ SyscallsInit /\ CalcInit /\ PrintfInit /\ PictureInit
         /\ DiskInit /\ IntInit /\ part \in Parts
BY DEF Init

\* Every handler tells the controllers of the end of its interrupt, of both of
\* them where both wait for it: back in main none is in service, so none is
\* shut out (handle_irq of idt.cpp).
InterruptsEnded == cpu = <<>> => inService = {}

THEOREM InterruptsEnd == Spec => []InterruptsEnded
<1>1. Init => IntInv
  BY PartsStart, IntStarts
<1>2. IntInv /\ [Next]_vars => IntInv'
  BY PartsStep, IntStepKeeps
<1>3. IntInv => InterruptsEnded
  BY DEF IntInv, EndsWhatItTakes, InterruptsEnded
<1> QED BY <1>1, <1>2, <1>3, PTL DEF Spec

\* A byte in the buffer of the keyboard controller that keeps the next one
\* out has somebody who is going to read it, unless a device was early: an
\* interrupt that will be let in and has a routine, a routine that has not read
\* yet, or main at a read of its own.  And what main writes back in
\* enable_mouse never switches the keyboard off.
Reader ==
  \/ \E irq \in requested : irq \in routines /\ irq # 0
  \/ cpu # <<>> /\ cpu[1] # 0 /\ cpu[2] \in {"routine", "again"}
  \/ at \in DOMAIN Boot /\ Boot[at] = "in"
ByteHasReader ==
  ~early => /\ buffer # <<>> => Reader
            /\ "irq1" \in command /\ "off" \notin command

THEOREM InputHasReader == Spec => []ByteHasReader
<1>1. Init => IntInv
  BY PartsStart, IntStarts
<1>2. IntInv /\ [Next]_vars => IntInv'
  BY PartsStep, IntStepKeeps
<1>3. IntInv => ByteHasReader
  <2> SUFFICES ASSUME IntInv, ~early
               PROVE  /\ buffer # <<>> => Reader
                      /\ "irq1" \in command /\ "off" \notin command
    BY DEF ByteHasReader
  <2>1. CommandByteKept /\ MouseAnswered /\ Installed /\ at \in 1 .. 18
    BY DEF IntInv, IntTypes
  <2>2. "irq1" \in command /\ "off" \notin command
    BY <2>1 DEF CommandByteKept
  <2>3. ASSUME buffer # <<>> PROVE Reader
    <3>1. at >= 2
      BY <2>1, <2>3 DEF CommandByteKept
    <3>2. CASE KeyboardReads
      <4>1. CASE 1 \in requested
        BY <2>1, <3>1, <4>1 DEF Installed, Reader
      <4>2. CASE cpu = <<1, "routine">> \/ cpu = <<1, "again">>
        <5>1. cpu # <<>> /\ cpu[1] # 0 /\ cpu[2] \in {"routine", "again"}
          BY <4>2
        <5> QED BY <5>1 DEF Reader
      <4> QED BY <3>2, <4>1, <4>2 DEF KeyboardReads
    <3>3. CASE at \in {8, 11, 14}
      <4>1. DOMAIN Boot = 1 .. 17 /\ Boot[8] = "in" /\ Boot[11] = "in" /\ Boot[14] = "in"
        BY Statements, Zenon
      <4>2. at \in DOMAIN Boot
        BY <3>3, <4>1
      <4>3. Boot[at] = "in"
        BY <3>3, <4>1
      <4> QED BY <4>2, <4>3 DEF Reader
    <3>4. CASE at >= 16 /\ 12 \in requested
      <4>1. 12 \in routines
        BY <2>1, <3>4 DEF Installed
      <4> QED BY <3>4, <4>1 DEF Reader
    <3>5. CASE cpu = <<12, "routine">>
      <4>1. cpu # <<>> /\ cpu[1] # 0 /\ cpu[2] \in {"routine", "again"}
        BY <3>5
      <4> QED BY <4>1 DEF Reader
    <3>6. \/ at <= 15 /\ at \notin {8, 11, 14}
          \/ at \in {8, 11, 14}
          \/ at >= 16
      BY <2>1
    <3> QED BY <2>1, <2>3, <3>2, <3>3, <3>4, <3>5, <3>6 DEF MouseAnswered
  <2> QED BY <2>2, <2>3
<1> QED BY <1>1, <1>2, <1>3, PTL DEF Spec

\* What the calculator evaluates is what was typed since the prompt, unless q
\* or a division by zero has left something in the buffer; and the buffer never
\* overflows.
LineAsTyped ==
  /\ ~leftover => c_input = typed
  /\ Len(c_input) <= Size

THEOREM CalculatorKeepsLine == Spec => []LineAsTyped
<1>1. Init => CalcInv
  BY PartsStart, CalcStarts
<1>2. CalcInv /\ [Next]_vars => CalcInv'
  BY PartsStep, CalcStepKeeps
<1>3. CalcInv => LineAsTyped
  BY DEF CalcInv, LineAsTyped
<1> QED BY <1>1, <1>2, <1>3, PTL DEF Spec

\* What Enter prints is the value, from left to right, of exactly what was typed
\* since the prompt, and it halts the machine on a division of the smallest int
\* by -1 and on nothing else, unless q or a division by zero has left something
\* in the buffer (evaluate_expression of calculator.cpp): for every width of an
\* int and every size of the buffer.
THEOREM CalculatorAnswers == Spec => AnswersTheLine
<1>1. Init => CalcInv
  BY PartsStart, CalcStarts
<1>2. CalcInv /\ [Next]_vars => CalcInv'
  BY PartsStep, CalcStepKeeps
<1>3. CalcInv /\ [Next]_vars =>
        [~leftover /\ (printed' # <<>> \/ trapped' # trapped) =>
           LET e == LeftToRight[typed]
           IN  /\ trapped' = (e.status = "trap")
               /\ ~trapped' => printed' = <<e.value>>]_calcVars
  BY PartsStep, CalcStepAnswers
<1> QED BY <1>1, <1>2, <1>3, PTL DEF Spec, AnswersTheLine

\* What the scheduler, the system calls, printf, the picture viewer and the disk
\* driver promise by themselves holds of them in this specification.
THEOREM PartsKeepPromises ==
  Spec => /\ []FairShare /\ []StrayForkNeedsKill /\ []PrintsArguments
          /\ []ColoursKept /\ []WholePixelsDrawn /\ DiskOpsRight
<1> DEFINE Parsed == ScreenTypes /\ ParserTypes /\ WholeInv
           Read == PrintfTypes /\ PrintfReads
<1>1. Init => SchedInv /\ TableInv /\ Read /\ PaletteInv /\ Parsed /\ DiskInit
  BY PartsStart, SchedInitInv, TableInit, ReadsFromStart, PaletteStarts,
     PictureTypesStart, WholeStarts
<1>2. SchedInv /\ [Next]_vars => SchedInv'
  BY PartsStep, SchedStepKeepsInv
<1>3. TableInv /\ [Next]_vars => TableInv'
  BY PartsStep, TableStepKeeps
<1>4. PaletteInv /\ [Next]_vars => PaletteInv'
  BY PartsStep, PictureKeepsPalette
<1>5. Parsed /\ [Next]_vars => Parsed'
  BY PartsStep, PictureKeepsTypes, WholeKept
<1>6. [Next]_vars => [DiskNext]_diskVars
  BY PartsStep
<1>7. Read /\ [Next]_vars => Read'
  BY PartsStep, ReadsAlways
<1>8. /\ SchedInv => FairShare
      /\ TableInv => StrayForkNeedsKill
      /\ PaletteInv => ColoursKept
      /\ Parsed => WholePixelsDrawn
      /\ Read => PrintsArguments
  BY InvIsFair, InvKeepsColours, WholeIsDrawn, PrintfReadsAll DEF TableInv
<1> HIDE DEF Parsed, Read
<1> QED BY <1>1, <1>2, <1>3, <1>4, <1>5, <1>6, <1>7, <1>8, DiskStepsRight, PTL
        DEF Spec

-----------------------------------------------------------------------------
(***************************************************************************)
(* The types.                                                              *)
(***************************************************************************)
LEMMA IntTypesAsStated == IntInv => IntTypeOK
<1> SUFFICES ASSUME IntInv PROVE IntTypeOK
  OBVIOUS
<1>1. IntTypes /\ EndsWhatItTakes
  BY DEF IntInv
<1>2. Len(Boot) = 17
  BY DEF Boot
<1>3. inService \subseteq {0, 1, 2, 12}
  <2>1. CASE cpu = <<>>
    BY <1>1, <2>1 DEF EndsWhatItTakes
  <2>2. CASE cpu # <<>>
    <3>1. PICK irq \in Irq, x \in {"routine", "again", "end"} : cpu = <<irq, x>>
      BY <1>1, <2>2 DEF IntTypes
    <3>2. cpu[1] = irq
      BY <3>1
    <3>3. Taken(irq) \subseteq {0, 1, 2, 12}
      BY DEF Taken, Irq
    <3> QED BY <1>1, <2>2, <3>2, <3>3 DEF EndsWhatItTakes
  <2> QED BY <2>1, <2>2
<1>4. at \in 1 .. Len(Boot) + 1
  BY <1>1, <1>2 DEF IntTypes
<1> QED BY <1>1, <1>3, <1>4, Zenon DEF IntTypes, IntTypeOK, Irq

\* Every part of the kernels that is not the memory, the console or the file
\* system keeps its types: the tables of the system calls, the simulation and
\* the calculator's buffer stay within their arrays, printf stays in its
\* format, the disk driver in its registers, and the three numbers of a
\* picture's entry in theirs.
THEOREM PartsKeepTypes == Spec => []TypeOK
<1> DEFINE Inv ==
      /\ part \in Parts
      /\ SchedTypeOK /\ TableInv /\ CalcInv /\ PrintfTypes
      /\ ScreenTypes /\ ParserTypes /\ DiskInv /\ IntInv
<1>1. Init => Inv
  BY PartsStart, SchedTypesStart, TableInit, CalcStarts, PrintfStarts,
     PictureTypesStart, DiskStarts, IntStarts
<1>2. Inv /\ [Next]_vars => Inv'
  BY PartsStep, SchedTypesKept, TableStepKeeps, CalcStepKeeps, PrintfKeepsTypes,
     PictureKeepsTypes, DiskStepKeeps, IntStepKeeps
<1>3. Inv => TypeOK
  <2> SUFFICES ASSUME Inv PROVE TypeOK
    OBVIOUS
  <2>1. SyscallsTypeOK /\ CalcTypeOK /\ PrintfTypeOK
    BY DEF TableInv, CalcInv, CalcTypeOK, PrintfTypes, PrintfTypeOK
  <2> QED BY <2>1, PictureTypesAsStated, DiskTypesAsStated, IntTypesAsStated DEF TypeOK
<1> HIDE DEF Inv
<1> QED BY <1>1, <1>2, <1>3, PTL DEF Spec
=============================================================================
