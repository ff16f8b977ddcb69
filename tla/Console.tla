------------------------------- MODULE Console -------------------------------
(***************************************************************************)
(* From the keyboard to the command line:                                  *)
(*   src/1.2/drivers/input/keyboard.cpp   interrupt handler, key dispatch  *)
(*   src/1.2/user_space/cli.cpp           line editor, history, start of   *)
(*                                        programs                         *)
(*   calculator.cpp, paint.cpp, snake.cpp who gets the keys, and how a     *)
(*                                        program is left                  *)
(*                                                                         *)
(* Everything runs inside the keyboard interrupt, with interrupts off.     *)
(* Keys pressed meanwhile wait in the keyboard controller, which is not    *)
(* part of the code: a queue of scan codes that drops what does not fit.   *)
(***************************************************************************)
EXTENDS Integers, Sequences

CONSTANTS
  Letter,       \* the keys that have a character
  Program,      \* Program[line] is the mode a command line starts
  Quit,         \* the letter q
  NUL,          \* '\0'
  BufferSize,   \* COMMAND_BUFFER_SIZE (256)
  HistorySize,  \* HISTORY_SIZE (10)
  QueueSize,    \* scan codes the controller keeps
  MaxEvents     \* bound: keys pressed and released

ASSUME ConsoleAssumption ==
  /\ BufferSize \in Nat /\ BufferSize >= 2
  /\ HistorySize \in Nat \ {0}
  /\ QueueSize \in Nat \ {0} /\ MaxEvents \in Nat
  /\ Quit \in Letter /\ NUL \notin Letter \X BOOLEAN

\* parse_command starts these programs, each by its own line.
ASSUME ProgramAssumption ==
  \A line \in DOMAIN Program :
    Program[line] \in {"calc", "paint", "snake", "graphics"}

\* A character is a letter with its case; TRUE is upper case.
Char   == Letter \X BOOLEAN
Code   == Letter \cup {"enter", "back", "up", "down", "shift", "caps"}
Event  == [code : Code, release : BOOLEAN, game : BOOLEAN]
Buffer == [0 .. BufferSize - 1 -> Char \cup {NUL}]

VARIABLES
  queue,         \* scan codes in the controller
  busy,          \* an interrupt handler is still running (the snake game)
  mode,          \* currentMode
  shift, caps,
  command, commandIndex,
  history, historyCount, historyIndex,
  \* History variables.
  pastStart,     \* Backspace was pressed at the beginning of this line
  held,          \* the shift key is down
  mixed,         \* a handler was lost a scan code, or read two different ones
  executed,      \* the lines given to parse_command, oldest first
  gameKeys,      \* the modes that handled keys pressed during a snake game
  events         \* keys pressed and released so far (bounded by MaxEvents)

editor  == <<command, commandIndex, pastStart>>
past    == <<history, historyCount, historyIndex>>
vars == <<queue, busy, mode, shift, caps, editor, past,
          held, mixed, executed, gameKeys, events>>

Empty == [i \in 0 .. BufferSize - 1 |-> NUL]

Init ==
  /\ queue = <<>> /\ busy = FALSE
  /\ mode = "cli" /\ shift = FALSE /\ caps = FALSE
  /\ command = Empty /\ commandIndex = 0 /\ pastStart = FALSE
  /\ history = [i \in 0 .. HistorySize - 1 |-> Empty]
  /\ historyCount = 0 /\ historyIndex = -1
  /\ held = FALSE /\ mixed = FALSE
  /\ executed = <<>> /\ gameKeys = {} /\ events = 0

-----------------------------------------------------------------------------
(* Lines: a buffer up to its first NUL.                                    *)

Length(b) ==
  LET ends == {i \in DOMAIN b : b[i] = NUL}
  IN  IF ends = {} THEN BufferSize ELSE CHOOSE i \in ends : \A j \in ends : i <= j
Line(b) == [i \in 1 .. Length(b) |-> b[i - 1]]

-----------------------------------------------------------------------------
(* The controller.                                                         *)

Key(code, release) ==
  /\ events < MaxEvents /\ mode # "reboot"
  /\ release => code = "shift" \/ code \in Letter
  /\ events' = events + 1
  /\ code = "shift" => held = release /\ held' = ~release
  /\ code # "shift" => UNCHANGED held
  /\ LET e == [code |-> code, release |-> release, game |-> busy]
     IN  IF Len(queue) < QueueSize
         THEN queue' = Append(queue, e) /\ UNCHANGED mixed
         ELSE mixed' = TRUE /\ UNCHANGED queue
  /\ UNCHANGED <<busy, mode, shift, caps, editor, past, executed, gameKeys>>

-----------------------------------------------------------------------------
(* The line editor: append_to_command.                                     *)

\* Mutants of Insert: no room is left for the NUL; no end at all.
InsertOffByOne(c) ==
  /\ IF commandIndex < BufferSize
     THEN /\ command' = [command EXCEPT ![commandIndex] = c,
                                        ![commandIndex + 1] = NUL]
          /\ commandIndex' = commandIndex + 1 /\ UNCHANGED pastStart
     ELSE UNCHANGED editor
  /\ UNCHANGED <<busy, mode, past, executed>>
InsertUnbounded(c) ==
  /\ command' = [command EXCEPT ![commandIndex] = c, ![commandIndex + 1] = NUL]
  /\ commandIndex' = commandIndex + 1
  /\ UNCHANGED <<pastStart, busy, mode, past, executed>>

\* The buffer's cells outside 0 .. BufferSize - 1 belong to other variables.
Insert(c) ==
  /\ IF commandIndex < BufferSize - 1
     THEN /\ command' = [command EXCEPT ![commandIndex] = c,
                                        ![commandIndex + 1] = NUL]
          /\ commandIndex' = commandIndex + 1 /\ UNCHANGED pastStart
     ELSE UNCHANGED editor
  /\ UNCHANGED <<busy, mode, past, executed>>

\* The character stays in the buffer, and nothing stops at 0.
Backspace ==
  /\ commandIndex' = commandIndex - 1
  /\ pastStart' = (pastStart \/ commandIndex <= 0)
  /\ UNCHANGED <<command, busy, mode, past, executed>>

\* Mutant of Recall: the insertion point stays where it was.
RecallLineOnly(i) ==
  /\ historyIndex' = i
  /\ command' = history[i]
  /\ UNCHANGED <<commandIndex, pastStart>>

Recall(i) ==
  /\ historyIndex' = i
  /\ command' = history[i]
  /\ commandIndex' = Length(history[i]) /\ pastStart' = FALSE

Up ==
  /\ IF historyIndex < historyCount - 1 THEN Recall(historyIndex + 1)
                                        ELSE UNCHANGED <<editor, historyIndex>>
  /\ UNCHANGED <<history, historyCount, busy, mode, executed>>

\* The copy stops at the NUL here, so the rest of the buffer is cleared.
Cut(b) == [i \in DOMAIN b |-> IF i < Length(b) THEN b[i] ELSE NUL]

Down ==
  /\ \/ /\ historyIndex > 0
        /\ historyIndex' = historyIndex - 1
        /\ command' = Cut(history[historyIndex - 1])
        /\ commandIndex' = Length(history[historyIndex - 1])
        /\ pastStart' = FALSE
     \/ /\ historyIndex = 0
        /\ historyIndex' = -1 /\ command' = Empty /\ commandIndex' = 0
        /\ pastStart' = FALSE
     \/ historyIndex < 0 /\ UNCHANGED <<editor, historyIndex>>
  /\ UNCHANGED <<history, historyCount, busy, mode, executed>>

\* Mutant of AddToHistory: the rows are moved from the first to the last.
AddToHistoryUpwards ==
  IF command[0] = NUL THEN UNCHANGED past
  ELSE /\ history' = [i \in DOMAIN history |->
                        IF i = 0 THEN command ELSE history[0]]
       /\ historyCount' = IF historyCount < HistorySize THEN historyCount + 1
                                                        ELSE historyCount
       /\ historyIndex' = -1

\* add_to_history: rows are moved from the last to the first.
AddToHistory ==
  IF command[0] = NUL THEN UNCHANGED past
  ELSE /\ history' = [i \in DOMAIN history |->
                        IF i = 0 THEN command ELSE history[i - 1]]
       /\ historyCount' = IF historyCount < HistorySize THEN historyCount + 1
                                                        ELSE historyCount
       /\ historyIndex' = -1

\* parse_command.  A program only sets the mode and returns, but the snake
\* game is played to its end right here.
Enter ==
  /\ AddToHistory
  /\ executed' = IF command[0] = NUL THEN executed
                                     ELSE Append(executed, Line(command))
  /\ command' = Empty /\ commandIndex' = 0 /\ pastStart' = FALSE
  /\ mode' = IF Line(command) \in DOMAIN Program THEN Program[Line(command)]
                                                 ELSE mode
  /\ busy' = (mode' = "snake")

CommandKey(code, upper) ==
  CASE code = "enter" -> Enter
    [] code = "back"  -> Backspace
    [] OTHER          -> Insert(<<code, upper>>)

-----------------------------------------------------------------------------
(* handleKey: arrows go to the command line in every mode, other keys to   *)
(* the program of the mode.  Only a lower-case q leaves a program; in      *)
(* graphics mode either q reboots the machine, where the model stops.      *)

ProgramKey(code, upper) ==
  /\ UNCHANGED <<busy, editor, past, executed>>
  /\ \/ /\ mode \in {"calc", "paint"}
        /\ mode' = IF code = Quit /\ ~upper THEN "cli" ELSE mode
     \/ /\ mode = "graphics"
        /\ mode' = IF code = Quit THEN "reboot" ELSE mode

\* Mutant of ShiftAfter: releasing the key is not noticed.
ShiftSticks(code, release) == shift \/ (code = "shift" /\ ~release)
ShiftAfter(code, release) == IF code = "shift" THEN ~release ELSE shift

HandleKey(code, release) ==
  /\ shift' = ShiftAfter(code, release)
  /\ caps' = IF code = "caps" /\ ~release THEN ~caps ELSE caps
  /\ IF release \/ code \in {"shift", "caps"}
     THEN UNCHANGED <<busy, mode, editor, past, executed>>
     ELSE CASE code = "up"   -> Up
            [] code = "down" -> Down
            [] OTHER -> IF mode = "cli" THEN CommandKey(code, shift \/ caps)
                                        ELSE ProgramKey(code, shift \/ caps)

\* The interrupt reads the scan code twice, for the key and for press or
\* release.  If the controller has the next one ready by then, the second
\* read takes that one.
KeyInterrupt ==
  /\ ~busy /\ mode # "reboot" /\ queue # <<>>
  /\ \/ /\ HandleKey(Head(queue).code, Head(queue).release)
        /\ queue' = Tail(queue)
        /\ UNCHANGED mixed
     \/ /\ Len(queue) > 1
        /\ HandleKey(Head(queue).code, queue[2].release)
        /\ queue' = Tail(Tail(queue))
        /\ mixed' = TRUE
  /\ gameKeys' = IF Head(queue).game THEN gameKeys \cup {mode} ELSE gameKeys
  /\ UNCHANGED <<held, events>>

\* The snake hits a wall or itself; its keys were never read.
SnakeEnds ==
  /\ busy
  /\ busy' = FALSE /\ mode' = "cli"
  /\ UNCHANGED <<queue, shift, caps, editor, past, held, mixed, executed,
                 gameKeys, events>>

-----------------------------------------------------------------------------
Next ==
  \/ \E code \in Code, release \in BOOLEAN : Key(code, release)
  \/ KeyInterrupt
  \/ SnakeEnds

Spec == Init /\ [][Next]_vars

-----------------------------------------------------------------------------
(* Properties.                                                             *)

Mode == {"cli", "calc", "paint", "snake", "graphics", "reboot"}

\* Types.  commandIndex has no lower bound but the number of Backspaces.
TypeOK ==
  /\ queue \in Seq(Event) /\ Len(queue) <= QueueSize
  /\ busy \in BOOLEAN /\ mode \in Mode
  /\ shift \in BOOLEAN /\ caps \in BOOLEAN
  /\ command \in Buffer /\ commandIndex \in -MaxEvents .. BufferSize - 1
  /\ history \in [0 .. HistorySize - 1 -> Buffer]
  /\ historyCount \in 0 .. HistorySize
  /\ historyIndex \in -1 .. HistorySize - 1
  /\ pastStart \in BOOLEAN /\ held \in BOOLEAN /\ mixed \in BOOLEAN
  /\ gameKeys \subseteq Mode /\ events \in 0 .. MaxEvents

\* The arrow keys find the last HISTORY_SIZE lines that were executed, newest
\* first, also lines that were recalled, edited and executed again.
HistoryIsLog ==
  /\ historyIndex < historyCount
  /\ historyCount = IF Len(executed) < HistorySize THEN Len(executed)
                                                   ELSE HistorySize
  /\ \A i \in 0 .. historyCount - 1 :
       Line(history[i]) = executed[Len(executed) - i]

\* parse_command scans for a NUL without a bound: there always is one, in the
\* line and in every line of the history.
LinesTerminated ==
  /\ \E i \in DOMAIN command : command[i] = NUL
  /\ \A h \in DOMAIN history : \E i \in DOMAIN history[h] : history[h][i] = NUL

\* What is typed becomes part of the line: the insertion point lies neither
\* behind the line's NUL nor before its first character, wherever arrows and
\* Backspace have moved it.  The exception is a line at whose beginning
\* Backspace was pressed: nothing stops it there, and until Enter or an arrow
\* starts another line the next characters are written before the buffer.
InsertionPointInLine ==
  /\ commandIndex <= Length(command)
  /\ commandIndex < 0 => pastStart

\* When all scan codes are handled, the shift flag says whether the key is
\* down - unless the controller dropped a code or a handler mixed up two.
ShiftFollowsKey == queue = <<>> /\ ~mixed => shift = held

\* The help text says of snake: "WASD for movement".  Keys pressed while the
\* game runs are handled by the game.
SnakeGetsKeys == gameKeys \subseteq {"snake"}
=============================================================================
