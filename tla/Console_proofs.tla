--------------------------- MODULE Console_proofs ---------------------------
(***************************************************************************)
(* Theorems about Console, for every alphabet, buffer, history, queue and  *)
(* set of programs: types; lines end, the insertion point stays in the     *)
(* line, the arrows find what was executed, and the shift flag follows the *)
(* key.                                                                    *)
(***************************************************************************)
EXTENDS Console, WellFoundedInduction, TLAPS

Cells == 0 .. BufferSize - 1
Rows  == 0 .. HistorySize - 1

Terminated(b) == \E i \in Cells : b[i] = NUL

\* Only a Backspace at the beginning of a line leads before it.
StartMarked == pastStart \in BOOLEAN /\ (commandIndex < 0 => pastStart)

\* Recall puts the insertion point at the NUL of a row of the history and
\* relies on every row having one; append_to_command moves the NUL on before
\* it can be overwritten.
EditorInv ==
  /\ command \in Buffer /\ Terminated(command)
  /\ commandIndex \in Int /\ commandIndex <= BufferSize - 1
  /\ StartMarked
  /\ \A j \in Cells : j < commandIndex => command[j] # NUL
  /\ history \in [Rows -> Buffer]
  /\ \A h \in Rows : Terminated(history[h])
  /\ historyCount \in 0 .. HistorySize
  /\ historyIndex \in Int /\ -1 <= historyIndex /\ historyIndex < historyCount

LogInv ==
  /\ executed \in Seq({Line(b) : b \in Buffer})
  /\ HistoryIsLog

\* The last shift code that is still queued says what held is; without one
\* the flag does.
ShiftInv ==
  /\ queue \in Seq(Event)
  /\ busy \in BOOLEAN /\ shift \in BOOLEAN /\ caps \in BOOLEAN
  /\ held \in BOOLEAN /\ mixed \in BOOLEAN
  /\ ~mixed /\ (\A i \in 1 .. Len(queue) : queue[i].code # "shift")
       => shift = held
  /\ ~mixed => \A i \in 1 .. Len(queue) :
       /\ queue[i].code = "shift"
       /\ \A j \in 1 .. Len(queue) : i < j => queue[j].code # "shift"
       => queue[i].release = ~held

ConsoleInv == EditorInv /\ LogInv /\ ShiftInv

-----------------------------------------------------------------------------
(* The length of a line is where its first NUL is.                         *)

LEMMA Least ==
  ASSUME NEW S, S \subseteq Nat, S # {}
  PROVE  \E m \in S : \A n \in S : m <= n
<1> DEFINE R == OpToRel(<, Nat)
<1>1. IsWellFoundedOn(R, Nat)
  BY NatLessThanWellFounded
<1>2. \A x, y \in Nat : x < y => <<x, y>> \in R
  BY DEF OpToRel
<1> HIDE DEF R
<1>3. PICK m \in S : \A n \in S : ~ (<<n, m>> \in R)
  BY <1>1, WFMin
<1>4. ASSUME NEW n \in S PROVE m <= n
  <2>1. m \in Nat /\ n \in Nat
    OBVIOUS
  <2>2. ~ (n < m)
    BY <1>2, <1>3, <2>1
  <2> QED
    BY <2>1, <2>2
<1> QED
  BY <1>4

LEMMA LengthIsFirstNul ==
  ASSUME NEW b \in Buffer, Terminated(b)
  PROVE  /\ Length(b) \in Cells /\ b[Length(b)] = NUL
         /\ \A j \in Cells : b[j] = NUL => Length(b) <= j
<1> DEFINE ends == {i \in DOMAIN b : b[i] = NUL}
<1>1. DOMAIN b = Cells /\ ends # {} /\ ends \subseteq Nat
  BY DEF Buffer, Terminated, Cells
<1>2. \E m \in ends : \A n \in ends : m <= n
  BY <1>1, Least
<1>3. Length(b) = CHOOSE i \in ends : \A j \in ends : i <= j
  BY <1>1 DEF Length
<1>4. Length(b) \in ends /\ \A n \in ends : Length(b) <= n
  BY <1>2, <1>3
<1> QED
  BY <1>1, <1>4

LEMMA AtStart == commandIndex' = 0 /\ pastStart' = FALSE => StartMarked'
<1> SUFFICES ASSUME commandIndex' = 0, pastStart' = FALSE PROVE StartMarked'
  OBVIOUS
<1>1. ~(commandIndex' < 0)
  OBVIOUS
<1> QED BY <1>1, Zenon DEF StartMarked

LEMMA EmptyEnds == Empty \in Buffer /\ Terminated(Empty) /\ Empty[0] = NUL
BY ConsoleAssumption DEF Empty, Buffer, Terminated, Cells

LEMMA CharIsNotNul == NUL \notin Char
BY ConsoleAssumption DEF Char

-----------------------------------------------------------------------------
(* The line editor.                                                        *)

LEMMA InsertKeepsLine ==
  ASSUME EditorInv, NEW c \in Char, Insert(c)
  PROVE  EditorInv'
<1>1. UNCHANGED past
  BY DEF Insert
<1>2. CASE UNCHANGED editor
  BY <1>1, <1>2 DEF EditorInv, editor, past, Terminated, StartMarked
<1>3. ASSUME commandIndex < BufferSize - 1,
             command' = [command EXCEPT ![commandIndex] = c,
                                        ![commandIndex + 1] = NUL],
             commandIndex' = commandIndex + 1, UNCHANGED pastStart
      PROVE  EditorInv'
  <2>1. BufferSize \in Nat /\ BufferSize >= 2 /\ commandIndex \in Int
    BY ConsoleAssumption DEF EditorInv
  <2>2. command' \in Buffer
    BY <1>3 DEF EditorInv, Buffer
  <2>3. \A j \in Cells : command'[j] = IF j = commandIndex + 1 THEN NUL
                                       ELSE IF j = commandIndex THEN c
                                       ELSE command[j]
    BY <1>3, <2>1 DEF EditorInv, Buffer, Cells
  <2>4. Terminated(command')
    <3>1. CASE commandIndex + 1 \in Cells
      BY <2>3, <3>1 DEF Terminated
    <3>2. CASE commandIndex + 1 < 0
      BY <2>1, <2>3, <3>2 DEF EditorInv, Terminated, Cells
    <3> QED
      BY <1>3, <2>1, <3>1, <3>2 DEF Cells
  <2>5. \A j \in Cells : j < commandIndex' => command'[j] # NUL
    <3> SUFFICES ASSUME NEW j \in Cells, j < commandIndex'
                 PROVE  command'[j] # NUL
      OBVIOUS
    <3>1. j \in Int /\ j # commandIndex + 1
      BY <1>3, <2>1 DEF Cells
    <3>2. CASE j = commandIndex
      BY <2>3, <3>1, <3>2, CharIsNotNul
    <3>3. CASE j < commandIndex
      BY <2>1, <2>3, <3>1, <3>3 DEF EditorInv
    <3> QED
      BY <1>3, <2>1, <3>1, <3>2, <3>3
  <2>6. commandIndex' \in Int /\ commandIndex' <= BufferSize - 1
    BY <1>3, <2>1
  <2>8. StartMarked'
    <3>1. commandIndex' < 0 => commandIndex < 0
      BY <1>3, <2>1
    <3> QED BY <1>3, <3>1, Zenon DEF EditorInv, StartMarked
  <2>7. UNCHANGED <<history, historyCount, historyIndex>>
    BY <1>1 DEF past
  <2> QED
    BY <2>2, <2>4, <2>5, <2>6, <2>7, <2>8 DEF EditorInv, Terminated
<1> QED
  BY <1>2, <1>3 DEF Insert

LEMMA BackspaceKeepsLine ==
  ASSUME EditorInv, Backspace
  PROVE  EditorInv'
<1>1. /\ commandIndex' = commandIndex - 1
      /\ pastStart' = (pastStart \/ commandIndex <= 0)
      /\ UNCHANGED <<command, history, historyCount, historyIndex>>
  BY DEF Backspace, past
<1>2. StartMarked'
  <2>1. commandIndex \in Int
    BY DEF EditorInv
  <2>2. commandIndex' < 0 => commandIndex <= 0
    BY <1>1, <2>1
  <2> QED BY <1>1, <2>2, Zenon DEF EditorInv, StartMarked
<1> QED
  BY <1>1, <1>2, ConsoleAssumption DEF EditorInv, Terminated, Cells

\* A line taken from the history, and the insertion point at its end.
LEMMA RecalledLine ==
  ASSUME NEW b \in Buffer, Terminated(b)
  PROVE  /\ Length(b) \in Int /\ Length(b) <= BufferSize - 1 /\ ~(Length(b) < 0)
         /\ \A j \in Cells : j < Length(b) => b[j] # NUL
         /\ Cut(b) \in Buffer /\ Terminated(Cut(b))
         /\ \A j \in Cells : j < Length(b) => Cut(b)[j] # NUL
<1>1. /\ Length(b) \in Cells /\ b[Length(b)] = NUL
      /\ \A j \in Cells : b[j] = NUL => Length(b) <= j
  BY LengthIsFirstNul
<1>2. Length(b) \in Int /\ Length(b) <= BufferSize - 1 /\ ~(Length(b) < 0)
  BY <1>1, ConsoleAssumption DEF Cells
<1>3. \A j \in Cells : j < Length(b) => b[j] # NUL
  BY <1>1, <1>2 DEF Cells
<1>4. DOMAIN b = Cells /\ \A j \in Cells : b[j] \in Char \cup {NUL}
  BY DEF Buffer, Cells
<1>5. Cut(b) = [j \in Cells |-> IF j < Length(b) THEN b[j] ELSE NUL]
  BY <1>4 DEF Cut
<1>6. Cut(b) \in Buffer
  BY <1>4, <1>5 DEF Buffer, Cells
<1>7. Cut(b)[Length(b)] = NUL
  BY <1>1, <1>2, <1>5
<1> QED
  BY <1>1, <1>2, <1>3, <1>5, <1>6, <1>7 DEF Terminated

LEMMA ArrowsKeepLine ==
  ASSUME EditorInv, Up \/ Down
  PROVE  EditorInv' /\ UNCHANGED <<history, historyCount, executed>>
<1>1. UNCHANGED <<history, historyCount, executed>>
  BY DEF Up, Down
<1>2. /\ historyCount \in Int /\ historyCount <= HistorySize
      /\ HistorySize \in Nat /\ historyIndex \in Int
      /\ -1 <= historyIndex /\ historyIndex < historyCount
  BY ConsoleAssumption DEF EditorInv
<1>3. CASE UNCHANGED <<editor, historyIndex>>
  BY <1>1, <1>3 DEF EditorInv, editor, Terminated, StartMarked
<1>4. ASSUME NEW h \in Rows, h < historyCount, historyIndex' = h,
             commandIndex' = Length(history[h]), pastStart' = FALSE,
             command' \in {history[h], Cut(history[h])}
      PROVE  EditorInv'
  <2>1. history[h] \in Buffer /\ Terminated(history[h])
    BY DEF EditorInv
  <2>2. /\ command' \in Buffer /\ Terminated(command')
        /\ \A j \in Cells : j < commandIndex' => command'[j] # NUL
        /\ commandIndex' \in Int /\ commandIndex' <= BufferSize - 1
        /\ ~(commandIndex' < 0)
    BY <1>4, <2>1, RecalledLine
  <2>4. StartMarked'
    BY <1>4, <2>2, Zenon DEF StartMarked
  <2>3. /\ historyIndex' \in Int /\ -1 <= historyIndex'
        /\ historyIndex' < historyCount
    BY <1>4, <1>2 DEF Rows
  <2> QED
    BY <1>1, <2>2, <2>3, <2>4 DEF EditorInv, Terminated
<1>5. ASSUME historyIndex' = -1, command' = Empty, commandIndex' = 0,
             pastStart' = FALSE
      PROVE  EditorInv'
  <2>1. /\ commandIndex' \in Int /\ commandIndex' <= BufferSize - 1
        /\ \A j \in Cells : ~ (j < commandIndex')
    BY <1>5, ConsoleAssumption DEF Cells
  <2>2. /\ historyIndex' \in Int /\ -1 <= historyIndex'
        /\ historyIndex' < historyCount
    BY <1>2, <1>5, ConsoleAssumption DEF EditorInv
  <2>3. StartMarked'
    BY <1>5, AtStart
  <2> QED
    BY <1>1, <1>5, <2>1, <2>2, <2>3, EmptyEnds DEF EditorInv, Terminated
<1>6. CASE Up
  <2>1. CASE historyIndex < historyCount - 1
    <3>1. historyIndex + 1 \in Rows /\ historyIndex + 1 < historyCount
      BY <1>2, <2>1 DEF Rows
    <3> QED
      BY <1>4, <1>6, <2>1, <3>1 DEF Up, Recall
  <2> QED
    BY <1>3, <1>6, <2>1 DEF Up
<1>7. CASE Down
  <2>1. CASE historyIndex > 0
    <3>1. historyIndex - 1 \in Rows /\ historyIndex - 1 < historyCount
      BY <1>2, <2>1 DEF Rows
    <3> QED
      <4>1. /\ historyIndex' = historyIndex - 1 /\ pastStart' = FALSE
            /\ command' = Cut(history[historyIndex - 1])
            /\ commandIndex' = Length(history[historyIndex - 1])
        BY <1>2, <1>7, <2>1 DEF Down
      <4>2. EditorInv'
        BY <1>4, <3>1, <4>1
      <4> QED BY <1>1, <4>2
  <2> QED
    BY <1>2, <1>3, <1>5, <1>7, <2>1 DEF Down
<1> QED
  BY <1>1, <1>6, <1>7

LEMMA LogUnmoved ==
  ASSUME EditorInv', LogInv, UNCHANGED <<history, historyCount, executed>>
  PROVE  LogInv'
<1>1. historyIndex' < historyCount'
  BY DEF EditorInv
<1> QED
  BY <1>1 DEF LogInv, HistoryIsLog

\* Enter executes the line and puts it in front of the rows that are kept.
LEMMA EnterKeepsLine ==
  ASSUME EditorInv, Enter
  PROVE  EditorInv'
<1>1. command' = Empty /\ commandIndex' = 0 /\ pastStart' = FALSE /\ AddToHistory
  BY DEF Enter
<1>2. /\ commandIndex' \in Int /\ commandIndex' <= BufferSize - 1
      /\ \A j \in Cells : ~ (j < commandIndex')
  BY <1>1, ConsoleAssumption DEF Cells
<1>5. StartMarked'
  BY <1>1, AtStart
<1>3. CASE UNCHANGED past
  BY <1>1, <1>2, <1>3, <1>5, EmptyEnds DEF EditorInv, past, Terminated
<1>4. ASSUME history' = [i \in DOMAIN history |->
                           IF i = 0 THEN command ELSE history[i - 1]],
             historyCount' = IF historyCount < HistorySize
                             THEN historyCount + 1 ELSE historyCount,
             historyIndex' = -1
      PROVE  EditorInv'
  <2>1. DOMAIN history = Rows /\ \A i \in Rows : i # 0 => i - 1 \in Rows
    BY ConsoleAssumption DEF EditorInv, Rows
  <2>2. history' = [i \in Rows |-> IF i = 0 THEN command ELSE history[i - 1]]
    BY <1>4, <2>1
  <2>3. history' \in [Rows -> Buffer]
    BY <2>1, <2>2 DEF EditorInv
  <2>4. \A h \in Rows : Terminated(history'[h])
    BY <2>1, <2>2 DEF EditorInv
  <2>5. /\ historyCount' \in 0 .. HistorySize /\ historyIndex' \in Int
        /\ -1 <= historyIndex' /\ historyIndex' < historyCount'
    BY <1>4, ConsoleAssumption DEF EditorInv
  <2> QED
    BY <1>1, <1>2, <1>5, <2>3, <2>4, <2>5, EmptyEnds DEF EditorInv, Terminated
<1> QED
  BY <1>1, <1>3, <1>4 DEF AddToHistory

LEMMA EnterKeepsLog ==
  ASSUME EditorInv, LogInv, Enter
  PROVE  LogInv'
<1> DEFINE n == Len(executed)
<1>1. /\ executed \in Seq({Line(b) : b \in Buffer}) /\ n \in Nat
      /\ command \in Buffer /\ HistorySize \in Nat /\ HistorySize >= 1
  BY ConsoleAssumption DEF LogInv, EditorInv
<1>2. EditorInv'
  BY EnterKeepsLine
<1>3. CASE command[0] = NUL
  BY <1>2, <1>3, LogUnmoved DEF Enter, AddToHistory, past
<1>4. CASE command[0] # NUL
  <2>1. /\ executed' = Append(executed, Line(command))
        /\ history' = [i \in DOMAIN history |->
                         IF i = 0 THEN command ELSE history[i - 1]]
        /\ historyCount' = IF historyCount < HistorySize
                           THEN historyCount + 1 ELSE historyCount
    BY <1>4 DEF Enter, AddToHistory
  <2>2. /\ Len(executed') = n + 1
        /\ executed' \in Seq({Line(b) : b \in Buffer})
        /\ executed'[n + 1] = Line(command)
        /\ \A k \in 1 .. n : executed'[k] = executed[k]
    <3>1. Line(command) \in {Line(b) : b \in Buffer}
      BY <1>1
    <3> HIDE DEF n
    <3> DEFINE s == executed
    <3> DEFINE T == {Line(b) : b \in Buffer}
    <3> DEFINE e == Line(command)
    <3>2. s \in Seq(T) /\ e \in T /\ executed' = Append(s, e) /\ n = Len(s)
      BY <1>1, <2>1, <3>1 DEF n
    <3> HIDE DEF s, T, e
    <3>3. /\ Len(Append(s, e)) = n + 1 /\ Append(s, e) \in Seq(T)
          /\ Append(s, e)[n + 1] = e
          /\ \A k \in 1 .. n : Append(s, e)[k] = s[k]
      BY <3>2
    <3> QED
      BY <3>2, <3>3 DEF s, T, e
  <2>3. historyCount = (IF n < HistorySize THEN n ELSE HistorySize)
    BY DEF LogInv, HistoryIsLog
  <2>4. historyCount' = (IF n + 1 < HistorySize THEN n + 1 ELSE HistorySize)
    BY <1>1, <2>1, <2>3
  <2>5. ASSUME NEW i \in 0 .. historyCount' - 1
        PROVE  Line(history'[i]) = executed'[n + 1 - i]
    <3>1. i \in Rows /\ i \in Int /\ DOMAIN history = Rows
      BY <1>1, <2>4 DEF Rows, EditorInv
    <3>2. CASE i = 0
      BY <1>1, <2>1, <2>2, <3>1, <3>2
    <3>3. CASE i # 0
      <4>1. i - 1 \in 0 .. historyCount - 1 /\ n - (i - 1) \in 1 .. n
        BY <1>1, <2>3, <2>4, <3>1, <3>3
      <4>2. Line(history[i - 1]) = executed[n - (i - 1)]
        BY <4>1 DEF LogInv, HistoryIsLog
      <4>3. n + 1 - i = n - (i - 1)
        BY <1>1, <3>1
      <4> QED
        BY <2>1, <2>2, <3>1, <3>3, <4>1, <4>2, <4>3
    <3> QED
      BY <3>2, <3>3
  <2>6. \A i \in 0 .. historyCount' - 1 :
          Line(history'[i]) = executed'[Len(executed') - i]
    <3> SUFFICES ASSUME NEW i \in 0 .. historyCount' - 1
                 PROVE  Line(history'[i]) = executed'[Len(executed') - i]
      OBVIOUS
    <3>1. Len(executed') - i = n + 1 - i
      BY <2>2
    <3> QED
      BY <2>5, <3>1
  <2>7. historyIndex' < historyCount'
    BY <1>2 DEF EditorInv
  <2> QED
    BY <2>2, <2>4, <2>6, <2>7 DEF LogInv, HistoryIsLog
<1> QED
  BY <1>3, <1>4

-----------------------------------------------------------------------------
(* The dispatch of a key, and the queue of scan codes.                     *)

LEMMA KeyKeepsLine ==
  ASSUME EditorInv, LogInv, shift \in BOOLEAN, caps \in BOOLEAN,
         NEW code \in Code, NEW release, HandleKey(code, release)
  PROVE  EditorInv' /\ LogInv'
<1>1. ASSUME UNCHANGED <<editor, past, executed>>
      PROVE  EditorInv' /\ LogInv'
  <2>1. EditorInv'
    BY <1>1 DEF EditorInv, editor, past, Terminated, StartMarked
  <2> QED
    BY <1>1, <2>1, LogUnmoved DEF past
<1>2. CASE Up \/ Down
  BY <1>2, ArrowsKeepLine, LogUnmoved
<1>3. CASE Enter
  BY <1>3, EnterKeepsLine, EnterKeepsLog
<1>4. CASE Backspace
  <2>1. UNCHANGED <<history, historyCount, executed>>
    BY <1>4 DEF Backspace, past
  <2> QED
    BY <1>4, <2>1, BackspaceKeepsLine, LogUnmoved
<1>5. ASSUME NEW c \in Char, Insert(c)
      PROVE  EditorInv' /\ LogInv'
  <2>1. UNCHANGED <<history, historyCount, executed>>
    BY <1>5 DEF Insert, past
  <2> QED
    BY <1>5, <2>1, InsertKeepsLine, LogUnmoved
<1>6. ASSUME code \notin {"enter", "back", "up", "down", "shift", "caps"}
      PROVE  <<code, shift \/ caps>> \in Char
  BY <1>6 DEF Code, Char
<1>7. CASE release \/ code \in {"shift", "caps"}
  BY <1>1, <1>7 DEF HandleKey
<1>8. CASE ~ (release \/ code \in {"shift", "caps"}) /\ code \in {"up", "down"}
  BY <1>2, <1>8 DEF HandleKey
<1>9. CASE /\ ~ (release \/ code \in {"shift", "caps"})
           /\ code \notin {"up", "down"} /\ mode = "cli"
  <2>1. CommandKey(code, shift \/ caps)
    BY <1>9 DEF HandleKey
  <2> QED
    BY <1>3, <1>4, <1>5, <1>6, <1>9, <2>1 DEF CommandKey
<1>10. CASE /\ ~ (release \/ code \in {"shift", "caps"})
            /\ code \notin {"up", "down"} /\ mode # "cli"
  BY <1>1, <1>10 DEF HandleKey, ProgramKey
<1> QED
  BY <1>7, <1>8, <1>9, <1>10

\* A scan code that the controller has room for is the last one in the queue.
LEMMA KeyKeepsShift ==
  ASSUME ShiftInv, NEW code \in Code, NEW release \in BOOLEAN,
         Key(code, release)
  PROVE  ShiftInv'
<1> DEFINE e == [code |-> code, release |-> release, game |-> busy]
<1>1. /\ UNCHANGED <<busy, shift, caps>>
      /\ code = "shift" => held = release /\ held' = ~release
      /\ code # "shift" => held' = held
  BY DEF Key
<1>2. held' \in BOOLEAN
  BY <1>1 DEF ShiftInv
<1>3. CASE mixed' = TRUE /\ queue' = queue
  BY <1>1, <1>2, <1>3 DEF ShiftInv
<1>4. CASE queue' = Append(queue, e) /\ mixed' = mixed
  <2>1. e \in Event /\ queue \in Seq(Event) /\ Len(queue) \in Nat
    BY DEF Event, ShiftInv
  <2>2. /\ queue' \in Seq(Event) /\ Len(queue') = Len(queue) + 1
        /\ queue'[Len(queue) + 1] = e
        /\ \A i \in 1 .. Len(queue) : queue'[i] = queue[i]
    BY <1>4, <2>1
  <2>3. e.code = code /\ e.release = release
    OBVIOUS
  <2> HIDE DEF e
  <2>4. ASSUME ~mixed, \A i \in 1 .. Len(queue') : queue'[i].code # "shift"
        PROVE  shift' = held'
    BY <1>1, <1>4, <2>1, <2>2, <2>3, <2>4 DEF ShiftInv
  <2>5. ASSUME ~mixed, NEW i \in 1 .. Len(queue'), queue'[i].code = "shift",
               \A j \in 1 .. Len(queue') : i < j => queue'[j].code # "shift"
        PROVE  queue'[i].release = ~held'
    <3>1. CASE i = Len(queue) + 1
      BY <1>1, <2>2, <2>3, <2>5, <3>1
    <3>2. CASE i \in 1 .. Len(queue)
      <4>1. code # "shift"
        BY <2>1, <2>2, <2>3, <2>5, <3>2
      <4>2. \A j \in 1 .. Len(queue) : i < j => queue[j].code # "shift"
        BY <2>1, <2>2, <2>5
      <4> QED
        BY <1>1, <2>2, <2>5, <3>2, <4>1, <4>2 DEF ShiftInv
    <3> QED
      BY <2>1, <2>2, <3>1, <3>2
  <2> QED
    BY <1>1, <1>2, <1>4, <2>2, <2>4, <2>5 DEF ShiftInv
<1> QED
  BY <1>3, <1>4 DEF Key

LEMMA InterruptKeepsShift ==
  ASSUME ShiftInv, KeyInterrupt
  PROVE  ShiftInv'
<1> DEFINE first == Head(queue)
<1>1. /\ queue \in Seq(Event) /\ queue # <<>> /\ Len(queue) \in Nat \ {0}
      /\ first = queue[1] /\ first \in Event /\ held' = held
  BY DEF ShiftInv, KeyInterrupt
<1>2. ASSUME NEW release \in BOOLEAN, HandleKey(first.code, release)
      PROVE  /\ busy' \in BOOLEAN /\ shift' \in BOOLEAN /\ caps' \in BOOLEAN
             /\ shift' = IF first.code = "shift" THEN ~release ELSE shift
  <2>1. shift' = IF first.code = "shift" THEN ~release ELSE shift
    BY <1>2 DEF HandleKey, ShiftAfter
  <2>2. busy' \in BOOLEAN
    BY <1>2 DEF HandleKey, ShiftInv, Up, Down, CommandKey, Enter, Backspace,
                Insert, ProgramKey
  <2>3. caps' \in BOOLEAN
    BY <1>2 DEF HandleKey, ShiftInv
  <2> QED
    BY <1>2, <2>1, <2>2, <2>3 DEF ShiftInv
<1>3. CASE /\ HandleKey(first.code, first.release)
           /\ queue' = Tail(queue) /\ mixed' = mixed
  <2>1. /\ queue' \in Seq(Event) /\ Len(queue') = Len(queue) - 1
        /\ \A i \in 1 .. Len(queue') : queue'[i] = queue[i + 1]
    BY <1>1, <1>3
  <2>2. first.release \in BOOLEAN
    BY <1>1 DEF Event
  <2>3. /\ busy' \in BOOLEAN /\ shift' \in BOOLEAN /\ caps' \in BOOLEAN
        /\ shift' = IF first.code = "shift" THEN ~first.release ELSE shift
    BY <1>2, <1>3, <2>2
  <2>4. ASSUME ~mixed, \A i \in 1 .. Len(queue') : queue'[i].code # "shift"
        PROVE  shift' = held'
    <3>1. \A i \in 1 .. Len(queue) : i # 1 => queue[i].code # "shift"
      <4> SUFFICES ASSUME NEW i \in 1 .. Len(queue), i # 1
                   PROVE  queue[i].code # "shift"
        OBVIOUS
      <4>1. i - 1 \in 1 .. Len(queue') /\ (i - 1) + 1 = i
        BY <1>1, <2>1
      <4> QED
        BY <2>1, <2>4, <4>1
    <3>2. CASE first.code = "shift"
      <4>1. /\ 1 \in 1 .. Len(queue)
            /\ \A j \in 1 .. Len(queue) : 1 < j => queue[j].code # "shift"
        BY <1>1, <3>1
      <4>2. first.release = ~held
        BY <1>1, <2>4, <3>2, <4>1 DEF ShiftInv
      <4>3. shift' = ~first.release
        BY <2>3, <3>2
      <4>4. held \in BOOLEAN
        BY DEF ShiftInv
      <4> QED
        BY <1>1, <4>2, <4>3, <4>4
    <3>3. CASE first.code # "shift"
      <4>1. \A i \in 1 .. Len(queue) : queue[i].code # "shift"
        BY <1>1, <3>1, <3>3
      <4> QED
        BY <1>1, <2>3, <2>4, <3>3, <4>1 DEF ShiftInv
    <3> QED
      BY <3>2, <3>3
  <2>5. ASSUME ~mixed, NEW i \in 1 .. Len(queue'), queue'[i].code = "shift",
               \A j \in 1 .. Len(queue') : i < j => queue'[j].code # "shift"
        PROVE  queue'[i].release = ~held'
    <3>1. i + 1 \in 1 .. Len(queue) /\ queue'[i] = queue[i + 1]
      BY <1>1, <2>1
    <3>2. ASSUME NEW j \in 1 .. Len(queue), i + 1 < j
          PROVE  queue[j].code # "shift"
      <4>1. j - 1 \in 1 .. Len(queue') /\ i < j - 1 /\ (j - 1) + 1 = j
        BY <1>1, <2>1, <3>2
      <4> QED
        BY <2>1, <2>5, <4>1
    <3> QED
      BY <1>1, <2>5, <3>1, <3>2 DEF ShiftInv
  <2> QED
    BY <1>1, <1>3, <2>1, <2>3, <2>4, <2>5 DEF ShiftInv
<1>4. CASE /\ Len(queue) > 1 /\ HandleKey(first.code, queue[2].release)
           /\ queue' = Tail(Tail(queue)) /\ mixed' = TRUE
  <2>1. queue[2].release \in BOOLEAN
    <3>1. 2 \in 1 .. Len(queue)
      BY <1>1, <1>4
    <3>2. queue[2] \in Event
      BY <1>1, <3>1
    <3> QED
      BY <3>2 DEF Event
  <2>2. queue' \in Seq(Event)
    <3>1. Tail(queue) \in Seq(Event) /\ Len(Tail(queue)) = Len(queue) - 1
      BY <1>1
    <3>2. Tail(queue) # <<>>
      BY <1>1, <1>4, <3>1
    <3> QED
      BY <1>4, <3>1, <3>2
  <2>3. busy' \in BOOLEAN /\ shift' \in BOOLEAN /\ caps' \in BOOLEAN
    BY <1>2, <1>4, <2>1
  <2> QED
    BY <1>1, <1>4, <2>2, <2>3 DEF ShiftInv
<1> QED
  BY <1>3, <1>4 DEF KeyInterrupt

-----------------------------------------------------------------------------
LEMMA ConsoleInit == Init => ConsoleInv
<1> SUFFICES ASSUME Init PROVE ConsoleInv
  OBVIOUS
<1>1. EditorInv
  BY EmptyEnds, ConsoleAssumption DEF Init, EditorInv, Cells, Rows, StartMarked
<1>2. LogInv
  <2>1. executed = <<>> /\ historyCount = 0 /\ historyIndex = -1
    BY DEF Init
  <2>2. executed \in Seq({Line(b) : b \in Buffer}) /\ Len(executed) = 0
    BY <2>1
  <2> QED
    BY <2>1, <2>2, ConsoleAssumption DEF LogInv, HistoryIsLog
<1>3. ShiftInv
  <2>1. /\ queue = <<>> /\ Len(queue) = 0 /\ busy = FALSE /\ shift = FALSE
        /\ caps = FALSE /\ held = FALSE /\ mixed = FALSE
    BY DEF Init
  <2>2. queue \in Seq(Event) /\ \A i \in 1 .. Len(queue) : FALSE
    BY <2>1
  <2> QED
    BY <2>1, <2>2 DEF ShiftInv
<1> QED
  BY <1>1, <1>2, <1>3 DEF ConsoleInv

LEMMA StepKeepsConsole == ConsoleInv /\ [Next]_vars => ConsoleInv'
<1> SUFFICES ASSUME EditorInv, LogInv, ShiftInv, [Next]_vars
             PROVE  ConsoleInv'
  BY DEF ConsoleInv
<1>1. ASSUME UNCHANGED <<editor, past, executed>>
      PROVE  EditorInv' /\ LogInv'
  <2>1. EditorInv'
    BY <1>1 DEF EditorInv, editor, past, Terminated, StartMarked
  <2> QED
    BY <1>1, <2>1, LogUnmoved DEF past
<1>2. ASSUME NEW code \in Code, NEW release \in BOOLEAN, Key(code, release)
      PROVE  ConsoleInv'
  BY <1>1, <1>2, KeyKeepsShift DEF Key, ConsoleInv
<1>3. CASE KeyInterrupt
  <2>1. Head(queue) \in Event
    BY <1>3 DEF KeyInterrupt, ShiftInv
  <2>2. Head(queue).code \in Code
    BY <2>1 DEF Event
  <2>3. shift \in BOOLEAN /\ caps \in BOOLEAN
    BY DEF ShiftInv
  <2>4. EditorInv' /\ LogInv'
    BY <1>3, <2>2, <2>3, KeyKeepsLine DEF KeyInterrupt
  <2> QED
    BY <1>3, <2>4, InterruptKeepsShift DEF ConsoleInv
<1>4. CASE SnakeEnds
  BY <1>1, <1>4 DEF SnakeEnds, ShiftInv, ConsoleInv
<1>5. CASE UNCHANGED vars
  BY <1>1, <1>5 DEF vars, ShiftInv, ConsoleInv
<1> QED
  BY <1>2, <1>3, <1>4, <1>5 DEF Next

LEMMA ConsoleInvariant == Spec => []ConsoleInv
BY ConsoleInit, StepKeepsConsole, PTL DEF Spec

-----------------------------------------------------------------------------
\* parse_command and the history copies always find a NUL, however often the
\* line was edited, recalled and taken back, Backspaces past its start
\* included.
THEOREM LinesAlwaysEnd == Spec => []LinesTerminated
<1>1. EditorInv => LinesTerminated
  BY DEF EditorInv, Terminated, Cells, Rows, Buffer, LinesTerminated
<1> QED
  BY <1>1, ConsoleInvariant, PTL DEF ConsoleInv

\* append_to_command never writes behind the NUL of the line, and before its
\* first character only after a Backspace there.
THEOREM InsertionInLine == Spec => []InsertionPointInLine
<1>1. EditorInv => InsertionPointInLine
  <2> SUFFICES ASSUME EditorInv
               PROVE  commandIndex <= Length(command) /\ (commandIndex < 0 => pastStart)
    BY DEF InsertionPointInLine
  <2>1. /\ Length(command) \in Cells /\ command[Length(command)] = NUL
        /\ commandIndex \in Int /\ BufferSize \in Nat
    BY LengthIsFirstNul, ConsoleAssumption DEF EditorInv
  <2> QED
    BY <2>1 DEF EditorInv, Cells, StartMarked
<1> QED
  BY <1>1, ConsoleInvariant, PTL DEF ConsoleInv

\* The history is the tail of the log of executed lines, newest first.
THEOREM HistoryIsTheLog == Spec => []HistoryIsLog
<1>1. LogInv => HistoryIsLog
  BY DEF LogInv
<1> QED
  BY <1>1, ConsoleInvariant, PTL DEF ConsoleInv

\* Once every scan code is handled the shift flag agrees with the key, unless
\* a code was dropped or two were mixed up.
THEOREM ShiftIsTheKey == Spec => []ShiftFollowsKey
<1>1. ShiftInv => ShiftFollowsKey
  BY DEF ShiftInv, ShiftFollowsKey
<1> QED
  BY <1>1, ConsoleInvariant, PTL DEF ConsoleInv

-----------------------------------------------------------------------------
(***************************************************************************)
(* Types.  Every Backspace is a key that was pressed and is no longer      *)
(* queued, so commandIndex is at most that many below 0.                   *)
(***************************************************************************)
CountInv ==
  /\ events \in 0 .. MaxEvents
  /\ Len(queue) <= QueueSize /\ Len(queue) <= events
  /\ commandIndex + events >= Len(queue)
  /\ mode \in Mode /\ gameKeys \subseteq Mode

\* One key moves the insertion point back by at most one place, and never from
\* the end of a line that was recalled to below 0.
LEMMA KeyMovesOne ==
  ASSUME EditorInv, NEW code \in Code, NEW release, HandleKey(code, release),
         mode \in Mode
  PROVE  /\ commandIndex' >= commandIndex - 1 \/ commandIndex' >= 0
         /\ mode' \in Mode
<1> USE DEF EditorInv
<1>1. CASE UNCHANGED <<mode, editor>>
  BY <1>1 DEF editor
<1>2. CASE Up \/ Down
  <2>1. mode' = mode
    BY <1>2 DEF Up, Down
  <2>2. ASSUME NEW h \in Rows PROVE Length(history[h]) \in Cells
    BY LengthIsFirstNul
  <2>3. CASE Up
    <3>1. CASE historyIndex < historyCount - 1
      <4>1. historyIndex + 1 \in Rows
        BY <3>1, ConsoleAssumption DEF Rows
      <4> QED BY <2>1, <2>2, <2>3, <3>1, <4>1 DEF Up, Recall, Cells
    <3> QED BY <2>1, <2>3, <3>1 DEF Up, editor
  <2>4. CASE Down
    <3>1. CASE historyIndex > 0 /\ commandIndex' = Length(history[historyIndex - 1])
      <4>1. historyIndex - 1 \in Rows
        BY <3>1, ConsoleAssumption DEF Rows
      <4> QED BY <2>1, <2>2, <3>1, <4>1 DEF Cells
    <3> QED BY <2>1, <2>4, <3>1 DEF Down, editor
  <2> QED BY <1>2, <2>3, <2>4
<1>3. CASE Enter
  BY <1>3, ProgramAssumption DEF Enter, Mode
<1>4. CASE Backspace
  BY <1>4 DEF Backspace
<1>5. ASSUME NEW c, Insert(c)
      PROVE  /\ commandIndex' >= commandIndex - 1
             /\ mode' \in Mode
  BY <1>5 DEF Insert, editor
<1>6. CASE ProgramKey(code, shift \/ caps)
  BY <1>6 DEF ProgramKey, editor, Mode
<1>7. CASE release \/ code \in {"shift", "caps"}
  BY <1>1, <1>7 DEF HandleKey
<1>8. CASE ~ (release \/ code \in {"shift", "caps"}) /\ code \in {"up", "down"}
  BY <1>2, <1>8 DEF HandleKey
<1>9. CASE /\ ~ (release \/ code \in {"shift", "caps"})
           /\ code \notin {"up", "down"} /\ mode = "cli"
  <2>1. CommandKey(code, shift \/ caps)
    BY <1>9 DEF HandleKey
  <2> QED
    BY <1>3, <1>4, <1>5, <2>1 DEF CommandKey
<1>10. CASE /\ ~ (release \/ code \in {"shift", "caps"})
            /\ code \notin {"up", "down"} /\ mode # "cli"
  BY <1>6, <1>10 DEF HandleKey
<1> QED
  BY <1>7, <1>8, <1>9, <1>10

LEMMA CountStep == ConsoleInv /\ CountInv /\ [Next]_vars => CountInv'
<1> SUFFICES ASSUME ConsoleInv, CountInv, [Next]_vars PROVE CountInv'
  OBVIOUS
<1>1. /\ EditorInv /\ ShiftInv /\ queue \in Seq(Event) /\ commandIndex \in Int
      /\ Len(queue) \in Nat /\ mode \in Mode /\ events \in Nat
  BY DEF ConsoleInv, EditorInv, ShiftInv, CountInv
<1>2. ASSUME NEW code \in Code, NEW release \in BOOLEAN, Key(code, release)
      PROVE  CountInv'
  <2> DEFINE e == [code |-> code, release |-> release, game |-> busy]
  <2>1. /\ events < MaxEvents /\ events' = events + 1
        /\ UNCHANGED <<mode, commandIndex, gameKeys>>
    BY <1>2 DEF Key, editor
  <2>2. \/ queue' = queue
        \/ Len(queue) < QueueSize /\ queue' = Append(queue, e)
    BY <1>2 DEF Key
  <2>3. Len(queue') \in {Len(queue), Len(queue) + 1} /\ Len(queue') <= QueueSize
    <3>1. e \in Event
      BY <1>1 DEF Event, ShiftInv
    <3> HIDE DEF e
    <3>2. CASE Len(queue) < QueueSize /\ queue' = Append(queue, e)
      BY <1>1, <3>1, <3>2, ConsoleAssumption
    <3>3. CASE queue' = queue
      BY <3>3 DEF CountInv
    <3> QED BY <2>2, <3>2, <3>3
  <2> QED BY <1>1, <2>1, <2>3, ConsoleAssumption DEF CountInv
<1>3. CASE KeyInterrupt
  <2>1. /\ events' = events /\ queue # <<>>
        /\ gameKeys' = IF Head(queue).game THEN gameKeys \cup {mode} ELSE gameKeys
    BY <1>3 DEF KeyInterrupt
  <2>2. PICK release : HandleKey(Head(queue).code, release)
    BY <1>3 DEF KeyInterrupt
  <2>3. Head(queue).code \in Code
    <3>1. Head(queue) \in Event
      BY <1>1, <2>1
    <3> QED BY <3>1 DEF Event
  <2>4. /\ commandIndex' >= commandIndex - 1 \/ commandIndex' >= 0
        /\ mode' \in Mode
    BY <1>1, <2>2, <2>3, KeyMovesOne
  <2>5. Len(queue') \in Nat /\ Len(queue') < Len(queue)
    <3>1. Tail(queue) \in Seq(Event) /\ Len(Tail(queue)) = Len(queue) - 1
      BY <1>1, <2>1
    <3>2. CASE queue' = Tail(queue)
      BY <1>1, <3>1, <3>2
    <3>3. CASE Len(queue) > 1 /\ queue' = Tail(Tail(queue))
      <4> DEFINE t == Tail(queue)
      <4>1. t \in Seq(Event) /\ Len(t) \in Nat /\ Len(t) > 0
        BY <1>1, <3>1, <3>3
      <4> HIDE DEF t
      <4>2. Len(Tail(t)) = Len(t) - 1
        BY <4>1
      <4> QED BY <1>1, <3>1, <3>3, <4>1, <4>2 DEF t
    <3> QED BY <1>3, <3>2, <3>3 DEF KeyInterrupt
  <2>6. commandIndex' \in Int
    BY <1>1, <1>3, StepKeepsConsole DEF Next, ConsoleInv, EditorInv
  <2>7. gameKeys' \subseteq Mode
    BY <1>1, <2>1 DEF CountInv
  <2>8. commandIndex' + events' >= Len(queue')
    BY <1>1, <2>1, <2>4, <2>5, <2>6 DEF CountInv
  <2> QED BY <1>1, <2>1, <2>4, <2>5, <2>7, <2>8, ConsoleAssumption DEF CountInv
<1>4. CASE SnakeEnds
  BY <1>4 DEF SnakeEnds, CountInv, editor, Mode
<1>5. CASE UNCHANGED vars
  BY <1>5 DEF vars, CountInv, editor
<1> QED
  BY <1>2, <1>3, <1>4, <1>5 DEF Next

\* The state of the keyboard and of the command line has its types; in
\* particular the recalled row is one of the history, and commandIndex is at
\* most one below its place for every key.
THEOREM ConsoleTypes == Spec => []TypeOK
<1>1. Init => CountInv
  BY ConsoleAssumption DEF Init, CountInv, Mode
<1>2. ConsoleInv /\ CountInv => TypeOK
  <2> SUFFICES ASSUME ConsoleInv, CountInv PROVE TypeOK
    OBVIOUS
  <2>1. Len(queue) \in Nat
    BY DEF ConsoleInv, ShiftInv
  <2>2. commandIndex \in -MaxEvents .. BufferSize - 1
    BY <2>1, ConsoleAssumption DEF ConsoleInv, EditorInv, CountInv
  <2>3. historyIndex \in -1 .. HistorySize - 1
    BY ConsoleAssumption DEF ConsoleInv, EditorInv
  <2> QED
    BY <2>2, <2>3 DEF TypeOK, ConsoleInv, EditorInv, ShiftInv, CountInv, Rows, StartMarked
<1> QED
  BY <1>1, <1>2, CountStep, ConsoleInvariant, PTL DEF Spec
=============================================================================
