------------------------------- MODULE Display -------------------------------
(***************************************************************************)
(* The text screen, src/1.2/drivers/display/display.cpp: print_char called *)
(* by main at boot, one step per access to the cursor registers and to the *)
(* screen's memory, and by interrupt handlers in between, where it runs    *)
(* undisturbed.  Scrolling copies byte by byte, each loaded and stored.    *)
(*                                                                         *)
(* Positions are cells; the code counts bytes, two per cell.  The cursor   *)
(* registers are one pair of ports for both halves of the position: the    *)
(* first port selects a half, the second one reads or writes it.           *)
(***************************************************************************)
EXTENDS Integers

CONSTANTS
  Rows, Cols,    \* MAX_ROWS (25), MAX_COLS (80)
  Base,          \* values of one cursor register (256)
  MainChar,      \* what main prints at boot
  KeyChar,       \* what the keyboard handler prints for a key
  MaxPrints,     \* bound: characters printed by main
  MaxKeys        \* bound: characters printed by the handler

ASSUME ScreenAssumption ==
  /\ Rows \in Nat \ {0} /\ Cols \in Nat \ {0}
  /\ Base \in Nat \ {0} /\ Rows * Cols <= Base * Base
  /\ MaxPrints \in Nat /\ MaxKeys \in Nat

VARIABLES
  vram,          \* the characters and colours on the screen
  selected,      \* the half that the index port selects
  high, low,     \* the two halves of the cursor position
  pc,            \* how far main's print_char has come
  char, offset,  \* its argument, its position
  copied, byte,  \* the cells it has scrolled, the byte it has loaded
  scrolls,       \* history: how often the screen was scrolled
  disturbed,     \* history: a handler printed between two port accesses of
                 \* main, or a Backspace was printed at position 0
  nested,        \* history: a handler scrolled while main did
  prints, keys   \* characters printed so far (bounded by MaxPrints, MaxKeys)

ports == <<selected, high, low>>
history == <<scrolls, disturbed, nested>>
copy == <<copied, byte>>
display == <<vram, ports, history>>
print == <<pc, char, offset, copy, prints>>

Size  == Rows * Cols
Cells == 0 .. Size - 1
Glyph(ch, at) == [char |-> ch, attr |-> at]
Blank == Glyph("nul", "none")      \* two zero bytes

InitDisplay ==
  /\ vram = [c \in Cells |-> Blank]
  /\ selected = "high" /\ high = 0 /\ low = 0
  /\ pc = "idle" /\ char = "nul" /\ offset = 0
  /\ copied = 0 /\ byte = "nul"
  /\ scrolls = 0 /\ disturbed = FALSE /\ nested = FALSE
  /\ prints = 0 /\ keys = 0

-----------------------------------------------------------------------------
(* print_char between get_cursor and set_cursor.                           *)

\* The cell a character goes to.  A newline clears the first cell of the
\* next row; behind the screen get_screen_offset answers -1, which makes it 0.
Target(ch, o) ==
  CASE ch = "newline" -> IF o < Size THEN (o \div Cols + 1) * Cols ELSE 0
    [] ch = "backspace" -> o - 1
    [] OTHER     -> o

Advanced(ch, o) == IF ch \in {"newline", "backspace"} THEN Target(ch, o) ELSE o + 1

\* The two bytes of a character, one after the other.  -1 is an odd byte: the
\* write behind the screen's end hits the colour of cell 0 and the character
\* of cell 1.  Other bytes outside the screen are memory that is not shown.
Odd(ch, o) == ch = "newline" /\ o >= Size
Lettered(v, ch, o) ==
  IF Odd(ch, o) THEN [v EXCEPT ![0].attr = "odd"]
  ELSE [v EXCEPT ![Target(ch, o)].char =
          IF ch \in {"newline", "backspace"} THEN " " ELSE ch]
Coloured(v, ch, o) ==
  IF Odd(ch, o) THEN [v EXCEPT ![1].char = "odd"]
  ELSE [v EXCEPT ![Target(ch, o)].attr = "text"]
Drawn(v, ch, o) == Coloured(Lettered(v, ch, o), ch, o)

\* handle_scrolling: the rows move up by one, the position too.
\* Mutant of Overflows: the first position behind the screen is let pass.
OverflowsLate(o) == o > Size
Overflows(o) == o >= Size
Below(v, c) == IF c + Cols \in Cells THEN v[c + Cols] ELSE Blank
ScrolledUp(v) == [c \in Cells |-> Below(v, c)]

Scroll(v, o) ==
  /\ vram' = IF Overflows(o) THEN ScrolledUp(v) ELSE v
  /\ scrolls' = IF Overflows(o) THEN scrolls + 1 ELSE scrolls
Back(o) == IF Overflows(o) THEN o - Cols ELSE o

\* What set_cursor leaves in the two registers; -1 becomes all ones.
HighOf(o) == (o \div Base) % Base
LowOf(o)  == o % Base

-----------------------------------------------------------------------------
(* main.                                                                   *)

PrintNext(c) ==
  /\ pc = "idle" /\ prints < MaxPrints
  /\ pc' = "get high" /\ char' = c
  /\ prints' = prints + 1
  /\ UNCHANGED <<display, offset, copy, keys>>

\* One write to the index port.
Select(at, half, to) ==
  /\ pc = at
  /\ selected' = half
  /\ pc' = to
  /\ UNCHANGED <<vram, high, low, history, char, offset, copy, prints, keys>>

Selected == IF selected = "high" THEN high ELSE low

GetHigh ==
  /\ pc = "read high"
  /\ offset' = Selected * Base
  /\ pc' = "get low"
  /\ UNCHANGED <<display, char, copy, prints, keys>>

GetLow ==
  /\ pc = "read low"
  /\ offset' = offset + Selected
  /\ pc' = "draw"
  /\ UNCHANGED <<display, char, copy, prints, keys>>

Draw ==
  /\ pc = "draw"
  /\ vram' = Lettered(vram, char, offset)
  /\ pc' = "colour"
  /\ UNCHANGED <<ports, history, char, offset, copy, prints, keys>>

Colour ==
  /\ pc = "colour"
  /\ vram' = Coloured(vram, char, offset)
  /\ offset' = Advanced(char, offset)
  /\ disturbed' = (disturbed \/ Advanced(char, offset) < 0)
  /\ pc' = "scroll"
  /\ UNCHANGED <<ports, scrolls, nested, char, copy, prints, keys>>

HandleScrolling ==
  /\ pc = "scroll"
  /\ IF Overflows(offset) THEN pc' = "load char" /\ scrolls' = scrolls + 1
     ELSE pc' = "set high" /\ UNCHANGED scrolls
  /\ UNCHANGED <<vram, ports, disturbed, nested, char, offset, copy, prints, keys>>

\* memory_copy, and the blanking of the last row.
LoadByte ==
  /\ \/ pc = "load char" /\ byte' = Below(vram, copied).char /\ pc' = "store char"
     \/ pc = "load attr" /\ byte' = Below(vram, copied).attr /\ pc' = "store attr"
  /\ UNCHANGED <<display, char, offset, copied, prints, keys>>

StoreChar ==
  /\ pc = "store char"
  /\ vram' = [vram EXCEPT ![copied].char = byte]
  /\ pc' = "load attr"
  /\ UNCHANGED <<ports, history, char, offset, copy, prints, keys>>

\* The last byte of the last cell is followed by the end of handle_scrolling.
StoreAttr ==
  /\ pc = "store attr"
  /\ vram' = [vram EXCEPT ![copied].attr = byte]
  /\ byte' = "nul"
  /\ IF copied + 1 = Size
     THEN copied' = 0 /\ offset' = Back(offset) /\ pc' = "set high"
     ELSE copied' = copied + 1 /\ pc' = "load char" /\ UNCHANGED offset
  /\ UNCHANGED <<ports, history, char, prints, keys>>

\* One write to the data port.
SetHalf(at, value, to) ==
  /\ pc = at
  /\ IF selected = "high" THEN high' = value /\ UNCHANGED low
                          ELSE low' = value /\ UNCHANGED high
  /\ pc' = to
  /\ UNCHANGED <<vram, selected, history, char, offset, copy, prints, keys>>

PrintChar ==
  \/ Select("get high", "high", "read high") \/ GetHigh
  \/ Select("get low", "low", "read low") \/ GetLow
  \/ Draw \/ Colour
  \/ HandleScrolling \/ LoadByte \/ StoreChar \/ StoreAttr
  \/ Select("set high", "high", "write high")
  \/ SetHalf("write high", HighOf(offset), "set low")
  \/ Select("set low", "low", "write low")
  \/ SetHalf("write low", LowOf(offset), "idle")

-----------------------------------------------------------------------------
(* A handler that prints: the whole of print_char in one step.             *)

PortsInUse == pc \in {"read high", "get low", "read low",
                      "write high", "set low", "write low"}

Copying == pc \in {"load char", "store char", "load attr", "store attr"}

EchoKey(c) ==
  /\ keys < MaxKeys /\ keys' = keys + 1
  /\ LET o == high * Base + low
         n == Advanced(c, o)
     IN  /\ Scroll(Drawn(vram, c, o), n)
         /\ high' = HighOf(Back(n)) /\ low' = LowOf(Back(n))
         /\ disturbed' = (disturbed \/ PortsInUse \/ n < 0)
         /\ nested' = (nested \/ (Copying /\ Overflows(n)))
  /\ selected' = "low"
  /\ UNCHANGED print
=============================================================================
