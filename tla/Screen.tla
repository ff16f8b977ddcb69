------------------------------- MODULE Screen -------------------------------
(***************************************************************************)
(* The screen and everyone who writes to it while the kernel boots:        *)
(* main, which prints and can be interrupted between any two of its port   *)
(* or memory accesses; the keyboard handler, which echoes keys as long as  *)
(* no command line is there; the mouse handler.  Handlers run with         *)
(* interrupts off, so each is one step.                                    *)
(***************************************************************************)
EXTENDS Mouse, FiniteSets

vars == <<display, print, keys, mouse>>

Init == InitDisplay /\ InitMouse

Next ==
  \/ \E c \in MainChar : PrintNext(c) /\ UNCHANGED mouse
  \/ PrintChar /\ UNCHANGED mouse
  \/ \E c \in KeyChar : EchoKey(c) /\ UNCHANGED mouse
  \/ MouseByte

Spec == Init /\ [][Next]_vars

-----------------------------------------------------------------------------
(* Properties.                                                             *)

Chars == MainChar \cup KeyChar \cup {"nul", " ", "odd"}
Colours == {"none", "text", "grey", "pointer", "paint", "red", "odd"}
Cell == [char : Chars, attr : Colours]

\* Types.  The position main works on can lie behind the screen.
TypeOK ==
  /\ vram \in [Cells -> Cell]
  /\ selected \in {"high", "low"}
  /\ high \in 0 .. Base - 1 /\ low \in 0 .. Base - 1
  /\ pc \in {"idle", "get high", "read high", "get low", "read low", "draw",
             "colour", "scroll", "load char", "store char", "load attr",
             "store attr", "set high", "write high", "set low", "write low"}
  /\ char \in Chars /\ offset \in -1 .. Base * Base
  /\ copied \in Cells
  /\ pc = "store char" => byte \in Chars
  /\ pc = "store attr" => byte \in Colours
  /\ scrolls \in Nat /\ dragged \in Nat
  /\ disturbed \in BOOLEAN /\ nested \in BOOLEAN
  /\ packet \in Packet /\ sent \in 0 .. 2
  /\ cycle \in 0 .. 2 /\ bytes \in Byte \X Byte \X Byte
  /\ x \in 0 .. Cols - 1 /\ y \in 0 .. Rows - 1
  /\ lastCell \in Cell /\ lastX \in 0 .. Cols - 1 /\ lastY \in 0 .. Rows - 1
  /\ trust \in {"sure", "lost", "resync"}

\* Between two characters the cursor registers hold a position on the screen.
\* Nothing but a handler that prints between two of main's port accesses, or a
\* Backspace at position 0, can change that: scrolling always brings the
\* position back, and handlers in between two characters do no harm.
CursorOnScreen == pc = "idle" /\ ~disturbed => high * Base + low \in Cells

\* The pointer is drawn into the text and taken out again.  Beside its own cell
\* a scroll leaves one cell in its colour behind at the most, and a movement in
\* the middle of a scroll one more, as the copy has come by the old place and
\* has the new one before it; nothing else does: not clicks, not text printed
\* over it, not pointers found under the pointer.  (A handler that scrolls while
\* main does so doubles a row, with whatever is in it.)
PointersLeftByScrolls ==
  LET left == {c \in Cells : vram[c].attr = "pointer"} \ {Hidden}
      covered == IF lastCell.attr = "pointer" THEN 1 ELSE 0
  IN  ~Copying /\ ~nested => Cardinality(left) + covered <= scrolls + dragged

\* The handler's position in a packet is the mouse's, and one complete packet
\* without a movement byte that looks like a first byte is enough to bring it
\* back after a byte was lost.
PacketsInStep == trust = "sure" => cycle = sent

\* handle_scrolling says "Move the offset back one row, such that it is now on
\* the last row, rather than off the edge of the screen".
ScrollEndsOnLastRow ==
  [][pc = "store attr" /\ pc' = "set high" => offset' \div Cols = Rows - 1]_vars

\* update_mouse_cursor says of clicks: "**PERMANENTLY** change color if
\* clicked".  Moving the pointer takes no colour away, it only covers it.
ClickIsPermanent ==
  [][\A c \in Cells : vram[c].attr = "paint" /\ count' > count
       => vram'[c].attr \in {"paint", "red", "pointer"}]_vars
=============================================================================
