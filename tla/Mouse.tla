-------------------------------- MODULE Mouse --------------------------------
(***************************************************************************)
(* src/1.2/drivers/input/mouse.cpp: the interrupt handler that puts        *)
(* three-byte packets together, and the pointer it draws into the text.    *)
(* The mouse itself, which sends the packets, is not part of the code.  A  *)
(* byte may be lost to the keyboard handler, which reads the same port     *)
(* twice.                                                                  *)
(***************************************************************************)
EXTENDS Display, Sequences

CONSTANTS
  Packet,        \* the packets the mouse sends
  MaxBytes,      \* bound: bytes sent
  MaxLost        \* bound: bytes lost

Byte == 0 .. 255
Has(b, bit) == (b \div bit) % 2 = 1
First == 8                         \* the bit every first byte has
ASSUME PacketAssumption ==
  /\ Packet \subseteq Byte \X Byte \X Byte /\ Packet # {}
  /\ \A p \in Packet : Has(p[1], First)
  /\ MaxBytes \in Nat /\ MaxLost \in Nat

VARIABLES
  packet, sent,  \* the mouse: the packet it sends, how many bytes are out
  cycle, bytes,  \* mouse_cycle, mouse_bytes
  x, y,          \* mouse_state
  lastCell, lastX, lastY,  \* what the pointer hides, and where
  dragged,       \* history: movements of the pointer while main scrolled
  trust,         \* history: "sure" unless a byte was lost and no complete
                 \* plain packet came since
  count, missed  \* bytes sent and lost (bounded by MaxBytes, MaxLost)

pointer == <<x, y, lastCell, lastX, lastY, dragged>>
wire == <<packet, sent, cycle, bytes, trust, count, missed>>
mouse == <<pointer, wire>>

Pointer == Glyph(" ", "pointer")

InitMouse ==
  /\ packet = CHOOSE p \in Packet : TRUE
  /\ sent = 0 /\ cycle = 0 /\ bytes = <<0, 0, 0>>
  /\ x = Cols \div 2 /\ y = Rows \div 2
  /\ lastCell = Glyph(" ", "grey") /\ lastX = 0 /\ lastY = 0
  /\ dragged = 0 /\ trust = "sure" /\ count = 0 /\ missed = 0

-----------------------------------------------------------------------------
\* A movement byte as int8_t, and C's division by 10.
Signed(b) == IF b >= 128 THEN b - 256 ELSE b
Tenth(n) == IF n < 0 THEN -((-n) \div 10) ELSE n \div 10
\* Mutant of Clamp: the column behind the last one is let pass.
ClampLate(n, size) == IF n < 0 THEN 0 ELSE IF n > size THEN size - 1 ELSE n
Clamp(n, size) == IF n < 0 THEN 0 ELSE IF n >= size THEN size - 1 ELSE n

Hidden == lastY * Cols + lastX
\* Mutant of Restored: the last cell is not given back.
RestoredNot(clicked) == vram
Restored(clicked) == IF clicked THEN vram ELSE [vram EXCEPT ![Hidden] = lastCell]

\* update_mouse_cursor.  With a button down the text is coloured and the
\* pointer stays where it was drawn last.
UpdateCursor(flags, dx, dy) ==
  LET left == Has(flags, 1)
      right == Has(flags, 2)
      back == Restored(left \/ right)
      nx == Clamp(x + Tenth(dx), Cols)
      ny == Clamp(y - Tenth(dy), Rows)
      cell == ny * Cols + nx
  IN  /\ x' = nx /\ y' = ny
      /\ IF left \/ right
         THEN /\ vram' = [back EXCEPT ![cell].attr = IF left THEN "paint"
                                                             ELSE "red"]
              /\ UNCHANGED <<lastCell, lastX, lastY, dragged>>
         ELSE /\ vram' = [back EXCEPT ![cell] = Pointer]
              /\ lastCell' = back[cell] /\ lastX' = nx /\ lastY' = ny
              /\ dragged' = dragged + IF Copying THEN 1 ELSE 0

\* Mutant of Accepts: any byte may come first.
AcceptsAny(b) == TRUE
Accepts(b) == Has(b, First)

\* The interrupt handler, given a byte.
MouseInterrupt(b) ==
  \/ /\ cycle = 0 /\ ~Accepts(b)
     /\ UNCHANGED <<cycle, bytes, pointer, vram>>
  \/ /\ (cycle = 0 /\ Accepts(b)) \/ cycle = 1
     /\ bytes' = [bytes EXCEPT ![cycle + 1] = b]
     /\ cycle' = cycle + 1
     /\ UNCHANGED <<pointer, vram>>
  \/ /\ cycle = 2
     /\ bytes' = [bytes EXCEPT ![3] = b]
     /\ cycle' = 0
     /\ UpdateCursor(bytes[1], Signed(bytes[2]), Signed(b))

\* No movement byte of the packet can be taken for a first byte.
Plain(p) == ~Has(p[2], First) /\ ~Has(p[3], First)
TrustAfter(p) ==
  CASE trust = "lost" /\ sent = 0   -> "resync"
    [] trust = "resync" /\ sent = 2 -> IF Plain(p) THEN "sure" ELSE "lost"
    [] OTHER -> trust

MouseByte ==
  /\ count < MaxBytes /\ count' = count + 1
  /\ packet' \in IF sent = 0 THEN Packet ELSE {packet}
  /\ sent' = (sent + 1) % 3
  /\ \/ /\ MouseInterrupt(packet'[sent + 1])
        /\ trust' = TrustAfter(packet')
        /\ UNCHANGED missed
     \/ /\ missed < MaxLost /\ missed' = missed + 1
        /\ trust' = "lost"
        /\ UNCHANGED <<cycle, bytes, pointer, vram>>
  /\ UNCHANGED <<ports, history, print, keys>>
=============================================================================
