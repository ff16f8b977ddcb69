---------------------------- MODULE Screen_proofs ----------------------------
(***************************************************************************)
(* The cursor comes back to the screen, the mouse's packets come back into *)
(* step, and only scrolling leaves pictures of the pointer behind, for     *)
(* every size of the screen, every text and any mouse.                     *)
(***************************************************************************)
EXTENDS Screen, FiniteSetTheorems, TLAPS

Position == high * Base + low
Halves == high \in 0 .. Base - 1 /\ low \in 0 .. Base - 1

Label == {"idle", "get high", "read high", "get low", "read low", "draw",
          "colour", "scroll", "load char", "store char", "load attr",
          "store attr", "set high", "write high", "set low", "write low"}

\* Where main is in print_char, as long as no handler has been in its way.
\* Handlers may print wherever main does not rely on the registers.
InPrintChar ==
  /\ pc \in Label
  /\ pc \notin {"set low", "write low"} => Position \in Cells
  /\ pc \in {"read high", "write high"} => selected = "high"
  /\ pc \in {"read low", "write low"} => selected = "low"
  /\ pc \in {"get low", "read low"} => offset = high * Base
  /\ pc = "scroll" \/ Copying => offset \in 0 .. Size
  /\ pc \in {"draw", "colour", "set high", "write high", "set low", "write low"} =>
       offset \in Cells
  /\ pc \in {"set low", "write low"} => high = HighOf(offset)

CursorInv == ~disturbed => Halves /\ InPrintChar

\* After a loss the first byte of the next packet is stored somewhere, and a
\* plain packet then leaves the handler at the end of one or waiting for it.
PacketInv ==
  /\ packet \in Packet /\ sent \in 0 .. 2 /\ cycle \in 0 .. 2
  /\ trust \in {"sure", "lost", "resync"}
  /\ trust = "sure" => cycle = sent
  /\ trust = "resync" =>
       /\ sent \in {1, 2}
       /\ sent = 2 /\ Plain(packet) => cycle \in {0, 2}

-----------------------------------------------------------------------------
(* What the operators of print_char return.                                *)

LEMMA SizeOfScreen ==
  /\ Size \in Nat /\ Size <= Base * Base /\ Cols <= Size
  /\ Base \in Nat \ {0} /\ Cols \in Nat \ {0}
<1>1. Rows * Cols >= Cols
  BY ScreenAssumption
<1> QED
  BY <1>1, ScreenAssumption DEF Size

LEMMA SizeIsNat == Size \in Nat
BY SizeOfScreen

LEMMA NextRow ==
  ASSUME NEW o \in Cells
  PROVE  (o \div Cols + 1) * Cols \in 0 .. Size
<1> DEFINE q == o \div Cols
<1>1. q \in Nat /\ q * Cols <= o
  BY ScreenAssumption, SizeOfScreen DEF Cells
<1>2. q < Rows
  <2>1. ASSUME q >= Rows PROVE FALSE
    <3>1. q * Cols >= Rows * Cols
      BY <1>1, <2>1, ScreenAssumption
    <3> QED
      BY <3>1, <1>1, SizeOfScreen DEF Cells, Size
  <2> QED
    BY <2>1, <1>1, ScreenAssumption
<1>3. (q + 1) * Cols <= Rows * Cols
  BY <1>1, <1>2, ScreenAssumption
<1>4. (q + 1) * Cols \in Nat
  BY <1>1, ScreenAssumption
<1> QED
  BY <1>3, <1>4, SizeOfScreen DEF Size

LEMMA AdvancedInRange ==
  ASSUME NEW ch, NEW o \in Cells
  PROVE  Advanced(ch, o) \in -1 .. Size
<1>1. o \in Nat /\ o < Size
  BY SizeOfScreen DEF Cells
<1> QED
  BY <1>1, NextRow, SizeOfScreen DEF Advanced, Target

LEMMA AdvancedOnScreen ==
  ASSUME NEW ch, NEW o \in Cells, ~(Advanced(ch, o) < 0)
  PROVE  Advanced(ch, o) \in 0 .. Size
BY AdvancedInRange, SizeIsNat

LEMMA BackOnScreen ==
  ASSUME NEW o \in 0 .. Size
  PROVE  Back(o) \in Cells
BY SizeOfScreen DEF Back, Overflows, Cells

LEMMA StaysOnScreen ==
  ASSUME NEW o \in 0 .. Size, ~Overflows(o)
  PROVE  o \in Cells
BY SizeOfScreen DEF Overflows, Cells

LEMMA SmallRemainder ==
  ASSUME NEW a \in Nat, NEW b \in Nat, a < b
  PROVE  a % b = a
<1>1. a \div b = 0
  OBVIOUS
<1> QED
  BY <1>1

LEMMA ProductsGrow ==
  ASSUME NEW a \in Nat, NEW b \in Nat, NEW c \in Nat, b <= a
  PROVE  b * c <= a * c
OBVIOUS

\* What set_cursor writes is what get_cursor reads.
LEMMA RegistersHold ==
  ASSUME NEW o \in Cells
  PROVE  /\ HighOf(o) \in 0 .. Base - 1 /\ LowOf(o) \in 0 .. Base - 1
         /\ HighOf(o) * Base + LowOf(o) = o
<1> DEFINE q == o \div Base
<1>1. o \in Nat /\ o < Base * Base
  BY SizeOfScreen DEF Cells
<1>2. q \in Nat /\ q * Base + (o % Base) = o /\ o % Base \in 0 .. Base - 1
  BY <1>1, SizeOfScreen
<1>3. q < Base
  <2>1. ASSUME q >= Base PROVE FALSE
    <3>1. q * Base >= Base * Base
      BY <1>2, <2>1, SizeOfScreen, ProductsGrow
    <3> QED
      BY <3>1, <1>1, <1>2, SizeOfScreen
  <2> QED
    BY <2>1, <1>2, SizeOfScreen
<1>4. q % Base = q
  BY <1>2, <1>3, SizeOfScreen, SmallRemainder
<1>5. HighOf(o) = q /\ LowOf(o) = o % Base
  BY <1>4 DEF HighOf, LowOf
<1>6. q \in 0 .. Base - 1
  BY <1>2, <1>3, SizeOfScreen
<1> HIDE DEF q
<1> QED
  BY <1>2, <1>5, <1>6

-----------------------------------------------------------------------------
(* The cursor.                                                             *)

LEMMA CursorInit == Init => CursorInv
BY SizeOfScreen
DEF Init, InitDisplay, CursorInv, Halves, InPrintChar, Position, Cells, Label, Copying

\* main goes on with print_char.
LEMMA PrintKeepsCursor ==
  ASSUME CursorInv, PrintChar
  PROVE  CursorInv'
<1> SUFFICES ASSUME ~disturbed' PROVE (Halves /\ InPrintChar)'
  BY DEF CursorInv
<1>0. ~disturbed
  <2>1. CASE Colour
    BY <2>1, Zenon DEF Colour
  <2>2. CASE UNCHANGED disturbed
    BY <2>2
  <2> QED
    BY <2>1, <2>2, Zenon DEF PrintChar, Select, GetHigh, GetLow, Draw, HandleScrolling,
                             LoadByte, StoreChar, StoreAttr, SetHalf, display, history
<1>1. Halves /\ InPrintChar
  BY <1>0 DEF CursorInv
<1> USE <1>1 DEF Halves, InPrintChar, Position, Label, Copying
<1>2. CASE \/ Select("get high", "high", "read high")
           \/ Select("get low", "low", "read low")
           \/ Select("set high", "high", "write high")
           \/ Select("set low", "low", "write low")
  BY <1>2 DEF Select
<1>3. CASE GetHigh
  BY <1>3 DEF GetHigh, Selected, display, ports
<1>4. CASE GetLow
  BY <1>4 DEF GetLow, Selected, display, ports
<1>5. CASE Colour
  <2>1. ~(Advanced(char, offset) < 0)
    BY <1>5, Zenon DEF Colour
  <2>2. offset \in Cells
    BY <1>5 DEF Colour
  <2>3. Advanced(char, offset) \in 0 .. Size
    BY <2>1, <2>2, AdvancedOnScreen
  <2> QED
    BY <1>5, <2>3 DEF Colour, ports
<1>6. CASE Draw \/ HandleScrolling
  <2>1. ~Overflows(offset) /\ offset \in 0 .. Size => offset \in Cells
    BY StaysOnScreen
  <2> QED
    BY <1>6, <2>1 DEF Draw, HandleScrolling, ports
<1>7. CASE SetHalf("write high", HighOf(offset), "set low")
  BY <1>7, RegistersHold DEF SetHalf
<1>8. CASE SetHalf("write low", LowOf(offset), "idle")
  BY <1>8, RegistersHold DEF SetHalf
<1>9. CASE LoadByte \/ StoreChar
  BY <1>9 DEF LoadByte, StoreChar, display, ports
<1>10. CASE StoreAttr
  BY <1>10, BackOnScreen DEF StoreAttr, ports
<1> QED
  BY <1>2, <1>3, <1>4, <1>5, <1>6, <1>7, <1>8, <1>9, <1>10 DEF PrintChar

\* A handler prints, between two characters or where main can bear it.
LEMMA EchoKeepsCursor ==
  ASSUME CursorInv, NEW c \in KeyChar, EchoKey(c)
  PROVE  CursorInv'
<1> SUFFICES ASSUME ~disturbed' PROVE (Halves /\ InPrintChar)'
  BY DEF CursorInv
<1> DEFINE n == Advanced(c, Position)
<1>1. ~disturbed /\ ~PortsInUse /\ ~(n < 0)
  BY DEF EchoKey, Position
<1>2. Halves /\ InPrintChar /\ Position \in Cells
  BY <1>1 DEF CursorInv, InPrintChar, PortsInUse
<1>3. n \in 0 .. Size
  BY <1>1, <1>2, AdvancedOnScreen
<1>4. Back(n) \in Cells
  BY <1>3, BackOnScreen
<1>5. Halves' /\ Position' \in Cells
  BY <1>4, RegistersHold DEF EchoKey, Halves, Position
<1>6. UNCHANGED <<pc, offset>>
  BY DEF EchoKey, print
<1> QED
  BY <1>1, <1>2, <1>5, <1>6 DEF InPrintChar, PortsInUse, Label, Copying

LEMMA StepKeepsCursor == CursorInv /\ [Next]_vars => CursorInv'
<1> SUFFICES ASSUME CursorInv, [Next]_vars PROVE CursorInv'
  OBVIOUS
<1>1. CASE \E c \in MainChar : PrintNext(c)
  <2>1. pc = "idle" /\ pc' = "get high" /\ UNCHANGED <<high, low, disturbed>>
    BY <1>1 DEF PrintNext, display, ports, history
  <2>2. UNCHANGED <<Position, Halves>>
    BY <2>1 DEF Position, Halves
  <2> QED
    BY <2>1, <2>2 DEF CursorInv, InPrintChar, Label, Copying
<1>2. CASE PrintChar
  BY <1>2, PrintKeepsCursor
<1>3. CASE \E c \in KeyChar : EchoKey(c)
  BY <1>3, EchoKeepsCursor
<1>4. CASE MouseByte \/ UNCHANGED vars
  <2>1. UNCHANGED <<selected, high, low, disturbed, pc, offset>>
    BY <1>4 DEF MouseByte, vars, display, print, ports, history
  <2>2. UNCHANGED <<Position, Halves, HighOf(offset)>>
    BY <2>1 DEF Position, Halves, HighOf
  <2>3. UNCHANGED InPrintChar
    BY <2>1, <2>2, Zenon DEF InPrintChar, Copying
  <2> QED
    BY <2>1, <2>2, <2>3, Zenon DEF CursorInv
<1> QED
  BY <1>1, <1>2, <1>3, <1>4 DEF Next

-----------------------------------------------------------------------------
(* The packets.                                                            *)

LEMMA PacketInit == Init => PacketInv
<1> SUFFICES ASSUME Init PROVE PacketInv
  OBVIOUS
<1>1. packet \in Packet
  BY PacketAssumption DEF Init, InitMouse
<1>2. sent = 0 /\ cycle = 0 /\ trust = "sure"
  BY DEF Init, InitMouse
<1> QED
  BY <1>1, <1>2 DEF PacketInv

\* What the handler does with the byte it gets, as far as packets go.
LEMMA HandlerCounts ==
  ASSUME NEW b, MouseInterrupt(b), cycle \in 0 .. 2
  PROVE  \/ cycle = 0 /\ ~Has(b, First) /\ cycle' = 0
         \/ ((cycle = 0 /\ Has(b, First)) \/ cycle = 1) /\ cycle' = cycle + 1
         \/ cycle = 2 /\ cycle' = 0
BY DEF MouseInterrupt, Accepts

LEMMA ByteKeepsPackets ==
  ASSUME PacketInv, MouseByte
  PROVE  PacketInv'
<1> USE DEF PacketInv
<1>1. packet' \in Packet /\ Has(packet'[1], First)
  BY PacketAssumption DEF MouseByte
<1>2. sent' \in 0 .. 2 /\ sent' = (sent + 1) % 3
  BY DEF MouseByte
<1>3. sent # 0 => packet' = packet
  BY DEF MouseByte
<1>4. CASE trust' = "lost" /\ UNCHANGED cycle
  BY <1>1, <1>2, <1>4
<1>5. CASE MouseInterrupt(packet'[sent + 1]) /\ trust' = TrustAfter(packet')
  <2> DEFINE b == packet'[sent + 1]
  <2>1. \/ cycle = 0 /\ ~Has(b, First) /\ cycle' = 0
        \/ ((cycle = 0 /\ Has(b, First)) \/ cycle = 1) /\ cycle' = cycle + 1
        \/ cycle = 2 /\ cycle' = 0
    BY <1>5, HandlerCounts
  <2>2. cycle' \in 0 .. 2
    BY <2>1
  <2>3. CASE trust = "sure"
    <3>1. trust' = "sure" /\ cycle = sent
      BY <1>5, <2>3 DEF TrustAfter
    <3> QED
      BY <1>1, <1>2, <2>1, <2>2, <3>1
  <2>4. CASE trust = "lost"
    <3>1. trust' = IF sent = 0 THEN "resync" ELSE "lost"
      BY <1>5, <2>4 DEF TrustAfter
    <3> QED
      BY <1>1, <1>2, <2>2, <3>1
  <2>5. CASE trust = "resync" /\ sent = 1
    <3>1. trust' = "resync" /\ sent' = 2 /\ b = packet'[2]
      BY <1>2, <1>5, <2>5 DEF TrustAfter
    <3>2. Plain(packet') => ~Has(b, First)
      BY <3>1 DEF Plain
    <3> QED
      BY <1>1, <2>1, <2>2, <3>1, <3>2
  <2>6. CASE trust = "resync" /\ sent = 2
    <3>1. /\ trust' = IF Plain(packet') THEN "sure" ELSE "lost"
          /\ sent' = 0 /\ b = packet'[3] /\ packet' = packet
      BY <1>2, <1>3, <1>5, <2>6 DEF TrustAfter
    <3>2. Plain(packet') => ~Has(b, First) /\ cycle \in {0, 2}
      BY <2>6, <3>1 DEF Plain
    <3> QED
      BY <1>1, <2>1, <2>2, <3>1, <3>2
  <2> QED
    BY <2>3, <2>4, <2>5, <2>6
<1> QED
  BY <1>4, <1>5 DEF MouseByte

LEMMA StepKeepsPackets == PacketInv /\ [Next]_vars => PacketInv'
<1> SUFFICES ASSUME PacketInv, [Next]_vars PROVE PacketInv'
  OBVIOUS
<1>1. CASE MouseByte
  BY <1>1, ByteKeepsPackets
<1>2. CASE UNCHANGED mouse
  BY <1>2 DEF mouse, wire, PacketInv
<1> QED
  BY <1>1, <1>2 DEF Next, vars

-----------------------------------------------------------------------------
(* Types.  The packets have theirs in PacketInv.                           *)

DisplayTypes ==
  /\ vram \in [Cells -> Cell]
  /\ selected \in {"high", "low"}
  /\ high \in 0 .. Base - 1 /\ low \in 0 .. Base - 1
  /\ pc \in Label
  /\ char \in Chars /\ offset \in -1 .. Base * Base
  /\ pc \in {"get low", "read low"} => offset \in 0 .. (Base - 1) * Base
  /\ pc \in {"draw", "colour"} => offset \in 0 .. Base * Base - 1
  /\ copied \in Cells /\ (~Copying => copied = 0)
  /\ pc = "store char" => byte \in Chars
  /\ pc = "store attr" => byte \in Colours
  /\ scrolls \in Nat /\ disturbed \in BOOLEAN /\ nested \in BOOLEAN

PointerTypes ==
  /\ bytes \in Byte \X Byte \X Byte
  /\ x \in 0 .. Cols - 1 /\ y \in 0 .. Rows - 1
  /\ lastCell \in Cell /\ lastX \in 0 .. Cols - 1 /\ lastY \in 0 .. Rows - 1
  /\ dragged \in Nat

TypeInv == DisplayTypes /\ PointerTypes /\ PacketInv

\* Cells in the pointer's colour, given their colours; on the screen v; and
\* those that the next movement will not take away, with the one under the
\* pointer.
Marks(f) == {c \in Cells : f[c] = "pointer"}
Attrs(v) == [c \in Cells |-> v[c].attr]
Mark(g) == IF g.attr = "pointer" THEN 1 ELSE 0
Strays(v, h, g) == Cardinality(Marks(Attrs(v)) \ {h}) + Mark(g)
Stray == Strays(vram, Hidden, lastCell)

\* The colours that the screen v will have when main has copied the rest.
Loaded == pc = "store attr"
Coming(v) ==
  [c \in Cells |-> IF c < copied THEN v[c].attr
                   ELSE IF c = copied /\ Loaded THEN byte
                   ELSE Below(v, c).attr]
Afters(f, g) == Cardinality(Marks(f)) + Mark(g)
After == Afters(Coming(vram), lastCell)

Bound == scrolls + dragged
StrayOK == ~nested => IF Copying THEN After <= Bound ELSE Stray <= Bound

PointerInv == TypeInv /\ StrayOK

LEMMA MarksFinite ==
  ASSUME NEW f
  PROVE  IsFiniteSet(Marks(f)) /\ Cardinality(Marks(f)) \in Nat
<1>1. IsFiniteSet(Cells)
  BY SizeIsNat, FS_Interval DEF Cells
<1>2. Marks(f) \in SUBSET Cells
  BY DEF Marks
<1> QED
  BY <1>1, <1>2, FS_Subset, FS_CardinalityType

LEMMA MarksBeside ==
  ASSUME NEW f, NEW h
  PROVE  /\ IsFiniteSet(Marks(f) \ {h}) /\ Cardinality(Marks(f) \ {h}) \in Nat
         /\ Cardinality(Marks(f) \ {h}) <= Cardinality(Marks(f))
         /\ Cardinality(Marks(f)) <= Cardinality(Marks(f) \ {h}) + 1
<1>1. IsFiniteSet(Marks(f)) /\ Cardinality(Marks(f)) \in Nat
  BY MarksFinite
<1>2. /\ IsFiniteSet(Marks(f) \ {h})
      /\ Cardinality(Marks(f) \ {h}) =
           IF h \in Marks(f) THEN Cardinality(Marks(f)) - 1 ELSE Cardinality(Marks(f))
  BY <1>1, FS_RemoveElement
<1>3. Cardinality(Marks(f) \ {h}) \in Nat
  BY <1>2, FS_CardinalityType
<1> QED
  BY <1>1, <1>2, <1>3

LEMMA FewerMarks ==
  ASSUME NEW f, NEW g, Marks(g) \subseteq Marks(f), NEW h
  PROVE  /\ Cardinality(Marks(g)) <= Cardinality(Marks(f))
         /\ Cardinality(Marks(g) \ {h}) <= Cardinality(Marks(f) \ {h})
<1>1. IsFiniteSet(Marks(f) \ {h}) /\ IsFiniteSet(Marks(f))
  BY MarksFinite, MarksBeside
<1>2. Marks(g) \ {h} \in SUBSET (Marks(f) \ {h}) /\ Marks(g) \in SUBSET Marks(f)
  OBVIOUS
<1> QED
  BY <1>1, <1>2, FS_Subset

Put(f, i, a) == [f EXCEPT ![i] = a]

\* One cell gets another colour.
LEMMA OneMark ==
  ASSUME NEW f \in [Cells -> Colours], NEW i \in Cells, NEW a, NEW g,
         g = Put(f, i, a)
  PROVE  /\ Cardinality(Marks(g)) <= Cardinality(Marks(f)) + 1
         /\ a # "pointer" \/ f[i] = "pointer" => Cardinality(Marks(g)) <= Cardinality(Marks(f))
<1>1. IsFiniteSet(Marks(f)) /\ Cardinality(Marks(f)) \in Nat /\ Cardinality(Marks(g)) \in Nat
  BY MarksFinite
<1>2. ASSUME a # "pointer" \/ f[i] = "pointer"
      PROVE  Cardinality(Marks(g)) <= Cardinality(Marks(f))
  <2>1. Marks(g) \subseteq Marks(f)
    BY <1>2 DEF Marks, Put
  <2> QED BY <2>1, FewerMarks
<1>3. Cardinality(Marks(g)) <= Cardinality(Marks(f)) + 1
  <2>1. Marks(g) \in SUBSET (Marks(f) \cup {i})
    BY DEF Marks, Put
  <2>2. /\ IsFiniteSet(Marks(f) \cup {i})
        /\ Cardinality(Marks(f) \cup {i}) =
             IF i \in Marks(f) THEN Cardinality(Marks(f)) ELSE Cardinality(Marks(f)) + 1
    BY <1>1, FS_AddElement
  <2>3. Cardinality(Marks(g)) <= Cardinality(Marks(f) \cup {i})
    BY <2>1, <2>2, FS_Subset
  <2> QED BY <1>1, <2>2, <2>3
<1> QED BY <1>2, <1>3

LEMMA Glyphs ==
  /\ Blank \in Cell /\ Blank.attr # "pointer"
  /\ Pointer \in Cell /\ Pointer.attr = "pointer"
  /\ \A g \in Cell, a \in Colours :
       [g EXCEPT !.attr = a] \in Cell /\ [g EXCEPT !.attr = a].attr = a
  /\ \A g \in Cell, ch \in Chars :
       [g EXCEPT !.char = ch] \in Cell /\ [g EXCEPT !.char = ch].attr = g.attr
  /\ \A g \in Cell : g.char \in Chars /\ g.attr \in Colours
BY DEF Blank, Glyph, Pointer, Cell, Chars, Colours

\* No cell of w is in the pointer's colour that is not so in v.
Fades(v, w) == \A c \in Cells : w[c].attr = "pointer" => v[c].attr = "pointer"

LEMMA FadedMarks ==
  ASSUME NEW v, NEW w, Fades(v, w)
  PROVE  Marks(Attrs(w)) \subseteq Marks(Attrs(v))
         /\ Marks(Coming(w)) \subseteq Marks(Coming(v))
<1>1. Marks(Attrs(w)) \subseteq Marks(Attrs(v))
  BY DEF Fades, Marks, Attrs
<1>2. Marks(Coming(w)) \subseteq Marks(Coming(v))
  BY DEF Fades, Marks, Coming, Below
<1> QED BY <1>1, <1>2

WithChar(v, t, ch) == [v EXCEPT ![t].char = ch]
WithAttr(v, t, a) == [v EXCEPT ![t].attr = a]

LEMMA CharWritten ==
  ASSUME NEW v \in [Cells -> Cell], NEW t, NEW ch \in Chars
  PROVE  /\ WithChar(v, t, ch) \in [Cells -> Cell]
         /\ Fades(v, WithChar(v, t, ch))
<1> DEFINE w == WithChar(v, t, ch)
<1>1. w = [v EXCEPT ![t] = [v[t] EXCEPT !.char = ch]]
  BY DEF WithChar
<1>2. t \in Cells => [v[t] EXCEPT !.char = ch] \in Cell
                     /\ [v[t] EXCEPT !.char = ch].attr = v[t].attr
  BY Glyphs
<1> HIDE DEF w
<1>3. w \in [Cells -> Cell]
  BY <1>1, <1>2
<1>4. \A c \in Cells : w[c].attr = v[c].attr
  BY <1>1, <1>2
<1> QED BY <1>3, <1>4 DEF Fades, w

LEMMA AttrWritten ==
  ASSUME NEW v \in [Cells -> Cell], NEW t, NEW a \in Colours
  PROVE  /\ WithAttr(v, t, a) \in [Cells -> Cell]
         /\ a # "pointer" => Fades(v, WithAttr(v, t, a))
         /\ \A c \in Cells :
              WithAttr(v, t, a)[c].attr = IF c = t THEN a ELSE v[c].attr
<1> DEFINE w == WithAttr(v, t, a)
<1>1. w = [v EXCEPT ![t] = [v[t] EXCEPT !.attr = a]]
  BY DEF WithAttr
<1>2. t \in Cells => [v[t] EXCEPT !.attr = a] \in Cell
                     /\ [v[t] EXCEPT !.attr = a].attr = a
  BY Glyphs
<1> HIDE DEF w
<1>3. w \in [Cells -> Cell]
  BY <1>1, <1>2
<1>4. \A c \in Cells : w[c].attr = IF c = t THEN a ELSE v[c].attr
  BY <1>1, <1>2
<1> QED BY <1>3, <1>4 DEF Fades, w

LEMMA Faded ==
  ASSUME NEW v \in [Cells -> Cell], NEW t, NEW a \in Colours \ {"pointer"}
  PROVE  WithAttr(v, t, a) \in [Cells -> Cell] /\ Fades(v, WithAttr(v, t, a))
BY AttrWritten

\* Printing puts no cell into the pointer's colour.
LEMMA LetteredFades ==
  ASSUME NEW v \in [Cells -> Cell], NEW ch \in Chars, NEW o
  PROVE  Lettered(v, ch, o) \in [Cells -> Cell] /\ Fades(v, Lettered(v, ch, o))
<1> DEFINE shown == IF ch \in {"newline", "backspace"} THEN " " ELSE ch
           t == Target(ch, o)
<1>1. shown \in Chars
  BY DEF Chars
<1>2. CASE Odd(ch, o)
  <2>1. Lettered(v, ch, o) = WithAttr(v, 0, "odd")
    BY <1>2 DEF Lettered, WithAttr
  <2>2. "odd" \in Colours \ {"pointer"}
    BY DEF Colours
  <2> QED BY <2>1, <2>2, Faded
<1>3. CASE ~Odd(ch, o)
  <2>1. Lettered(v, ch, o) = WithChar(v, t, shown)
    BY <1>3 DEF Lettered, WithChar
  <2>2. shown \in Chars
    BY <1>1
  <2> HIDE DEF shown, t
  <2>3. WithChar(v, t, shown) \in [Cells -> Cell] /\ Fades(v, WithChar(v, t, shown))
    BY <2>2, CharWritten
  <2> QED BY <2>1, <2>3
<1> QED BY <1>2, <1>3

LEMMA ColouredFades ==
  ASSUME NEW v \in [Cells -> Cell], NEW ch \in Chars, NEW o
  PROVE  Coloured(v, ch, o) \in [Cells -> Cell] /\ Fades(v, Coloured(v, ch, o))
<1> DEFINE t == Target(ch, o)
<1>1. "odd" \in Chars /\ "text" \in Colours \ {"pointer"}
  BY DEF Chars, Colours
<1>2. CASE Odd(ch, o)
  <2>1. Coloured(v, ch, o) = WithChar(v, 1, "odd")
    BY <1>2 DEF Coloured, WithChar
  <2> QED BY <1>1, <2>1, CharWritten
<1>3. CASE ~Odd(ch, o)
  <2>1. Coloured(v, ch, o) = WithAttr(v, t, "text")
    BY <1>3 DEF Coloured, WithAttr
  <2> HIDE DEF t
  <2> QED BY <1>1, <2>1, Faded
<1> QED BY <1>2, <1>3

LEMMA DrawnFades ==
  ASSUME NEW v \in [Cells -> Cell], NEW ch \in Chars, NEW o
  PROVE  Drawn(v, ch, o) \in [Cells -> Cell] /\ Fades(v, Drawn(v, ch, o))
<1> DEFINE u == Lettered(v, ch, o)
<1>1. u \in [Cells -> Cell] /\ Fades(v, u)
  BY LetteredFades
<1>2. Coloured(u, ch, o) \in [Cells -> Cell] /\ Fades(u, Coloured(u, ch, o))
  BY <1>1, ColouredFades
<1> QED BY <1>1, <1>2 DEF Drawn, Fades

-----------------------------------------------------------------------------
(* Scrolling.                                                              *)

\* Scrolled at once: marks move, one of them off the screen at the most.
LEMMA ScrolledMarks ==
  ASSUME NEW v \in [Cells -> Cell]
  PROVE  /\ ScrolledUp(v) \in [Cells -> Cell]
         /\ Cardinality(Marks(Attrs(ScrolledUp(v)))) <= Cardinality(Marks(Attrs(v)))
<1> DEFINE w == Attrs(ScrolledUp(v))
           f == [c \in Marks(w) |-> c + Cols]
<1>1. ScrolledUp(v) \in [Cells -> Cell]
  BY Glyphs DEF ScrolledUp, Below
<1>2. \A c \in Marks(w) : c \in Cells /\ c + Cols \in Marks(Attrs(v))
  BY Glyphs DEF ScrolledUp, Below, Marks, Attrs
<1>3. f \in Injection(Marks(w), Marks(Attrs(v)))
  BY <1>2, SizeOfScreen DEF Injection, IsInjective, Cells
<1> QED
  BY <1>1, <1>3, MarksFinite, FS_Injection

\* What has been copied is as it is on the screen, the rest as it is a row below.
LEMMA ComingTypes ==
  ASSUME DisplayTypes, NEW v \in [Cells -> Cell]
  PROVE  Coming(v) \in [Cells -> Colours]
<1>1. \A c \in Cells : v[c].attr \in Colours /\ Below(v, c).attr \in Colours
  BY Glyphs DEF Below
<1>2. Loaded => byte \in Colours
  BY DEF DisplayTypes, Loaded
<1> QED BY <1>1, <1>2 DEF Coming

\* A cell that the mouse writes is in one place of what is coming, or in none.
LEMMA ComingWritten ==
  ASSUME DisplayTypes, NEW v \in [Cells -> Cell], NEW j \in Cells, NEW g \in Cell
  PROVE  \/ Coming(Put(v, j, g)) = Coming(v)
         \/ \E i \in Cells : /\ Coming(v)[i] = v[j].attr
                             /\ Coming(Put(v, j, g)) = Put(Coming(v), i, g.attr)
<1> DEFINE w == Put(v, j, g)
<1>1. copied \in Nat /\ Cols \in Nat /\ Cols > 0 /\ Size \in Nat /\ j \in Nat
  <2>1. copied \in Cells
    BY DEF DisplayTypes
  <2> QED BY <2>1, SizeOfScreen DEF Cells
<1>2. \A c \in Cells : w[c] = IF c = j THEN g ELSE v[c]
  BY DEF Put
<1> HIDE DEF w
<1>3. CASE j < copied
  <2>1. Coming(v)[j] = v[j].attr
    BY <1>3 DEF Coming
  <2>2. \A c \in Cells : Coming(w)[c] = IF c = j THEN g.attr ELSE Coming(v)[c]
    BY <1>1, <1>2, <1>3 DEF Coming, Below, Cells
  <2>3. Coming(w) = Put(Coming(v), j, g.attr)
    BY <2>2 DEF Coming, Put
  <2> QED BY <2>1, <2>3, Zenon DEF w
<1>4. CASE j - Cols \in Cells /\ j - Cols >= copied /\ ~(j - Cols = copied /\ Loaded)
  <2> DEFINE i == j - Cols
  <2>1. i \in Cells /\ i + Cols = j
    BY <1>1, <1>4
  <2>2. Coming(v)[i] = v[j].attr
    BY <1>1, <1>4, <2>1 DEF Coming, Below, Cells
  <2>3. \A c \in Cells : Coming(w)[c] = IF c = i THEN g.attr ELSE Coming(v)[c]
    <3>1. ~(j < copied)
      BY <1>1, <1>4
    <3>2. \A c \in Cells : c < copied => c # j
      BY <3>1
    <3>3. \A c \in Cells : c + Cols = j <=> c = i
      BY <1>1 DEF Cells
    <3>4. Coming(w)[i] = g.attr
      BY <1>1, <1>2, <1>4, <2>1 DEF Coming, Below, Cells
    <3>5. ASSUME NEW c \in Cells, c # i PROVE Coming(w)[c] = Coming(v)[c]
      <4>1. Below(w, c) = Below(v, c)
        BY <1>2, <3>3, <3>5 DEF Below
      <4>2. c < copied => w[c] = v[c]
        BY <1>2, <3>2
      <4> QED BY <4>1, <4>2 DEF Coming
    <3> QED BY <3>4, <3>5
  <2>4. Coming(w) = Put(Coming(v), i, g.attr)
    BY <2>1, <2>3 DEF Coming, Put
  <2> QED BY <2>1, <2>2, <2>4, Zenon DEF w
<1>5. CASE /\ ~(j < copied)
           /\ ~(j - Cols \in Cells /\ j - Cols >= copied /\ ~(j - Cols = copied /\ Loaded))
  <2>1. ASSUME NEW c \in Cells PROVE Coming(w)[c] = Coming(v)[c]
    <3>1. c < copied => w[c] = v[c]
      BY <1>2, <1>5
    <3>2. CASE c + Cols = j
      <4>1. c = j - Cols
        BY <1>1, <3>2 DEF Cells
      <4>2. c < copied \/ (c = copied /\ Loaded)
        BY <1>1, <1>5, <4>1, <2>1 DEF Cells
      <4> QED BY <3>1, <4>2 DEF Coming
    <3>3. CASE c + Cols # j
      <4>1. Below(w, c) = Below(v, c)
        BY <1>2, <3>3 DEF Below
      <4> QED BY <3>1, <4>1 DEF Coming
    <3> QED BY <3>2, <3>3
  <2>2. Coming(w) = Coming(v)
    BY <2>1 DEF Coming
  <2> QED BY <2>2 DEF w
<1> QED BY <1>3, <1>4, <1>5, Zenon DEF w

-----------------------------------------------------------------------------
(* Positions and registers stay in their ranges, also when handlers are in *)
(* main's way.                                                             *)

LEMMA AnyPosition ==
  ASSUME NEW h \in 0 .. Base - 1, NEW l \in 0 .. Base - 1
  PROVE  /\ h * Base \in 0 .. (Base - 1) * Base
         /\ h * Base + l \in 0 .. Base * Base - 1
<1>1. Base \in Nat \ {0}
  BY ScreenAssumption
<1>2. h * Base <= (Base - 1) * Base
  BY <1>1, ProductsGrow
<1>3. h * Base \in Nat /\ (Base - 1) * Base = Base * Base - Base
  BY <1>1
<1> QED
  BY <1>1, <1>2, <1>3

LEMMA SumsShrink ==
  ASSUME NEW a \in Nat, NEW b \in Nat, NEW u \in Nat, NEW t \in Nat,
         b <= a, a + u <= t
  PROVE  b + u <= t
OBVIOUS

LEMMA PositionsGrow ==
  ASSUME NEW a \in Nat, NEW b \in Nat, NEW m \in Nat, m = a + b,
         NEW p \in 0 .. a, NEW q \in 0 .. b - 1
  PROVE  p + q \in 0 .. m - 1 /\ p + q \in -1 .. m /\ p \in -1 .. m
OBVIOUS

LEMMA AdvancedAnywhere ==
  ASSUME NEW ch, NEW o \in 0 .. Base * Base - 1
  PROVE  Advanced(ch, o) \in -1 .. Base * Base
<1>1. Base \in Nat \ {0} /\ Size \in Nat /\ Size <= Base * Base /\ Base * Base \in Nat
  BY SizeOfScreen
<1>2. CASE o \in Cells
  <2>1. Advanced(ch, o) \in -1 .. Size
    BY <1>2, AdvancedInRange
  <2> QED
    BY <1>1, <2>1
<1>3. CASE o \notin Cells
  <2>1. o >= Size
    BY <1>1, <1>3 DEF Cells
  <2> QED
    BY <1>1, <2>1 DEF Advanced, Target
<1> QED
  BY <1>2, <1>3

LEMMA BackAnywhere ==
  ASSUME NEW o \in -1 .. Base * Base
  PROVE  Back(o) \in -1 .. Base * Base /\ Back(o) \in Int
<1>1. Base * Base \in Nat
  BY SizeOfScreen
<1> QED
  BY <1>1, SizeOfScreen DEF Back, Overflows

LEMMA RegisterTypes ==
  ASSUME NEW o \in Int
  PROVE  HighOf(o) \in 0 .. Base - 1 /\ LowOf(o) \in 0 .. Base - 1
<1>1. Base \in Nat \ {0} /\ o \div Base \in Int
  BY SizeOfScreen
<1> QED
  BY <1>1 DEF HighOf, LowOf

-----------------------------------------------------------------------------
(* The pointer.                                                            *)

LEMMA CellOnScreen ==
  ASSUME NEW a \in 0 .. Rows - 1, NEW b \in 0 .. Cols - 1
  PROVE  a * Cols + b \in Cells
<1>1. Rows \in Nat \ {0} /\ Cols \in Nat \ {0}
  BY ScreenAssumption
<1>2. a * Cols <= (Rows - 1) * Cols
  BY <1>1, ProductsGrow
<1>3. a * Cols \in Nat /\ (Rows - 1) * Cols = Rows * Cols - Cols
  BY <1>1
<1> QED
  BY <1>1, <1>2, <1>3 DEF Cells, Size

LEMMA ClampInRange ==
  ASSUME NEW n \in Int, NEW size \in Nat \ {0}
  PROVE  Clamp(n, size) \in 0 .. size - 1
BY DEF Clamp

LEMMA Movement ==
  ASSUME NEW b \in Byte
  PROVE  Tenth(Signed(b)) \in Int
BY DEF Byte, Tenth, Signed

\* Numbers of marks.
LEMMA Numbers ==
  /\ \A g : Mark(g) \in 0 .. 1
  /\ \A v, h, g : Strays(v, h, g) \in Nat
  /\ \A f, g : Afters(f, g) \in Nat
<1>1. ASSUME NEW g PROVE Mark(g) \in 0 .. 1
  BY DEF Mark
<1>2. ASSUME NEW v, NEW h, NEW g PROVE Strays(v, h, g) \in Nat
  <2>1. Cardinality(Marks(Attrs(v)) \ {h}) \in Nat
    BY MarksBeside
  <2> QED BY <1>1, <2>1 DEF Strays
<1>3. ASSUME NEW f, NEW g PROVE Afters(f, g) \in Nat
  BY <1>1, MarksFinite DEF Afters
<1> QED BY <1>1, <1>2, <1>3

\* Fewer marks on the screen, under the same pointer.
LEMMA FewerStrays ==
  ASSUME NEW v, NEW w, NEW h, NEW g, Marks(Attrs(w)) \subseteq Marks(Attrs(v))
  PROVE  Strays(w, h, g) <= Strays(v, h, g)
<1>1. Cardinality(Marks(Attrs(w)) \ {h}) <= Cardinality(Marks(Attrs(v)) \ {h})
  BY FewerMarks
<1>2. /\ Cardinality(Marks(Attrs(w)) \ {h}) \in Nat
      /\ Cardinality(Marks(Attrs(v)) \ {h}) \in Nat
  BY MarksBeside
<1> QED BY <1>1, <1>2, Numbers DEF Strays

LEMMA FewerAfters ==
  ASSUME NEW e, NEW f, NEW g, Marks(f) \subseteq Marks(e)
  PROVE  Afters(f, g) <= Afters(e, g)
<1>1. Cardinality(Marks(f)) <= Cardinality(Marks(e))
  BY FewerMarks
<1> QED BY <1>1, MarksFinite, Numbers DEF Afters

\* A scroll that starts counts the pointer's own cell, one that ends does not.
LEMMA OwnCell ==
  ASSUME NEW v, NEW h, NEW g
  PROVE  /\ Strays(v, h, g) <= Afters(Attrs(v), g)
         /\ Afters(Attrs(v), g) <= Strays(v, h, g) + 1
<1>1. /\ Cardinality(Marks(Attrs(v)) \ {h}) <= Cardinality(Marks(Attrs(v)))
      /\ Cardinality(Marks(Attrs(v))) <= Cardinality(Marks(Attrs(v)) \ {h}) + 1
      /\ Cardinality(Marks(Attrs(v)) \ {h}) \in Nat /\ Cardinality(Marks(Attrs(v))) \in Nat
  BY MarksBeside, MarksFinite
<1> QED BY <1>1, Numbers DEF Strays, Afters

\* The colours of a screen with one cell written.
LEMMA PutColours ==
  ASSUME NEW v \in [Cells -> Cell], NEW j \in Cells, NEW g \in Cell
  PROVE  /\ Put(v, j, g) \in [Cells -> Cell]
         /\ Attrs(v) \in [Cells -> Colours]
         /\ Attrs(Put(v, j, g)) = Put(Attrs(v), j, g.attr)
         /\ Attrs(v)[j] = v[j].attr
<1>1. Put(v, j, g) \in [Cells -> Cell]
  BY DEF Put
<1>2. Attrs(v) \in [Cells -> Colours]
  BY Glyphs DEF Attrs
<1>3. Attrs(Put(v, j, g)) = Put(Attrs(v), j, g.attr)
  BY DEF Attrs, Put
<1> QED BY <1>1, <1>2, <1>3 DEF Attrs

\* The pointer's mark is taken back before it is drawn elsewhere.
LEMMA MovedMarks ==
  ASSUME NEW v \in [Cells -> Cell], NEW h \in Cells, NEW g \in Cell, NEW c \in Cells
  PROVE  Strays(Put(Put(v, h, g), c, Pointer), c, Put(v, h, g)[c]) <= Strays(v, h, g)
<1> DEFINE back == Put(v, h, g)
           w == Put(back, c, Pointer)
           n(f, i) == Cardinality(Marks(f) \ {i})
           m(f) == Cardinality(Marks(f))
<1>1. back \in [Cells -> Cell] /\ Attrs(back) = Put(Attrs(v), h, g.attr)
      /\ Attrs(v) \in [Cells -> Colours]
  BY PutColours, Zenon
<1> HIDE DEF back
<1>2. Attrs(w) = Put(Attrs(back), c, Pointer.attr) /\ Attrs(back)[c] = back[c].attr
      /\ Attrs(back) \in [Cells -> Colours]
  <2>1. Pointer \in Cell
    BY Glyphs
  <2> QED BY <1>1, <2>1, PutColours, Zenon
<1>3. Marks(Attrs(back)) \ {h} = Marks(Attrs(v)) \ {h}
      /\ (h \in Marks(Attrs(back)) <=> g.attr = "pointer")
  BY <1>1 DEF Marks, Put
<1>4. Marks(Attrs(w)) \ {c} = Marks(Attrs(back)) \ {c}
      /\ (c \in Marks(Attrs(back)) <=> back[c].attr = "pointer")
  BY <1>2 DEF Marks, Put
<1>5. ASSUME NEW f, NEW i
      PROVE  m(f) = n(f, i) + (IF i \in Marks(f) THEN 1 ELSE 0) /\ n(f, i) \in Nat
  <2>1. IsFiniteSet(Marks(f)) /\ m(f) \in Nat
    BY MarksFinite
  <2>2. n(f, i) = IF i \in Marks(f) THEN m(f) - 1 ELSE m(f)
    BY <2>1, FS_RemoveElement
  <2>3. n(f, i) \in Nat
    BY MarksBeside
  <2> HIDE DEF n, m
  <2> QED BY <2>1, <2>2, <2>3
<1>6. m(Attrs(back)) = n(Attrs(v), h) + Mark(g)
  <2>1. n(Attrs(back), h) = n(Attrs(v), h)
    BY <1>3
  <2>2. Mark(g) = IF h \in Marks(Attrs(back)) THEN 1 ELSE 0
    BY <1>3 DEF Mark
  <2> HIDE DEF n, m
  <2> QED BY <1>5, <2>1, <2>2
<1>7. m(Attrs(back)) = n(Attrs(w), c) + Mark(back[c])
  <2>1. n(Attrs(back), c) = n(Attrs(w), c)
    BY <1>4
  <2>2. Mark(back[c]) = IF c \in Marks(Attrs(back)) THEN 1 ELSE 0
    BY <1>4 DEF Mark
  <2> HIDE DEF n, m
  <2> QED BY <1>5, <2>1, <2>2
<1>8. Strays(w, c, back[c]) = Strays(v, h, g)
  BY <1>6, <1>7 DEF Strays
<1> HIDE DEF w
<1>9. Strays(w, c, back[c]) <= Strays(v, h, g)
  BY <1>8, Numbers
<1> QED BY <1>9 DEF w, back

\* In the middle of a scroll the mark that comes in adds one at the most, and
\* none in the place of another; what is put back adds itself.
LEMMA WrittenMarks ==
  ASSUME DisplayTypes, NEW v \in [Cells -> Cell], NEW j \in Cells, NEW g \in Cell
  PROVE  /\ Cardinality(Marks(Coming(Put(v, j, g)))) <= Cardinality(Marks(Coming(v))) + Mark(g)
         /\ Cardinality(Marks(Coming(Put(v, j, g)))) + Mark(v[j])
              <= Cardinality(Marks(Coming(v))) + 1
<1> DEFINE w == Put(v, j, g)
           m(f) == Cardinality(Marks(f))
<1>1. Coming(v) \in [Cells -> Colours]
  BY ComingTypes
<1>2. m(Coming(v)) \in Nat /\ m(Coming(w)) \in Nat
  BY MarksFinite
<1> HIDE DEF w
<1>3. ASSUME Coming(w) = Coming(v)
      PROVE  m(Coming(w)) <= m(Coming(v)) + Mark(g)
             /\ m(Coming(w)) + Mark(v[j]) <= m(Coming(v)) + 1
  <2>1. m(Coming(w)) = m(Coming(v))
    BY <1>3
  <2>2. Mark(g) \in 0 .. 1 /\ Mark(v[j]) \in 0 .. 1
    BY Numbers
  <2> HIDE DEF m
  <2> QED BY <1>2, <2>1, <2>2
<1>4. ASSUME NEW i \in Cells, Coming(v)[i] = v[j].attr,
             Coming(w) = Put(Coming(v), i, g.attr)
      PROVE  m(Coming(w)) <= m(Coming(v)) + Mark(g)
             /\ m(Coming(w)) + Mark(v[j]) <= m(Coming(v)) + 1
  <2>1. m(Coming(w)) <= m(Coming(v)) + 1
    BY <1>1, <1>4, OneMark
  <2>2. g.attr # "pointer" => m(Coming(w)) <= m(Coming(v))
    BY <1>1, <1>4, OneMark
  <2>3. v[j].attr = "pointer" => m(Coming(w)) <= m(Coming(v))
    BY <1>1, <1>4, OneMark
  <2>4. (Mark(g) = 1 \/ (Mark(g) = 0 /\ g.attr # "pointer"))
        /\ (Mark(v[j]) = 0 \/ (Mark(v[j]) = 1 /\ v[j].attr = "pointer"))
    BY DEF Mark
  <2> HIDE DEF m
  <2>5. m(Coming(w)) <= m(Coming(v)) + Mark(g)
    BY <1>2, <2>1, <2>2, <2>4
  <2>6. m(Coming(w)) + Mark(v[j]) <= m(Coming(v)) + 1
    BY <1>2, <2>1, <2>3, <2>4
  <2> QED BY <2>5, <2>6
<1>5. \/ Coming(w) = Coming(v)
      \/ \E i \in Cells : /\ Coming(v)[i] = v[j].attr
                          /\ Coming(w) = Put(Coming(v), i, g.attr)
  BY ComingWritten, Zenon DEF w
<1> HIDE DEF m
<1>6. m(Coming(w)) <= m(Coming(v)) + Mark(g)
      /\ m(Coming(w)) + Mark(v[j]) <= m(Coming(v)) + 1
  BY <1>3, <1>4, <1>5, Zenon
<1> QED BY <1>6 DEF w, m

LEMMA MovedWhileCopying ==
  ASSUME DisplayTypes, NEW v \in [Cells -> Cell], NEW h \in Cells, NEW g \in Cell,
         NEW c \in Cells
  PROVE  Afters(Coming(Put(Put(v, h, g), c, Pointer)), Put(v, h, g)[c])
           <= Afters(Coming(v), g) + 1
<1> DEFINE m(f) == Cardinality(Marks(f))
           back == Put(v, h, g)
           w == Put(back, c, Pointer)
<1>1. back \in [Cells -> Cell] /\ Pointer \in Cell
  BY PutColours, Glyphs
<1>2. m(Coming(back)) <= m(Coming(v)) + Mark(g)
  BY WrittenMarks
<1> HIDE DEF back
<1>3. m(Coming(w)) + Mark(back[c]) <= m(Coming(back)) + 1
  BY <1>1, WrittenMarks
<1>4. m(Coming(v)) \in Nat /\ m(Coming(back)) \in Nat /\ m(Coming(w)) \in Nat
  BY MarksFinite
<1>5. Mark(g) \in 0 .. 1 /\ Mark(back[c]) \in 0 .. 1
  BY Numbers
<1>6. Afters(Coming(w), back[c]) = m(Coming(w)) + Mark(back[c])
      /\ Afters(Coming(v), g) = m(Coming(v)) + Mark(g)
  BY DEF Afters
<1> HIDE DEF m, w
<1>7. Afters(Coming(w), back[c]) <= Afters(Coming(v), g) + 1
  BY <1>2, <1>3, <1>4, <1>5, <1>6
<1> QED BY <1>7 DEF w, back

-----------------------------------------------------------------------------
(* Steps of the pointer.                                                   *)

LEMMA BoundTypes == TypeInv => Bound \in Nat /\ scrolls \in Nat /\ dragged \in Nat
<1>1. TypeInv => scrolls \in Nat /\ dragged \in Nat
  BY Zenon DEF TypeInv, DisplayTypes, PointerTypes
<1> QED BY <1>1 DEF Bound

\* A step that adds no mark and neither begins nor ends a scroll.
LEMMA QuietStray ==
  ASSUME PointerInv, UNCHANGED <<Hidden, lastCell, scrolls, dragged>>, nested => nested',
         \/ ~Copying /\ ~Copying' /\ Marks(Attrs(vram')) \subseteq Marks(Attrs(vram))
         \/ Copying /\ Copying' /\ Marks((Coming(vram))') \subseteq Marks(Coming(vram))
  PROVE  StrayOK'
<1>1. Bound \in Nat /\ Bound' = Bound
  BY BoundTypes DEF PointerInv, Bound
<1>2. SUFFICES ASSUME ~nested' PROVE (IF Copying THEN After <= Bound ELSE Stray <= Bound)'
  BY DEF StrayOK
<1>3. IF Copying THEN After <= Bound ELSE Stray <= Bound
  BY <1>2 DEF PointerInv, StrayOK
<1>4. CASE ~Copying /\ ~Copying' /\ Marks(Attrs(vram')) \subseteq Marks(Attrs(vram))
  <2>1. Strays(vram', Hidden, lastCell) <= Strays(vram, Hidden, lastCell)
    BY <1>4, FewerStrays
  <2>2. Stray' = Strays(vram', Hidden, lastCell) /\ Stray = Strays(vram, Hidden, lastCell)
    BY DEF Stray
  <2>3. Stray' \in Nat /\ Stray \in Nat /\ Stray <= Bound
    BY <1>3, <1>4, <2>2, Numbers
  <2>4. Stray' <= Bound'
    BY <1>1, <2>1, <2>2, <2>3
  <2> QED BY <1>4, <2>4
<1>5. CASE Copying /\ Copying' /\ Marks((Coming(vram))') \subseteq Marks(Coming(vram))
  <2>1. Afters((Coming(vram))', lastCell) <= Afters(Coming(vram), lastCell)
    BY <1>5, FewerAfters
  <2>2. After' = Afters((Coming(vram))', lastCell) /\ After = Afters(Coming(vram), lastCell)
    BY DEF After
  <2>3. After' \in Nat /\ After \in Nat /\ After <= Bound
    BY <1>3, <1>5, <2>2, Numbers
  <2>4. After' <= Bound'
    BY <1>1, <2>1, <2>2, <2>3
  <2> QED BY <1>5, <2>4
<1> QED BY <1>4, <1>5

\* Between two steps of main the rest of its copy stays what it is.
LEMMA SameCopy ==
  ASSUME UNCHANGED <<pc, copied, byte>>
  PROVE  Copying' = Copying /\ (Coming(vram))' = Coming(vram')
<1>1. Copying' = Copying /\ Loaded' = Loaded
  BY DEF Copying, Loaded
<1> QED BY <1>1 DEF Coming, Below

\* A step beside main's that draws no pointer.
LEMMA FadedStray ==
  ASSUME PointerInv, UNCHANGED <<Hidden, lastCell, scrolls, dragged>>, nested => nested',
         UNCHANGED <<pc, copied, byte>>, Fades(vram, vram')
  PROVE  StrayOK'
<1>1. Copying' = Copying /\ (Coming(vram))' = Coming(vram')
  BY SameCopy
<1>2. /\ Marks(Attrs(vram')) \subseteq Marks(Attrs(vram))
      /\ Marks(Coming(vram')) \subseteq Marks(Coming(vram))
  BY FadedMarks
<1>3. \/ ~Copying /\ ~Copying' /\ Marks(Attrs(vram')) \subseteq Marks(Attrs(vram))
      \/ Copying /\ Copying' /\ Marks((Coming(vram))') \subseteq Marks(Coming(vram))
  BY <1>1, <1>2
<1> QED BY <1>3, QuietStray

LEMMA CursorMoves ==
  ASSUME PointerInv, NEW flags, NEW dx, NEW dy, Tenth(dx) \in Int, Tenth(dy) \in Int,
         UpdateCursor(flags, dx, dy), UNCHANGED <<scrolls, nested, pc, copied, byte>>
  PROVE  /\ vram' \in [Cells -> Cell]
         /\ x' \in 0 .. Cols - 1 /\ y' \in 0 .. Rows - 1 /\ lastCell' \in Cell
         /\ lastX' \in 0 .. Cols - 1 /\ lastY' \in 0 .. Rows - 1 /\ dragged' \in Nat
         /\ StrayOK'
<1> DEFINE left == Has(flags, 1)
           clicked == left \/ Has(flags, 2)
           back == Restored(clicked)
           nx == Clamp(x + Tenth(dx), Cols)
           ny == Clamp(y - Tenth(dy), Rows)
           cell == ny * Cols + nx
           colour == IF left THEN "paint" ELSE "red"
<1>1. vram \in [Cells -> Cell] /\ x \in Int /\ y \in Int /\ lastCell \in Cell
      /\ lastX \in 0 .. Cols - 1 /\ lastY \in 0 .. Rows - 1
  <2>1. x \in 0 .. Cols - 1 /\ y \in 0 .. Rows - 1
    BY Zenon DEF PointerInv, TypeInv, PointerTypes
  <2>2. vram \in [Cells -> Cell] /\ lastCell \in Cell
        /\ lastX \in 0 .. Cols - 1 /\ lastY \in 0 .. Rows - 1
    BY Zenon DEF PointerInv, TypeInv, DisplayTypes, PointerTypes
  <2> QED
    BY <2>1, <2>2, ScreenAssumption
<1>2. nx \in 0 .. Cols - 1 /\ ny \in 0 .. Rows - 1
  BY <1>1, ClampInRange, ScreenAssumption
<1>3. cell \in Cells /\ Hidden \in Cells
  BY <1>1, <1>2, CellOnScreen DEF Hidden
<1>4. Bound \in Nat /\ scrolls \in Nat /\ dragged \in Nat /\ DisplayTypes
  BY BoundTypes DEF PointerInv, TypeInv
<1>5. x' = nx /\ y' = ny
  BY DEF UpdateCursor
<1>6. CASE clicked
  <2>1. vram' = WithAttr(vram, cell, colour)
        /\ UNCHANGED <<lastCell, lastX, lastY, dragged>>
    BY <1>6 DEF UpdateCursor, Restored, WithAttr
  <2>2. colour \in Colours \ {"pointer"}
    BY DEF Colours
  <2> HIDE DEF colour, cell, nx, ny, clicked
  <2>3. vram' \in [Cells -> Cell] /\ Fades(vram, vram')
    BY <1>1, <2>1, <2>2, Faded
  <2>4. UNCHANGED <<Hidden, lastCell, scrolls, dragged>>
    BY <2>1 DEF Hidden
  <2>5. StrayOK'
    BY <2>3, <2>4, FadedStray
  <2> QED
    BY <1>1, <1>2, <1>4, <1>5, <2>1, <2>3, <2>5
<1>7. CASE ~clicked
  <2>1. /\ vram' = Put(back, cell, Pointer)
        /\ lastCell' = back[cell] /\ lastX' = nx /\ lastY' = ny
    BY <1>7 DEF UpdateCursor, Put
  <2>2. back = Put(vram, Hidden, lastCell)
    BY <1>7 DEF Restored, Put
  <2>3. dragged' = dragged + IF Copying THEN 1 ELSE 0
    BY <1>7 DEF UpdateCursor
  <2> HIDE DEF back, clicked
  <2>4. Hidden' = cell
    BY <2>1 DEF Hidden
  <2> HIDE DEF cell, nx, ny
  <2>5. back \in [Cells -> Cell]
    BY <1>1, <1>3, <2>2, PutColours
  <2>6. vram' \in [Cells -> Cell] /\ lastCell' \in Cell
    <3>1. Pointer \in Cell
      BY Glyphs
    <3>2. Put(back, cell, Pointer) \in [Cells -> Cell]
      BY <1>3, <2>5, <3>1, PutColours, Zenon
    <3> QED BY <1>3, <2>1, <2>5, <3>2
  <2>7. Stray' <= Stray
    <3>1. Strays(Put(back, cell, Pointer), cell, back[cell]) <= Strays(vram, Hidden, lastCell)
      BY <1>1, <1>3, <2>2, MovedMarks, Zenon
    <3> QED BY <2>1, <2>4, <3>1 DEF Stray
  <2>8. After' <= After + 1
    <3>1. Afters(Coming(Put(back, cell, Pointer)), back[cell])
            <= Afters(Coming(vram), lastCell) + 1
      BY <1>1, <1>3, <1>4, <2>2, MovedWhileCopying, Zenon
    <3>2. (Coming(vram))' = Coming(vram')
      BY SameCopy
    <3> QED BY <2>1, <3>1, <3>2 DEF After
  <2>9. Copying' = Copying
    BY DEF Copying
  <2>10. StrayOK'
    <3>1. SUFFICES ASSUME ~nested'
                   PROVE  (IF Copying THEN After <= Bound ELSE Stray <= Bound)'
      BY DEF StrayOK
    <3>2. IF Copying THEN After <= Bound ELSE Stray <= Bound
      BY <3>1 DEF PointerInv, StrayOK
    <3>3. Stray \in Nat /\ Stray' \in Nat /\ After \in Nat /\ After' \in Nat
      BY Numbers DEF Stray, After
    <3>4. Bound' = Bound + IF Copying THEN 1 ELSE 0
      BY <1>4, <2>3 DEF Bound
    <3>5. CASE Copying
      <4>1. After' <= Bound'
        BY <1>4, <2>8, <3>2, <3>3, <3>4, <3>5
      <4> QED BY <2>9, <3>5, <4>1
    <3>6. CASE ~Copying
      <4>1. Stray' <= Bound'
        BY <1>4, <2>7, <3>2, <3>3, <3>4, <3>6
      <4> QED BY <2>9, <3>6, <4>1
    <3> QED BY <3>5, <3>6
  <2> QED
    BY <1>2, <1>4, <1>5, <2>1, <2>3, <2>6, <2>10
<1> QED
  BY <1>6, <1>7

LEMMA ByteKeepsPointer ==
  ASSUME PointerInv, MouseByte
  PROVE  PointerInv'
<1>1. DisplayTypes /\ PointerTypes /\ PacketInv
  BY DEF PointerInv, TypeInv
<1>2. PacketInv'
  BY <1>1, ByteKeepsPackets
<1>3. UNCHANGED <<selected, high, low, scrolls, disturbed, nested>>
      /\ UNCHANGED <<pc, char, offset, copied, byte>>
  BY DEF MouseByte, print, ports, history, copy
<1>4. (vram' \in [Cells -> Cell]) => DisplayTypes'
  BY <1>1, <1>3, Zenon DEF DisplayTypes, Copying
<1> DEFINE b == packet'[sent + 1]
<1>5. b \in Byte
  <2>1. packet' \in Packet /\ sent \in 0 .. 2
    BY <1>1, <1>2 DEF PacketInv
  <2>2. packet' \in Byte \X Byte \X Byte
    BY <2>1, PacketAssumption
  <2>3. packet'[1] \in Byte /\ packet'[2] \in Byte /\ packet'[3] \in Byte
    BY <2>2
  <2> QED
    BY <2>1, <2>3
<1>6. ASSUME UNCHANGED <<pointer, vram>>, bytes' \in Byte \X Byte \X Byte
      PROVE  PointerInv'
  <2>1. UNCHANGED <<vram, x, y, lastCell, lastX, lastY, dragged>>
    BY <1>6 DEF pointer
  <2>2. DisplayTypes'
    BY <1>1, <1>4, <2>1 DEF DisplayTypes
  <2>3. PointerTypes'
    BY <1>1, <1>6, <2>1, Zenon DEF PointerTypes
  <2>4. UNCHANGED Hidden /\ Fades(vram, vram')
    BY <2>1 DEF Hidden, Fades
  <2>5. StrayOK'
    BY <1>3, <2>1, <2>4, FadedStray
  <2> QED
    BY <1>2, <2>2, <2>3, <2>5 DEF PointerInv, TypeInv
<1>7. bytes \in Byte \X Byte \X Byte /\ cycle \in 0 .. 2
  BY <1>1 DEF PointerTypes, PacketInv
<1>8. CASE UNCHANGED <<cycle, bytes, pointer, vram>>
  BY <1>6, <1>7, <1>8
<1>9. CASE MouseInterrupt(b)
  <2> HIDE DEF b
  <2>1. CASE cycle = 0 /\ UNCHANGED <<cycle, bytes, pointer, vram>>
    BY <1>8, <2>1
  <2>2. CASE cycle \in 0 .. 1 /\ bytes' = [bytes EXCEPT ![cycle + 1] = b]
             /\ UNCHANGED <<pointer, vram>>
    <3>1. bytes' \in Byte \X Byte \X Byte
      BY <1>5, <1>7, <2>2
    <3> QED
      BY <1>6, <2>2, <3>1
  <2>3. CASE cycle = 2 /\ bytes' = [bytes EXCEPT ![3] = b]
             /\ UpdateCursor(bytes[1], Signed(bytes[2]), Signed(b))
    <3>1. bytes' \in Byte \X Byte \X Byte
      BY <1>5, <1>7, <2>3
    <3>2. Tenth(Signed(bytes[2])) \in Int /\ Tenth(Signed(b)) \in Int
      BY <1>5, <1>7, Movement
    <3>3. /\ vram' \in [Cells -> Cell]
          /\ x' \in 0 .. Cols - 1 /\ y' \in 0 .. Rows - 1 /\ lastCell' \in Cell
          /\ lastX' \in 0 .. Cols - 1 /\ lastY' \in 0 .. Rows - 1 /\ dragged' \in Nat
          /\ StrayOK'
      BY <1>3, <2>3, <3>2, CursorMoves
    <3>4. PointerTypes'
      BY <3>1, <3>3, Zenon DEF PointerTypes
    <3> QED
      BY <1>2, <1>4, <3>3, <3>4 DEF PointerInv, TypeInv
  <2> QED
    BY <1>9, <2>1, <2>2, <2>3 DEF MouseInterrupt
<1> QED
  BY <1>8, <1>9 DEF MouseByte

-----------------------------------------------------------------------------
(* Printing, by main and by the handler.                                   *)

LEMMA UnchangedPointer ==
  ASSUME PointerTypes, PacketInv, UNCHANGED mouse
  PROVE  PointerTypes' /\ PacketInv' /\ UNCHANGED <<Hidden, lastCell, dragged>>
<1>1. UNCHANGED <<x, y, lastCell, lastX, lastY, dragged>>
      /\ UNCHANGED <<packet, sent, cycle, bytes, trust>>
  BY DEF mouse, pointer, wire
<1>2. UNCHANGED <<Hidden, lastCell, dragged>>
  BY <1>1 DEF Hidden
<1>3. PointerTypes'
  BY <1>1, Zenon DEF PointerTypes
<1> QED
  BY <1>1, <1>2, <1>3, Zenon DEF PacketInv

\* A step of main that scrolls nothing.
LEMMA PlainStep ==
  ASSUME PointerInv, DisplayTypes', UNCHANGED <<scrolls, nested>>, UNCHANGED mouse,
         Fades(vram, vram'), ~Copying, ~Copying'
  PROVE  PointerInv'
<1>1. UNCHANGED <<Hidden, lastCell, dragged>> /\ PointerTypes' /\ PacketInv'
  BY UnchangedPointer DEF PointerInv, TypeInv
<1>2. Marks(Attrs(vram')) \subseteq Marks(Attrs(vram))
  BY FadedMarks
<1>3. StrayOK'
  BY <1>1, <1>2, QuietStray
<1> QED
  BY <1>1, <1>3 DEF PointerInv, TypeInv

LEMMA OffScreen ==
  ASSUME PointerInv, DisplayTypes', UNCHANGED <<vram, scrolls, nested>>,
         UNCHANGED mouse, ~Copying, ~Copying'
  PROVE  PointerInv'
<1>1. Fades(vram, vram')
  BY DEF Fades
<1> QED
  BY <1>1, PlainStep

\* A step of the copy that changes nothing of what is coming.
LEMMA CopyStep ==
  ASSUME PointerInv, DisplayTypes', UNCHANGED <<scrolls, nested>>, UNCHANGED mouse,
         Copying, Copying', Marks((Coming(vram))') \subseteq Marks(Coming(vram))
  PROVE  PointerInv'
<1>1. UNCHANGED <<Hidden, lastCell, dragged>> /\ PointerTypes' /\ PacketInv'
  BY UnchangedPointer DEF PointerInv, TypeInv
<1>2. StrayOK'
  BY <1>1, QuietStray
<1> QED
  BY <1>1, <1>2 DEF PointerInv, TypeInv

\* A scroll begins with the rows below coming, and gives its own mark away.
LEMMA ScrollBegins ==
  ASSUME PointerInv, DisplayTypes', HandleScrolling, Overflows(offset), UNCHANGED mouse
  PROVE  PointerInv'
<1>1. UNCHANGED <<Hidden, lastCell, dragged>> /\ PointerTypes' /\ PacketInv'
  BY UnchangedPointer DEF PointerInv, TypeInv
<1>2. pc = "scroll" /\ pc' = "load char" /\ scrolls' = scrolls + 1
      /\ UNCHANGED <<vram, nested, copied>>
  BY DEF HandleScrolling, history, copy
<1>3. ~Copying /\ Copying' /\ ~Loaded'
  BY <1>2 DEF Copying, Loaded
<1>4. copied = 0 /\ vram \in [Cells -> Cell]
  BY <1>3 DEF PointerInv, TypeInv, DisplayTypes
<1>5. (Coming(vram))' = Attrs(ScrolledUp(vram))
  <2>1. \A c \in Cells : ~(c < 0)
    BY SizeIsNat DEF Cells
  <2>2. (Coming(vram))' = [c \in Cells |-> Below(vram', c).attr]
    BY <1>2, <1>3, <1>4, <2>1 DEF Coming, Below
  <2>3. Attrs(ScrolledUp(vram)) = [c \in Cells |-> Below(vram, c).attr]
    BY DEF Attrs, ScrolledUp
  <2> QED BY <1>2, <2>2, <2>3
<1>6. After' <= Stray + 1
  <2> DEFINE up == Attrs(ScrolledUp(vram))
  <2>1. Cardinality(Marks(up)) <= Cardinality(Marks(Attrs(vram)))
    BY <1>4, ScrolledMarks
  <2>2. Cardinality(Marks(up)) \in Nat /\ Cardinality(Marks(Attrs(vram))) \in Nat
    BY MarksFinite
  <2>3. Afters(up, lastCell) <= Afters(Attrs(vram), lastCell)
    BY <2>1, <2>2, Numbers DEF Afters
  <2>4. Afters(Attrs(vram), lastCell) <= Stray + 1
    BY OwnCell DEF Stray
  <2>5. After' = Afters(up, lastCell)
    BY <1>1, <1>5 DEF After
  <2> HIDE DEF up
  <2>6. Afters(up, lastCell) \in Nat /\ Afters(Attrs(vram), lastCell) \in Nat /\ Stray \in Nat
    BY Numbers DEF Stray
  <2> QED BY <2>3, <2>4, <2>5, <2>6
<1>7. StrayOK'
  <2>1. SUFFICES ASSUME ~nested' PROVE After' <= Bound'
    BY <1>3 DEF StrayOK
  <2>2. Stray <= Bound
    BY <1>2, <1>3, <2>1 DEF PointerInv, StrayOK
  <2>3. Bound \in Nat /\ scrolls \in Nat /\ dragged \in Nat
    BY BoundTypes DEF PointerInv
  <2>4. Stray \in Nat /\ After' \in Nat
    BY Numbers DEF Stray, After
  <2>5. scrolls' = scrolls + 1
    BY <1>2
  <2>6. Bound' = Bound + 1
    BY <1>1, <2>3, <2>5 DEF Bound
  <2> HIDE DEF Bound, Stray, After
  <2> QED BY <1>6, <2>2, <2>3, <2>4, <2>6
<1> QED
  BY <1>1, <1>7 DEF PointerInv, TypeInv

LEMMA CellsAreNumbers == \A c \in Cells : c \in Int /\ (c + 1 # Size => c + 1 \in Cells)
BY SizeIsNat DEF Cells

LEMMA LoadKeepsPointer ==
  ASSUME PointerInv, LoadByte, UNCHANGED mouse
  PROVE  PointerInv'
<1>1. DisplayTypes
  BY DEF PointerInv, TypeInv
<1>2. UNCHANGED <<vram, selected, high, low, scrolls, disturbed, nested>>
      /\ UNCHANGED <<char, offset, copied>>
  BY DEF LoadByte, display, ports, history
<1>3. Below(vram, copied).char \in Chars /\ Below(vram, copied).attr \in Colours
  <2>1. vram \in [Cells -> Cell]
    BY <1>1 DEF DisplayTypes
  <2>2. Below(vram, copied) \in Cell
    BY <2>1, Glyphs DEF Below
  <2> QED BY <2>2, Glyphs
<1>4. CASE pc = "load char" /\ byte' = Below(vram, copied).char /\ pc' = "store char"
  <2>1. DisplayTypes'
    BY <1>1, <1>2, <1>3, <1>4 DEF DisplayTypes, Copying, Label
  <2>2. Copying /\ Copying' /\ ~Loaded /\ ~Loaded'
    BY <1>4 DEF Copying, Loaded
  <2>3. (Coming(vram))' = Coming(vram)
    BY <1>2, <2>2 DEF Coming, Below
  <2> QED BY <1>2, <2>1, <2>2, <2>3, CopyStep
<1>5. CASE pc = "load attr" /\ byte' = Below(vram, copied).attr /\ pc' = "store attr"
  <2>1. DisplayTypes'
    BY <1>1, <1>2, <1>3, <1>5 DEF DisplayTypes, Copying, Label
  <2>2. Copying /\ Copying' /\ ~Loaded
    BY <1>5 DEF Copying, Loaded
  <2>3. (Coming(vram))' = Coming(vram)
    <3>1. copied \in Int /\ \A c \in Cells : c \in Int
      <4>1. copied \in Cells
        BY <1>1, Zenon DEF DisplayTypes
      <4> QED BY <4>1, CellsAreNumbers
    <3>2. byte' = Below(vram, copied).attr
      BY <1>5
    <3>3. \A c \in Cells : (IF c < copied THEN vram[c].attr
                            ELSE IF c = copied /\ Loaded' THEN byte'
                            ELSE Below(vram, c).attr)
                         = IF c < copied THEN vram[c].attr ELSE Below(vram, c).attr
      BY <3>1, <3>2
    <3>4. (Coming(vram))' = [c \in Cells |-> IF c < copied THEN vram[c].attr
                                             ELSE IF c = copied /\ Loaded' THEN byte'
                                             ELSE Below(vram, c).attr]
      BY <1>2 DEF Coming, Below
    <3>5. Coming(vram) = [c \in Cells |-> IF c < copied THEN vram[c].attr
                                          ELSE Below(vram, c).attr]
      BY <2>2 DEF Coming
    <3> QED BY <3>3, <3>4, <3>5
  <2> QED BY <1>2, <2>1, <2>2, <2>3, CopyStep
<1> QED BY <1>4, <1>5 DEF LoadByte

LEMMA StoreCharKeepsPointer ==
  ASSUME PointerInv, StoreChar, UNCHANGED mouse
  PROVE  PointerInv'
<1>1. DisplayTypes
  BY DEF PointerInv, TypeInv
<1>2. /\ pc = "store char" /\ pc' = "load attr"
      /\ UNCHANGED <<selected, high, low, scrolls, disturbed, nested>>
      /\ UNCHANGED <<char, offset, copied>>
      /\ vram' = WithChar(vram, copied, byte)
  BY DEF StoreChar, ports, history, copy, WithChar
<1>3. vram \in [Cells -> Cell] /\ byte \in Chars
  BY <1>1, <1>2 DEF DisplayTypes
<1>4. vram' \in [Cells -> Cell] /\ Fades(vram, vram')
  BY <1>2, <1>3, CharWritten
<1>5. DisplayTypes'
  BY <1>1, <1>2, <1>4 DEF DisplayTypes, Copying, Label
<1>6. Copying /\ Copying' /\ ~Loaded /\ ~Loaded'
  BY <1>2 DEF Copying, Loaded
<1>7. (Coming(vram))' = Coming(vram')
  BY <1>2, <1>6 DEF Coming, Below
<1>8. Marks(Coming(vram')) \subseteq Marks(Coming(vram))
  BY <1>4, FadedMarks
<1> QED BY <1>2, <1>5, <1>6, <1>7, <1>8, CopyStep

LEMMA StoreAttrKeepsPointer ==
  ASSUME PointerInv, StoreAttr, UNCHANGED mouse
  PROVE  PointerInv'
<1>1. DisplayTypes /\ offset \in -1 .. Base * Base /\ copied \in Cells
  BY Zenon DEF PointerInv, TypeInv, DisplayTypes
<1>2. /\ pc = "store attr"
      /\ UNCHANGED <<selected, high, low, scrolls, disturbed, nested>>
      /\ UNCHANGED <<char>>
      /\ vram' = WithAttr(vram, copied, byte)
  BY DEF StoreAttr, ports, history, WithAttr
<1>3. vram \in [Cells -> Cell] /\ byte \in Colours
  BY <1>1, <1>2 DEF DisplayTypes
<1>4. vram' \in [Cells -> Cell]
      /\ \A c \in Cells : vram'[c].attr = IF c = copied THEN byte ELSE vram[c].attr
  <2>1. WithAttr(vram, copied, byte) \in [Cells -> Cell]
    BY <1>3, AttrWritten
  <2>2. ASSUME NEW c \in Cells
        PROVE  WithAttr(vram, copied, byte)[c].attr = IF c = copied THEN byte ELSE vram[c].attr
    BY <1>3, AttrWritten
  <2> QED BY <1>2, <2>1, <2>2
<1>5. Copying /\ Loaded
  BY <1>2 DEF Copying, Loaded
<1>6. Size \in Nat /\ Cols \in Nat \ {0} /\ copied \in 0 .. Size - 1
  BY <1>1, SizeOfScreen DEF Cells
<1>7. \A c \in Cells : c > copied => Below(vram', c).attr = Below(vram, c).attr
  <2>1. ASSUME NEW c \in Cells, c > copied
        PROVE  Below(vram', c).attr = Below(vram, c).attr
    <3>1. c + Cols # copied
      BY <1>6, <2>1 DEF Cells
    <3> QED BY <1>4, <3>1 DEF Below
  <2> QED BY <2>1
<1>8. CASE copied + 1 # Size
  <2>1. copied' = copied + 1 /\ pc' = "load char" /\ offset' = offset
    BY <1>8 DEF StoreAttr
  <2>2. copied' \in Cells
    BY <1>1, <1>8, <2>1, CellsAreNumbers, Zenon
  <2>3. Copying' /\ ~Loaded'
    BY <2>1 DEF Copying, Loaded
  <2>4. DisplayTypes'
    BY <1>1, <1>2, <1>4, <2>1, <2>2, <2>3 DEF DisplayTypes, Label
  <2>5. (Coming(vram))' = Coming(vram)
    <3>1. (Coming(vram))' = [c \in Cells |-> IF c < copied + 1 THEN vram'[c].attr
                                             ELSE Below(vram', c).attr]
      BY <2>1, <2>3 DEF Coming, Below
    <3>2. Coming(vram) = [c \in Cells |-> IF c < copied THEN vram[c].attr
                                          ELSE IF c = copied THEN byte
                                          ELSE Below(vram, c).attr]
      BY <1>5 DEF Coming
    <3>3. ASSUME NEW c \in Cells
          PROVE  (IF c < copied + 1 THEN vram'[c].attr ELSE Below(vram', c).attr)
                   = (IF c < copied THEN vram[c].attr
                      ELSE IF c = copied THEN byte ELSE Below(vram, c).attr)
      <4>1. c \in Int /\ copied \in Int
        BY <1>6 DEF Cells
      <4>2. (c < copied + 1 <=> (c < copied \/ c = copied))
            /\ (c = copied => ~(c < copied))
            /\ (~(c < copied) /\ c # copied => c > copied)
        BY <4>1
      <4>3. vram'[c].attr = IF c = copied THEN byte ELSE vram[c].attr
        BY <1>4
      <4>4. c > copied => Below(vram', c).attr = Below(vram, c).attr
        BY <1>7
      <4> QED BY <4>2, <4>3, <4>4
    <3> QED BY <3>1, <3>2, <3>3
  <2> QED BY <1>2, <1>5, <2>3, <2>4, <2>5, CopyStep
<1>9. CASE copied + 1 = Size
  <2>1. copied' = 0 /\ pc' = "set high" /\ offset' = Back(offset)
    BY <1>9 DEF StoreAttr
  <2>2. ~Copying' /\ copied' \in Cells
    <3>1. 0 \in Cells
      BY <1>6 DEF Cells
    <3> QED BY <2>1, <3>1 DEF Copying
  <2>3. offset' \in -1 .. Base * Base
    BY <1>1, <2>1, BackAnywhere
  <2>4. DisplayTypes'
    BY <1>1, <1>2, <1>4, <2>1, <2>2, <2>3 DEF DisplayTypes, Label
  <2>5. Attrs(vram') = Coming(vram)
    <3>1. Coming(vram) = [c \in Cells |-> IF c < copied THEN vram[c].attr
                                          ELSE IF c = copied THEN byte
                                          ELSE Below(vram, c).attr]
      BY <1>5 DEF Coming
    <3>2. \A c \in Cells : (c < copied \/ c = copied) /\ (c < copied => c # copied)
      BY <1>6, <1>9 DEF Cells
    <3>3. Attrs(vram') = [c \in Cells |-> vram'[c].attr]
      BY DEF Attrs
    <3> QED BY <1>4, <3>1, <3>2, <3>3
  <2>6. UNCHANGED <<Hidden, lastCell, dragged>> /\ PointerTypes' /\ PacketInv'
    BY UnchangedPointer DEF PointerInv, TypeInv
  <2>7. StrayOK'
    <3>1. SUFFICES ASSUME ~nested' PROVE Stray' <= Bound'
      BY <2>2 DEF StrayOK
    <3>2. After <= Bound
      BY <1>2, <1>5, <3>1 DEF PointerInv, StrayOK
    <3>3. Bound' = Bound /\ Bound \in Nat
      BY <1>2, <2>6, BoundTypes DEF PointerInv, Bound
    <3>4. Stray' <= After
      <4>1. Strays(vram', Hidden, lastCell) <= Afters(Attrs(vram'), lastCell)
        BY OwnCell
      <4> QED BY <2>5, <2>6, <4>1 DEF Stray, After
    <3>5. Stray' \in Nat /\ After \in Nat
      BY Numbers DEF Stray, After
    <3> HIDE DEF Bound, Stray, After
    <3> QED BY <3>2, <3>3, <3>4, <3>5
  <2> QED BY <2>4, <2>6, <2>7 DEF PointerInv, TypeInv
<1> QED BY <1>8, <1>9

LEMMA PrintKeepsPointer ==
  ASSUME PointerInv, PrintChar, UNCHANGED mouse
  PROVE  PointerInv'
<1>1. DisplayTypes
  BY DEF PointerInv, TypeInv
<1>2. Base \in Nat \ {0}
  BY ScreenAssumption
<1>3. ASSUME NEW at \in {"get high", "get low", "set high", "set low"},
             NEW half \in {"high", "low"},
             NEW to \in {"read high", "read low", "write high", "write low"},
             to = "read low" => at = "get low", Select(at, half, to)
      PROVE  PointerInv'
  <2>1. /\ pc = at /\ pc' = to /\ selected' = half
        /\ UNCHANGED <<vram, high, low, scrolls, disturbed, nested>>
        /\ UNCHANGED <<char, offset, copied, byte>>
    BY <1>3 DEF Select, history, copy
  <2>2. ~Copying /\ ~Copying'
    BY <1>3, <2>1 DEF Copying
  <2>3. DisplayTypes'
    BY <1>1, <1>3, <2>1, <2>2 DEF DisplayTypes, Label
  <2> QED
    BY <2>1, <2>2, <2>3, OffScreen
<1>4. Selected \in 0 .. Base - 1
  BY <1>1 DEF Selected, DisplayTypes
<1>5. CASE GetHigh
  <2>1. /\ offset' = Selected * Base /\ pc = "read high" /\ pc' = "get low"
        /\ UNCHANGED <<vram, selected, high, low, scrolls, disturbed, nested>>
        /\ UNCHANGED <<char, copied, byte>>
    BY <1>5 DEF GetHigh, display, ports, history, copy
  <2>2. offset' \in 0 .. (Base - 1) * Base /\ offset' \in -1 .. Base * Base
    <3>1. 0 \in 0 .. Base - 1 /\ Base * Base \in Nat /\ (Base - 1) * Base \in Nat
          /\ Base * Base = (Base - 1) * Base + Base
      BY <1>2
    <3>2. Selected * Base \in 0 .. (Base - 1) * Base
      BY <1>4, <3>1, AnyPosition
    <3>3. Selected * Base \in -1 .. Base * Base
      BY <1>2, <3>1, <3>2, PositionsGrow
    <3> QED
      BY <2>1, <3>2, <3>3, Zenon
  <2>3. ~Copying /\ ~Copying'
    BY <2>1 DEF Copying
  <2>4. DisplayTypes'
    BY <1>1, <2>1, <2>2, <2>3 DEF DisplayTypes, Label
  <2> QED
    BY <2>1, <2>3, <2>4, OffScreen
<1>6. CASE GetLow
  <2>1. /\ offset' = offset + Selected /\ pc = "read low" /\ pc' = "draw"
        /\ UNCHANGED <<vram, selected, high, low, scrolls, disturbed, nested>>
        /\ UNCHANGED <<char, copied, byte>>
    BY <1>6 DEF GetLow, display, ports, history, copy
  <2>2. offset' \in 0 .. Base * Base - 1 /\ offset' \in -1 .. Base * Base
    <3>1. offset \in 0 .. (Base - 1) * Base
      BY <1>1, <2>1 DEF DisplayTypes
    <3>2. Base * Base \in Nat /\ (Base - 1) * Base \in Nat
          /\ Base * Base = (Base - 1) * Base + Base
      BY <1>2
    <3>3. offset + Selected \in 0 .. Base * Base - 1
          /\ offset + Selected \in -1 .. Base * Base
      BY <1>2, <1>4, <3>1, <3>2, PositionsGrow
    <3> QED
      BY <2>1, <3>3, Zenon
  <2>3. ~Copying /\ ~Copying'
    BY <2>1 DEF Copying
  <2>4. DisplayTypes'
    BY <1>1, <2>1, <2>2, <2>3 DEF DisplayTypes, Label
  <2> QED
    BY <2>1, <2>3, <2>4, OffScreen
<1>7. pc \in {"draw", "colour"} => offset \in 0 .. Base * Base - 1
  BY <1>1 DEF DisplayTypes
<1>8. vram \in [Cells -> Cell] /\ char \in Chars /\ offset \in -1 .. Base * Base
  BY <1>1 DEF DisplayTypes
<1>9. CASE Draw
  <2>1. /\ pc = "draw" /\ pc' = "colour" /\ vram' = Lettered(vram, char, offset)
        /\ UNCHANGED <<selected, high, low, scrolls, disturbed, nested>>
        /\ UNCHANGED <<char, offset, copied, byte>>
    BY <1>9 DEF Draw, ports, history, copy
  <2>2. vram' \in [Cells -> Cell] /\ Fades(vram, vram')
    BY <1>8, <2>1, LetteredFades
  <2>3. ~Copying /\ ~Copying'
    BY <2>1 DEF Copying
  <2>4. DisplayTypes'
    BY <1>1, <1>7, <2>1, <2>2, <2>3 DEF DisplayTypes, Label
  <2> QED
    BY <2>1, <2>2, <2>3, <2>4, PlainStep
<1>10. CASE Colour
  <2>1. /\ pc = "colour" /\ pc' = "scroll" /\ offset' = Advanced(char, offset)
        /\ vram' = Coloured(vram, char, offset)
        /\ UNCHANGED <<selected, high, low, scrolls, nested>>
        /\ UNCHANGED <<char, copied, byte>>
    BY <1>10 DEF Colour, ports, copy
  <2>2. vram' \in [Cells -> Cell] /\ Fades(vram, vram')
    BY <1>8, <2>1, ColouredFades
  <2>3. ~Copying /\ ~Copying'
    BY <2>1 DEF Copying
  <2>4. offset' \in -1 .. Base * Base
    BY <1>7, <2>1, AdvancedAnywhere
  <2>5. disturbed' \in BOOLEAN
    BY <1>10, Zenon DEF Colour
  <2>6. DisplayTypes'
    BY <1>1, <2>1, <2>2, <2>3, <2>4, <2>5 DEF DisplayTypes, Label
  <2> QED
    BY <2>1, <2>2, <2>3, <2>6, PlainStep
<1>11. CASE HandleScrolling
  <2>1. /\ pc = "scroll" /\ pc' \in {"load char", "set high"}
        /\ UNCHANGED <<vram, selected, high, low, disturbed, nested>>
        /\ UNCHANGED <<char, offset, copied, byte>>
    BY <1>11 DEF HandleScrolling, ports, copy
  <2>2. ~Copying
    BY <2>1 DEF Copying
  <2>3. scrolls' \in Nat
    <3>1. scrolls' = scrolls + 1 \/ scrolls' = scrolls
      BY <1>11, Zenon DEF HandleScrolling
    <3>2. scrolls \in Nat
      BY <1>1, Zenon DEF DisplayTypes
    <3> QED BY <3>1, <3>2
  <2>4. DisplayTypes'
    BY <1>1, <2>1, <2>2, <2>3 DEF DisplayTypes, Label
  <2>5. CASE Overflows(offset)
    BY <1>11, <2>4, <2>5, ScrollBegins
  <2>6. CASE ~Overflows(offset)
    <3>1. ~Copying' /\ scrolls' = scrolls
      BY <1>11, <2>6 DEF HandleScrolling, Copying
    <3> QED
      BY <2>1, <2>2, <2>4, <3>1, OffScreen
  <2> QED
    BY <2>5, <2>6
<1>12. ASSUME NEW at \in {"write high", "write low"}, NEW value \in 0 .. Base - 1,
              NEW to \in {"set low", "idle"}, SetHalf(at, value, to)
       PROVE  PointerInv'
  <2>1. /\ pc = at /\ pc' = to
        /\ high' \in {high, value} /\ low' \in {low, value}
        /\ UNCHANGED <<vram, selected, scrolls, disturbed, nested>>
        /\ UNCHANGED <<char, offset, copied, byte>>
    BY <1>12 DEF SetHalf, history, copy
  <2>2. ~Copying /\ ~Copying'
    BY <1>12, <2>1 DEF Copying
  <2>3. DisplayTypes'
    BY <1>1, <1>12, <2>1, <2>2 DEF DisplayTypes, Label
  <2> QED
    BY <2>1, <2>2, <2>3, OffScreen
<1>13. HighOf(offset) \in 0 .. Base - 1 /\ LowOf(offset) \in 0 .. Base - 1
  <2>1. Base * Base \in Nat
    BY <1>2
  <2>2. offset \in Int
    BY <1>8, <2>1
  <2> QED
    BY <2>2, RegisterTypes
<1>14. CASE \/ Select("get high", "high", "read high") \/ Select("get low", "low", "read low")
            \/ Select("set high", "high", "write high") \/ Select("set low", "low", "write low")
  BY <1>3, <1>14
<1>15. CASE \/ SetHalf("write high", HighOf(offset), "set low")
            \/ SetHalf("write low", LowOf(offset), "idle")
  BY <1>12, <1>13, <1>15
<1>16. CASE LoadByte \/ StoreChar \/ StoreAttr
  BY <1>16, LoadKeepsPointer, StoreCharKeepsPointer, StoreAttrKeepsPointer
<1> QED
  BY <1>5, <1>6, <1>9, <1>10, <1>11, <1>14, <1>15, <1>16 DEF PrintChar

LEMMA EchoKeepsPointer ==
  ASSUME PointerInv, NEW c \in KeyChar, EchoKey(c), UNCHANGED mouse
  PROVE  PointerInv'
<1> DEFINE o == high * Base + low
           n == Advanced(c, o)
           v == Drawn(vram, c, o)
<1>1. DisplayTypes
  BY DEF PointerInv, TypeInv
<1>2. /\ Scroll(v, n) /\ high' = HighOf(Back(n)) /\ low' = LowOf(Back(n))
      /\ selected' = "low" /\ UNCHANGED <<pc, char, offset, copied, byte>>
  BY DEF EchoKey, print, copy
<1>3. /\ disturbed' \in BOOLEAN /\ nested' \in BOOLEAN
      /\ (nested => nested') /\ (Copying /\ Overflows(n) => nested')
  BY <1>1, Zenon DEF EchoKey, DisplayTypes
<1>4. o \in 0 .. Base * Base - 1
  BY <1>1, AnyPosition DEF DisplayTypes
<1>5. n \in -1 .. Base * Base
  BY <1>4, AdvancedAnywhere
<1>6. vram \in [Cells -> Cell] /\ c \in Chars
  BY <1>1 DEF DisplayTypes, Chars
<1>7. v \in [Cells -> Cell] /\ Fades(vram, v)
  BY <1>6, DrawnFades
<1> HIDE DEF o, n, v
<1>8. high' \in 0 .. Base - 1 /\ low' \in 0 .. Base - 1
  BY <1>2, <1>5, BackAnywhere, RegisterTypes
<1>9. UNCHANGED <<Hidden, lastCell, dragged>> /\ PointerTypes' /\ PacketInv'
  BY UnchangedPointer DEF PointerInv, TypeInv
<1>10. scrolls \in Nat /\ dragged \in Nat /\ Bound \in Nat
  BY BoundTypes DEF PointerInv
<1>11. vram' \in [Cells -> Cell] /\ scrolls' \in Nat
  BY <1>2, <1>7, <1>10, ScrolledMarks DEF Scroll
<1>12. DisplayTypes'
  BY <1>1, <1>2, <1>3, <1>8, <1>11 DEF DisplayTypes, Copying
<1>13. CASE ~Overflows(n)
  <2>1. vram' = v /\ scrolls' = scrolls
    BY <1>2, <1>13 DEF Scroll
  <2>2. StrayOK'
    BY <1>2, <1>3, <1>7, <1>9, <2>1, FadedStray
  <2> QED
    BY <1>9, <1>12, <2>2 DEF PointerInv, TypeInv
<1>14. CASE Overflows(n) /\ Copying
  <2>1. StrayOK'
    BY <1>3, <1>14 DEF StrayOK
  <2> QED
    BY <1>9, <1>12, <2>1 DEF PointerInv, TypeInv
<1>15. CASE Overflows(n) /\ ~Copying
  <2>1. vram' = ScrolledUp(v) /\ scrolls' = scrolls + 1
    BY <1>2, <1>15 DEF Scroll
  <2>2. Stray' <= Stray + 1
    <3> DEFINE up == Attrs(ScrolledUp(v))
    <3>1. Strays(vram', Hidden, lastCell) <= Afters(up, lastCell)
      BY <2>1, OwnCell
    <3>2. Cardinality(Marks(up)) <= Cardinality(Marks(Attrs(v)))
      BY <1>7, ScrolledMarks
    <3>3. Cardinality(Marks(Attrs(v))) <= Cardinality(Marks(Attrs(vram)))
      BY <1>7, FadedMarks, FewerMarks
    <3>4. /\ Cardinality(Marks(up)) \in Nat /\ Cardinality(Marks(Attrs(v))) \in Nat
          /\ Cardinality(Marks(Attrs(vram))) \in Nat
      BY MarksFinite
    <3>5. Afters(up, lastCell) <= Afters(Attrs(vram), lastCell)
      BY <3>2, <3>3, <3>4, Numbers DEF Afters
    <3>6. Afters(Attrs(vram), lastCell) <= Stray + 1
      BY OwnCell DEF Stray
    <3>7. Stray' = Strays(vram', Hidden, lastCell)
      BY <1>9 DEF Stray
    <3> HIDE DEF up
    <3>8. /\ Afters(up, lastCell) \in Nat /\ Afters(Attrs(vram), lastCell) \in Nat
          /\ Stray \in Nat /\ Strays(vram', Hidden, lastCell) \in Nat
      BY Numbers DEF Stray
    <3> QED BY <3>1, <3>5, <3>6, <3>7, <3>8
  <2>3. StrayOK'
    <3>1. ~Copying'
      BY <1>2, <1>15 DEF Copying
    <3>2. SUFFICES ASSUME ~nested' PROVE Stray' <= Bound'
      BY <3>1 DEF StrayOK
    <3>3. Stray <= Bound
      BY <1>3, <1>15, <3>2 DEF PointerInv, StrayOK
    <3>4. Bound' = Bound + 1
      BY <1>9, <1>10, <2>1 DEF Bound
    <3>5. Stray \in Nat /\ Stray' \in Nat
      BY Numbers DEF Stray
    <3> QED BY <1>10, <2>2, <3>3, <3>4, <3>5
  <2> QED
    BY <1>9, <1>12, <2>3 DEF PointerInv, TypeInv
<1> QED
  BY <1>13, <1>14, <1>15

LEMMA PointerInit == Init => PointerInv
<1> SUFFICES ASSUME Init PROVE PointerInv
  OBVIOUS
<1>1. Base \in Nat \ {0} /\ Rows \in Nat \ {0} /\ Cols \in Nat \ {0}
  BY ScreenAssumption
<1>2. /\ pc = "idle" /\ copied = 0 /\ scrolls = 0 /\ dragged = 0
      /\ vram = [c \in Cells |-> Blank]
  BY DEF Init, InitDisplay, InitMouse
<1>3. ~Copying /\ 0 \in Cells
  BY <1>2, SizeOfScreen DEF Copying, Cells
<1>4. DisplayTypes
  <2>1. 0 \in 0 .. Base - 1 /\ 0 \in -1 .. Base * Base
    BY <1>1
  <2>2. vram \in [Cells -> Cell]
    BY <1>2, Glyphs
  <2>3. /\ pc \in Label /\ pc \notin {"get low", "read low", "draw", "colour"}
        /\ pc \notin {"store char", "store attr"} /\ char \in Chars
        /\ selected \in {"high", "low"}
    BY DEF Init, InitDisplay, Chars, Label
  <2>4. high = 0 /\ low = 0 /\ offset = 0 /\ disturbed \in BOOLEAN /\ nested \in BOOLEAN
    BY DEF Init, InitDisplay
  <2> QED
    BY <1>2, <1>3, <2>1, <2>2, <2>3, <2>4 DEF DisplayTypes
<1>5. PointerTypes
  <2>1. Cols \div 2 \in 0 .. Cols - 1 /\ Rows \div 2 \in 0 .. Rows - 1
    BY <1>1
  <2>2. x \in 0 .. Cols - 1 /\ y \in 0 .. Rows - 1
    BY <2>1 DEF Init, InitMouse
  <2>3. lastX \in 0 .. Cols - 1 /\ lastY \in 0 .. Rows - 1
    <3>1. lastX = 0 /\ lastY = 0
      BY Zenon DEF Init, InitMouse
    <3> QED
      BY <1>1, <3>1
  <2>4. lastCell \in Cell
    BY DEF Init, InitMouse, Cell, Glyph, Chars, Colours
  <2>5. bytes \in Byte \X Byte \X Byte
    <3>1. bytes = <<0, 0, 0>>
      BY Zenon DEF Init, InitMouse
    <3>2. 0 \in Byte
      BY DEF Byte
    <3> QED
      BY <3>1, <3>2
  <2>6. dragged \in Nat
    BY <1>2
  <2> QED
    BY <2>2, <2>3, <2>4, <2>5, <2>6, Zenon DEF PointerTypes
<1>6. Stray = 0
  <2>1. Marks(Attrs(vram)) \ {Hidden} = {}
    BY <1>2, Glyphs DEF Marks, Attrs
  <2>2. Mark(lastCell) = 0
    BY DEF Init, InitMouse, Mark, Glyph
  <2> QED
    BY <2>1, <2>2, FS_EmptySet DEF Stray, Strays
<1>7. StrayOK
  BY <1>2, <1>3, <1>6 DEF StrayOK, Bound
<1> QED
  BY <1>4, <1>5, <1>7, PacketInit DEF PointerInv, TypeInv

LEMMA StepKeepsPointer == PointerInv /\ [Next]_vars => PointerInv'
<1> SUFFICES ASSUME PointerInv, [Next]_vars PROVE PointerInv'
  OBVIOUS
<1>1. DisplayTypes
  BY DEF PointerInv, TypeInv
<1>2. ASSUME NEW c \in MainChar, PrintNext(c), UNCHANGED mouse PROVE PointerInv'
  <2>1. /\ pc = "idle" /\ pc' = "get high" /\ char' = c
        /\ UNCHANGED <<vram, selected, high, low, scrolls, disturbed, nested>>
        /\ UNCHANGED <<offset, copied, byte>>
    BY <1>2 DEF PrintNext, display, ports, history, copy
  <2>2. ~Copying /\ ~Copying'
    BY <2>1 DEF Copying
  <2>3. DisplayTypes'
    BY <1>1, <2>1, <2>2 DEF DisplayTypes, Chars, Label
  <2> QED
    BY <1>2, <2>1, <2>2, <2>3, OffScreen
<1>3. CASE PrintChar /\ UNCHANGED mouse
  BY <1>3, PrintKeepsPointer
<1>4. ASSUME NEW c \in KeyChar, EchoKey(c), UNCHANGED mouse PROVE PointerInv'
  BY <1>4, EchoKeepsPointer
<1>5. CASE MouseByte
  BY <1>5, ByteKeepsPointer
<1>6. CASE UNCHANGED vars
  <2>1. /\ UNCHANGED <<vram, selected, high, low, scrolls, disturbed, nested>>
        /\ UNCHANGED <<pc, char, offset, copied, byte>> /\ UNCHANGED mouse
    BY <1>6 DEF vars, display, ports, history, print, copy
  <2>2. DisplayTypes'
    BY <1>1, <2>1, Zenon DEF DisplayTypes, Copying
  <2>3. UNCHANGED <<Hidden, lastCell, dragged>> /\ PointerTypes' /\ PacketInv'
    BY <2>1, UnchangedPointer DEF PointerInv, TypeInv
  <2>4. Fades(vram, vram')
    BY <2>1 DEF Fades
  <2>5. StrayOK'
    BY <2>1, <2>3, <2>4, FadedStray
  <2> QED
    BY <2>2, <2>3, <2>5 DEF PointerInv, TypeInv
<1> QED
  BY <1>2, <1>3, <1>4, <1>5, <1>6 DEF Next

-----------------------------------------------------------------------------
\* Between two characters the registers hold a position on the screen, unless
\* a handler has printed in main's way.
THEOREM CursorComesBack == Spec => []CursorOnScreen
<1>1. CursorInv => CursorOnScreen
  BY DEF CursorInv, InPrintChar, CursorOnScreen, Position
<1> QED
  BY <1>1, CursorInit, StepKeepsCursor, PTL DEF Spec

\* The handler is in step with the mouse, and one plain packet brings it back.
THEOREM PacketsComeBack == Spec => []PacketsInStep
<1>1. PacketInv => PacketsInStep
  BY DEF PacketInv, PacketsInStep
<1> QED
  BY <1>1, PacketInit, StepKeepsPackets, PTL DEF Spec

LEMMA PointerInvariant == Spec => []PointerInv
BY PointerInit, StepKeepsPointer, PTL DEF Spec

\* Positions, registers, glyphs, packets and the mouse's position keep their
\* types, also when a handler has moved the cursor under main's hands.
THEOREM ScreenTypes == Spec => []TypeOK
<1>1. PointerInv => TypeOK
  BY DEF PointerInv, TypeInv, DisplayTypes, PointerTypes, PacketInv, Label, TypeOK
<1> QED
  BY <1>1, PointerInvariant, PTL

\* Only scrolling leaves the pointer's colour behind, one cell each time, and a
\* movement in the middle of a scroll, one cell more.
THEOREM PicturesNeedScrolls == Spec => []PointersLeftByScrolls
<1>1. PointerInv => PointersLeftByScrolls
  <2> SUFFICES ASSUME PointerInv, ~Copying, ~nested
               PROVE  Cardinality({c \in Cells : vram[c].attr = "pointer"} \ {Hidden})
                        + Mark(lastCell) <= scrolls + dragged
    BY DEF PointersLeftByScrolls, Mark
  <2>1. {c \in Cells : vram[c].attr = "pointer"} = Marks(Attrs(vram))
    BY DEF Marks, Attrs
  <2>2. Stray <= Bound
    BY DEF PointerInv, StrayOK
  <2> QED
    BY <2>1, <2>2 DEF Stray, Strays, Bound
<1> QED
  BY <1>1, PointerInvariant, PTL
=============================================================================
