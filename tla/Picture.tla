------------------------------- MODULE Picture -------------------------------
(***************************************************************************)
(* The command display: graphics mode, its palette and the picture read    *)
(* from a text file of entries {x, y, r, g, b}, (graphics.cpp, and         *)
(* draw_png_from_txt of fat32.cpp).  The three numbers of a colour are one *)
(* number here, so an entry has three values.  All of it runs inside the   *)
(* keyboard interrupt; afterwards q reboots, and nothing else is left.     *)
(***************************************************************************)
EXTENDS Integers, SequencesExt, FiniteSetsExt

CONSTANTS
  Width, Height,     \* of the screen
  Entries, First,    \* MAX_PALETTE_COLORS, and the first entry handed out: 16
  Range16,           \* 2^16: what min_used holds
  Colours, Step,     \* values of a colour, and of one of the palette: 256, 4
  SectorSize, SectorsPerCluster,
  MaxDigits,         \* what num_array holds: 5
  DigitOf,           \* a function from the digits to their values
  Pictures           \* sequences of pixels [x, y, colour]

Entry == 0 .. Entries - 1
Replaceable == First .. Entries - 1
Cell == (0 .. Width - 1) \X (0 .. Height - 1)
Shade(c) == (c % Colours) \div Step
Shades == 0 .. (Colours - 1) \div Step

ASSUME PaletteAssumption ==
  /\ Entries \in Nat /\ First \in Nat /\ First < Entries
  /\ Range16 \in Nat \ {0} /\ Colours \in Nat \ {0} /\ Step \in Nat \ {0}
ASSUME FileAssumption ==
  /\ SectorSize \in Nat \ {0} /\ MaxDigits \in Nat \ {0}
  /\ DigitOf \in [DOMAIN DigitOf -> 0 .. 9]
  /\ \A n \in 0 .. 9 : \E d \in DOMAIN DigitOf : DigitOf[d] = n
  /\ {"{", "}", ",", " "} \cap DOMAIN DigitOf = {}
  /\ Pictures \subseteq Seq([x : Nat, y : Nat, colour : Nat])

VARIABLES
  phase,    \* "text", "clear", "sector", "parse" or "shown"
  palette,  \* [colour, used]
  dac,      \* the palette of the hardware
  vidmem,
  file,     \* the characters of the file
  chain,    \* how many clusters the FAT links for it
  pos,      \* characters read so far
  vals,     \* the values of an entry so far; val_idx is the length
  num,      \* num_array
  drawn,    \* history: the shade last drawn at each cell, or -1
  evicted,  \* history: an entry in use was replaced
  calls     \* history: draw_pixel calls, as <<position in the file, values>>

pictureVars == <<phase, palette, dac, vidmem, file, chain, pos, vals, num,
                 drawn, evicted, calls>>
parser == <<file, chain, pos, vals, num, calls>>

PictureInit ==
  /\ phase = "text"
  /\ palette = [i \in Entry |-> [colour |-> 0, used |-> 0]]
  /\ dac = [i \in Entry |-> 0] /\ vidmem = [c \in Cell |-> 0]
  /\ file = <<>> /\ chain = 0 /\ pos = 0 /\ vals = <<>> /\ num = <<>>
  /\ drawn = [c \in Cell |-> -1] /\ evicted = FALSE /\ calls = {}

-----------------------------------------------------------------------------
(* The palette.                                                            *)

Exact(s) == {i \in Entry : palette[i].used > 0 /\ palette[i].colour = s}
Unused == {i \in Replaceable : palette[i].used = 0}

IsLeast(i, S) ==
  /\ i \in S
  /\ \A j \in S : \/ palette[i].used < palette[j].used
                  \/ palette[i].used = palette[j].used /\ i <= j

\* Mutant: the loop finds nothing.
VictimFirst(i) == i = First

\* min_used starts as entry First's count, cut to 16 bits; the loop takes
\* every entry that is used less than the least so far.
Victim(i) ==
  LET below == {j \in Replaceable :
                  palette[j].used < palette[First].used % Range16}
  IN  IF below = {} THEN i = First ELSE IsLeast(i, below)

IsFirst(i, S) == i \in S /\ \A j \in S : i <= j

\* get_color_index returns i.
ColourIndex(s, i) ==
  IF Exact(s) # {} THEN IsFirst(i, Exact(s))
  ELSE IF Unused # {} THEN IsFirst(i, Unused)
  ELSE Victim(i)

DrawPixel(x, y, colour) ==
  LET s == Shade(colour)
  IN  IF <<x, y>> \in Cell
      THEN \E i \in Entry :
             /\ ColourIndex(s, i)
             /\ IF i \in Exact(s)
                THEN /\ palette' = [palette EXCEPT ![i].used = @ + 1]
                     /\ UNCHANGED <<dac, evicted>>
                ELSE /\ palette' = [palette EXCEPT ![i] =
                                      [colour |-> s, used |-> 1]]
                     /\ dac' = [dac EXCEPT ![i] = s]
                     /\ evicted' = (evicted \/ palette[i].used > 0)
             /\ vidmem' = [vidmem EXCEPT ![<<x, y>>] = i]
             /\ drawn' = [drawn EXCEPT ![<<x, y>>] = s]
      ELSE UNCHANGED <<palette, dac, evicted, vidmem, drawn>>

-----------------------------------------------------------------------------
(* The file.                                                               *)

\* What the program that makes the files writes for a number, and for a pixel.
Decimal[n \in Nat] ==
  LET digit == <<CHOOSE d \in DOMAIN DigitOf : DigitOf[d] = n % 10>>
  IN  IF n < 10 THEN digit ELSE Decimal[n \div 10] \o digit

EntryText(p) ==
  <<"{">> \o Decimal[p.x] \o <<",", " ">> \o Decimal[p.y] \o <<",", " ">>
    \o Decimal[p.colour] \o <<"}", ",">>

PictureText(picture) ==
  FlattenSeq([k \in DOMAIN picture |-> EntryText(picture[k])])

\* The command up to the reading of the file: mode, registers, black screen.
Display(picture) ==
  /\ phase = "text"
  /\ phase' = "clear" /\ file' = PictureText(picture)
  /\ chain' \in 1 .. (Len(file') \div (SectorSize * SectorsPerCluster)) + 1
  /\ vidmem' = [c \in Cell |-> 0]
  /\ UNCHANGED <<palette, dac, pos, vals, num, drawn, evicted, calls>>

\* clear_screen draws a black pixel in every cell, column by column.
ClearScreen ==
  LET undrawn == {c \in Cell : drawn[c] = -1}
      next == CHOOSE c \in undrawn :
                \A d \in undrawn : c[1] * Height + c[2] <= d[1] * Height + d[2]
  IN  /\ phase = "clear"
      /\ IF undrawn = {} THEN /\ phase' = "sector"
              /\ UNCHANGED <<palette, dac, vidmem, drawn, evicted>>
         ELSE DrawPixel(next[1], next[2], 0) /\ UNCHANGED phase
      /\ UNCHANGED parser

\* Mutant: val_idx does not start at 0.
SectorStartKeeps == vals' = Append(vals, 0) /\ num' = <<>>

\* A sector is read: nothing of the one before is kept.
SectorStart == vals' = <<>> /\ num' = <<>>

\* The end of the file, or of its cluster chain.
FileRead ==
  \/ pos = Len(file)
  \/ pos = chain * SectorsPerCluster * SectorSize

ReadSector ==
  /\ phase = "sector"
  /\ IF FileRead THEN phase' = "shown" /\ UNCHANGED <<vals, num>>
     ELSE phase' = "parse" /\ SectorStart
  /\ UNCHANGED <<palette, dac, vidmem, file, chain, pos, drawn, evicted, calls>>

\* What does not fit into num_array is thrown away.
WithDigit(digits, d) == IF Len(digits) < MaxDigits THEN Append(digits, d) ELSE digits

ConvertToInt(digits) == FoldLeft(LAMBDA n, d : 10 * n + d, 0, digits)

\* The values at a , or }.
ValsWith == IF num = <<>> THEN vals ELSE Append(vals, ConvertToInt(num))

ValAt(i) == IF i \in DOMAIN ValsWith THEN ValsWith[i] ELSE -1

ParseChar ==
  LET c == file[pos + 1]
  IN  /\ phase = "parse" /\ pos < Len(file)
      /\ pos' = pos + 1
      /\ phase' = IF pos' % SectorSize = 0 \/ pos' = Len(file) THEN "sector"
                  ELSE "parse"
      /\ CASE c \in DOMAIN DigitOf -> /\ num' = WithDigit(num, DigitOf[c])
                                     /\ UNCHANGED vals
           [] c = "," -> num' = <<>> /\ vals' = ValsWith
           [] c = "}" -> num' = <<>> /\ vals' = <<>>
           [] OTHER -> UNCHANGED <<num, vals>>
      /\ IF c = "}"
         THEN /\ DrawPixel(ValAt(1), ValAt(2), ValAt(3))
              /\ calls' = calls \cup {<<pos', ValsWith>>}
         ELSE UNCHANGED <<palette, dac, vidmem, drawn, evicted, calls>>
      /\ UNCHANGED <<file, chain>>

\* q in graphics mode resets the machine.
Reboot ==
  /\ phase = "shown"
  /\ phase' = "text"
  /\ palette' = [i \in Entry |-> [colour |-> 0, used |-> 0]]
  /\ dac' = [i \in Entry |-> 0] /\ vidmem' = [c \in Cell |-> 0]
  /\ file' = <<>> /\ chain' = 0 /\ pos' = 0 /\ vals' = <<>> /\ num' = <<>>
  /\ drawn' = [c \in Cell |-> -1] /\ evicted' = FALSE /\ calls' = {}

PictureNext ==
  (\E picture \in Pictures : Display(picture))
    \/ ClearScreen \/ ReadSector \/ ParseChar \/ Reboot

PictureSpec == PictureInit /\ [][PictureNext]_pictureVars

-----------------------------------------------------------------------------
\* vals is an array of as many values as an entry has.
PictureTypeOK ==
  /\ phase \in {"text", "clear", "sector", "parse", "shown"}
  /\ palette \in [Entry -> [colour : Shades, used : Nat]]
  /\ dac \in [Entry -> Shades] /\ vidmem \in [Cell -> Entry]
  /\ chain \in Nat /\ pos \in 0 .. Len(file)
  /\ Len(vals) <= 3 /\ num \in Seq(0 .. 9)
  /\ drawn \in [Cell -> Shades \cup {-1}] /\ evicted \in BOOLEAN

\* No colour has two entries, and the hardware has the colours the table says.
PaletteInStep ==
  /\ \A i, j \in Entry :
       /\ palette[i].used > 0 /\ palette[j].used > 0
       /\ palette[i].colour = palette[j].colour
       => i = j
  /\ \A i \in Entry : palette[i].used > 0 => dac[i] = palette[i].colour

\* As long as no entry had to be given up, every pixel shows the colour it was
\* drawn with, in six bits; and the entry that is given up is the least used
\* one, but for the count of the first, which is compared without its upper
\* bits.
ColoursKept ==
  /\ PaletteInStep
  /\ ~evicted => \A c \in Cell : drawn[c] # -1 => dac[vidmem[c]] = drawn[c]
  /\ palette[First].used < Range16 =>
       \A i, j \in Replaceable : Victim(i) => palette[i].used <= palette[j].used

\* How much of the file the first k pixels take.
TextEnd(picture, k) == Len(PictureText(SubSeq(picture, 1, k)))

\* A number num_array holds.
Short(n) == Len(Decimal[n]) <= MaxDigits
ShortNumbers(p) == Short(p.x) /\ Short(p.y) /\ Short(p.colour)

\* Every pixel of the picture whose entry lies inside one sector, and whose
\* numbers fit into num_array, is drawn with its own numbers, once its closing
\* brace is read.  Only one that continues in the next sector can be lost or
\* drawn somewhere else, and one with a longer number is drawn by its first
\* digits; neither does harm to those behind it.
WholePixelsDrawn ==
  phase = "shown" =>
    \A picture \in Pictures : file = PictureText(picture) =>
      \A k \in DOMAIN picture :
        LET p == picture[k]
            s == TextEnd(picture, k - 1)
            e == TextEnd(picture, k) - 1
        IN  /\ ShortNumbers(p) /\ e <= pos
            /\ s \div SectorSize = (e - 1) \div SectorSize
            => <<e, <<p.x, p.y, p.colour>>>> \in calls
=============================================================================
