------------------------------- MODULE Printf -------------------------------
(***************************************************************************)
(* printf of the kernel (1.2/lib/printf.cpp, the same in 1.1/libs): an     *)
(* automaton over the format that walks a pointer over the stack words     *)
(* behind it.  A character of output is <<"text", c>>, a digit             *)
(* <<"digit", n>>, and what %c and %s put out <<"char" or "string", w>>    *)
(* with the word they were given.                                          *)
(***************************************************************************)
EXTENDS Integers, SequencesExt

CONSTANTS
  Bits,     \* bits of a machine word: 32
  ShortBits, CharBits,  \* of a short and of a char: 16 and 8
  Formats,  \* formats, as sequences of characters
  Stacks    \* the words the caller has pushed behind the format

TwoToBits == 2 ^ Bits
Word == 0 .. TwoToBits - 1

ASSUME PrintfAssumption ==
  /\ TwoToBits \in Nat \ {0, 1}
  /\ Formats \subseteq Seq(STRING) /\ Stacks \subseteq Seq(Word)

VARIABLES
  fmt,      \* the rest of the format
  fmtState, \* state
  length,
  argp,     \* index of the next word
  stack,
  out,      \* what has been put out
  call,     \* history: the format of this call
  busy      \* printf is running

printfVars == <<fmt, fmtState, length, argp, stack, out, call, busy>>

PrintfInit ==
  /\ fmt = <<>> /\ fmtState = "start" /\ length = "start" /\ argp = 1
  /\ stack = <<>> /\ out = <<>> /\ call = <<>> /\ busy = FALSE

Radix(c) == CASE c \in {"d", "i", "u"} -> 10
              [] c \in {"x", "X", "p"} -> 16
              [] c = "o" -> 8

Number == {"d", "i", "u", "x", "X", "p", "o"}
Signed(c) == c \in {"d", "i"}
\* Mutant: the smallest number is taken for a large one without a sign.
NegativeInside(w) == w > TwoToBits \div 2
Negative(w) == w >= TwoToBits \div 2
Negate(w) == (TwoToBits - w) % TwoToBits

\* The digits of number, the last one first: the do-while of printf_number.
Digits10(number, radix) ==
  LET buffer[n \in Word] == IF n < radix THEN <<n>>
                            ELSE <<n % radix>> \o buffer[n \div radix]
  IN  buffer[number]

\* low is the word argp points at, high the one behind it.  Whatever the
\* length, number has one word.
PrintfNumber(c, len, low, high) ==
  LET minus == Signed(c) /\ Negative(IF len = "long long" THEN high ELSE low)
      number == IF minus THEN Negate(low) ELSE low
      digits == Reverse(Digits10(number, Radix(c)))
  IN  (IF minus THEN <<<<"text", "-">>>> ELSE <<>>)
        \o [i \in DOMAIN digits |-> <<"digit", digits[i]>>]

\* How far argp goes.
Advance(c) ==
  CASE c \in Number -> CASE length = "long" -> 2
                         [] length = "long long" -> 4
                         [] OTHER -> 1
    [] c = "s" -> IF length \in {"long", "long long"} THEN 2 ELSE 1
    [] c = "c" -> 1
    [] OTHER -> 0

Output(c) ==
  CASE c \in Number -> PrintfNumber(c, length, stack[argp], stack[argp + 1])
    [] c = "s" -> <<<<"string", stack[argp]>>>>
    [] c = "c" -> <<<<"char", stack[argp]>>>>
    [] c = "%" -> <<<<"text", c>>>>
    [] OTHER -> <<>>

Call(f, s) ==
  /\ ~busy
  /\ busy' = TRUE /\ call' = f /\ stack' = s
  /\ fmt' = f /\ fmtState' = "start" /\ length' = "start"
  /\ argp' = 1 /\ out' = <<>>

\* One turn of the loop that only changes the state, or prints the character.
Text ==
  /\ fmtState = "start"
  /\ IF Head(fmt) = "%" THEN fmtState' = "length" /\ UNCHANGED out
     ELSE out' = Append(out, <<"text", Head(fmt)>>) /\ UNCHANGED fmtState
  /\ UNCHANGED <<length, argp>>

\* h, hh, l, ll.
Length ==
  /\ \/ /\ fmtState = "length" /\ Head(fmt) = "h"
        /\ length' = "short" /\ fmtState' = "short"
     \/ /\ fmtState = "length" /\ Head(fmt) = "l"
        /\ length' = "long" /\ fmtState' = "long"
     \/ /\ fmtState = "short" /\ Head(fmt) = "h"
        /\ length' = "short short" /\ fmtState' = "spec"
     \/ /\ fmtState = "long" /\ Head(fmt) = "l"
        /\ length' = "long long" /\ fmtState' = "spec"
  /\ UNCHANGED <<argp, out>>

\* The character that ends a directive, known or not.
Conversion ==
  /\ \/ fmtState = "length" /\ Head(fmt) \notin {"h", "l"}
     \/ fmtState = "short" /\ Head(fmt) # "h"
     \/ fmtState = "long" /\ Head(fmt) # "l"
     \/ fmtState = "spec"
  /\ out' = out \o Output(Head(fmt))
  /\ argp' = argp + Advance(Head(fmt))
  /\ fmtState' = "start" /\ length' = "start"

Turn ==
  /\ busy /\ fmt # <<>>
  /\ Text \/ Length \/ Conversion
  /\ fmt' = Tail(fmt)
  /\ UNCHANGED <<stack, call, busy>>

\* Nothing of a call survives it.
Return ==
  /\ busy /\ fmt = <<>>
  /\ busy' = FALSE /\ call' = <<>> /\ stack' = <<>> /\ out' = <<>>
  /\ fmtState' = "start" /\ length' = "start" /\ argp' = 1
  /\ UNCHANGED fmt

PrintfNext == (\E f \in Formats, s \in Stacks : Call(f, s)) \/ Turn \/ Return

PrintfSpec == PrintfInit /\ [][PrintfNext]_printfVars

-----------------------------------------------------------------------------
\* The words a call of this module's instances can read are all there.
PrintfTypeOK ==
  /\ fmtState \in {"start", "length", "short", "long", "spec"}
  /\ length \in {"start", "short short", "short", "long", "long long"}
  /\ argp \in Nat /\ stack \in Seq(Word) /\ busy \in BOOLEAN
  /\ Len(fmt) <= Len(call)

\* What the C standard says of a format, on a machine whose long is one word
\* and whose long long is two: the directives from the front, each with the
\* words that belong to it.
Prefix == {"h", "l"}
DirectiveLength(f) ==
  IF Len(f) >= 4 /\ f[2] \in Prefix /\ f[3] = f[2] THEN 4
  ELSE IF Len(f) >= 3 /\ f[2] \in Prefix THEN 3 ELSE 2

\* A number is read by place: so many digits that the next place would be 0.
Power(radix) ==
  LET power[i \in Nat] == IF i = 0 THEN 1 ELSE radix * power[i - 1] IN power
DigitCount(n, radix) ==
  CHOOSE k \in 1 .. n + 1 :
    n < Power(radix)[k] /\ (k > 1 => Power(radix)[k - 1] <= n)
DigitsOf(n, radix) ==
  LET k == DigitCount(n, radix)
  IN  [i \in 1 .. k |-> (n \div Power(radix)[k - i]) % radix]

Value(c, words) ==
  LET low == words[1]
      unsigned == IF Len(words) = 1 THEN low ELSE low + TwoToBits * words[2]
      range == IF Len(words) = 1 THEN TwoToBits ELSE TwoToBits * TwoToBits
  IN  IF Signed(c) /\ words[Len(words)] >= TwoToBits \div 2
      THEN unsigned - range
      ELSE unsigned

Magnitude(n) == IF n < 0 THEN -n ELSE n

Shown(c, words) ==
  IF c \in Number
  THEN LET n == Value(c, words)
           digits == DigitsOf(Magnitude(n), Radix(c))
       IN  (IF n < 0 THEN <<<<"text", "-">>>> ELSE <<>>)
             \o [i \in DOMAIN digits |-> <<"digit", digits[i]>>]
  ELSE CASE c = "s" -> <<<<"string", words[1]>>>>
         [] c = "c" -> <<<<"char", words[1]>>>>
         [] c = "%" -> <<<<"text", "%">>>>
         [] OTHER -> <<>>

\* What stands first in the format f: a directive, or one character that
\* belongs to none.  It takes Uses(f) words.
Behind(s, n) == SubSeq(s, n + 1, Len(s))
IsDirective(f) == f[1] = "%" /\ Len(f) > 1
FrontLength(f) == IF IsDirective(f) THEN DirectiveLength(f) ELSE 1
Converted(f) == f[DirectiveLength(f)]
Wide(f) == DirectiveLength(f) = 4 /\ f[2] = "l"
Uses(f) ==
  IF ~IsDirective(f) \/ Converted(f) \notin Number \cup {"s", "c"} THEN 0
  ELSE IF Wide(f) /\ Converted(f) \in Number THEN 2 ELSE 1

\* A %h.. or %hh.. directive converts its argument to a short or a char; this
\* keeps the number.
KeptByLength(f, n) ==
  LET range == 2 ^ (IF DirectiveLength(f) = 4 THEN CharBits ELSE ShortBits)
  IN  IF Signed(Converted(f)) THEN -(range \div 2) <= n /\ n < range \div 2
      ELSE n < range

\* Its argument is there, fits into the one word printf prints, and none that
\* printf looks for elsewhere follows.  printf prints the whole word for a
\* short or a char: that is right for the values they have.
Fitting(f, words) ==
  IsDirective(f) =>
    /\ Converted(f) \notin Prefix
    /\ Uses(f) <= Len(words)
    /\ Wide(f) /\ Converted(f) \in Number =>
         Magnitude(Value(Converted(f), SubSeq(words, 1, 2))) < TwoToBits
    /\ DirectiveLength(f) > 2 /\ f[2] = "h" /\ Converted(f) \in Number =>
         KeptByLength(f, Value(Converted(f), SubSeq(words, 1, 1)))
    /\ DirectiveLength(f) > 2 /\ f[2] = "l" /\ Uses(f) > 0 =>
         \A i \in DirectiveLength(f) + 1 .. Len(f) : f[i] # "%"

FrontText(f, words) ==
  IF IsDirective(f) THEN Shown(Converted(f), SubSeq(words, 1, Uses(f)))
  ELSE IF f[1] = "%" THEN <<>> ELSE <<<<"text", f[1]>>>>

\* [text, exact] of a format and the words behind it, the pair x.
Reference[x \in Seq(STRING) \X Seq(Word)] ==
  IF x[1] = <<>> THEN [text |-> <<>>, exact |-> TRUE]
  ELSE IF ~Fitting(x[1], x[2]) THEN [text |-> <<>>, exact |-> FALSE]
  ELSE LET rest == Reference[<<Behind(x[1], FrontLength(x[1])),
                               Behind(x[2], Uses(x[1]))>>]
       IN  [rest EXCEPT !.text = FrontText(x[1], x[2]) \o @]

\* A call prints what the C standard says it prints, the smallest number too,
\* which is its own negative.  The exceptions: arguments behind a %l.. or %ll..
\* directive, for which argp goes two and four words instead of one and two; a
\* long long that does not fit into one word; and an argument of %h.. or %hh..
\* that the standard would first cut to a short or a char, while printf prints
\* the whole word.
PrintsArguments ==
  busy /\ fmt = <<>> =>
    LET r == Reference[<<call, stack>>] IN r.exact => out = r.text
=============================================================================
