----------------------------- MODULE Calculator -----------------------------
(***************************************************************************)
(* The calculator (1.2/user_space/calculator.cpp).  The keyboard hands it  *)
(* every character typed while the mode is MODE_CALCULATOR; it collects    *)
(* them in c_input and evaluates the line from left to right on Enter.     *)
(* c_input and input_index are globals, cleared only at the end of an      *)
(* evaluation.  Numbers wrap around; the one division whose quotient is no *)
(* int raises the processor's divide error, whose handler halts.           *)
(***************************************************************************)
EXTENDS Integers, SequencesExt

CONSTANTS
  Digits,   \* the digits typed: a function from characters to their values
  Other,    \* characters that are neither digits nor operators
  Size,     \* sizeof(c_input) - 1
  IntBits   \* bits of an int

Digit == DOMAIN Digits

Operator == {"+", "-", "*", "/"}
Char == Digit \cup Operator \cup Other

\* Of the powers of two the proofs use no more than this.
ASSUME CalcAssumption ==
  /\ Size \in Nat /\ Digits \in [Digit -> Nat] /\ Digit \cap Operator = {}
  /\ IntBits \in Nat \ {0} /\ 2 ^ (IntBits - 1) \in Nat \ {0}
  /\ 2 ^ IntBits = 2 * 2 ^ (IntBits - 1)

VARIABLES
  c_input,     \* the characters up to the NUL; input_index is its length
  calculating, \* currentMode is MODE_CALCULATOR
  trapped,     \* a divide error has halted the machine
  printed,     \* the number the last key has printed, if it has
  typed,       \* history: characters accepted since the last prompt
  leftover     \* history: q or a division by zero has left c_input as it was

calcVars == <<c_input, calculating, trapped, printed, typed, leftover>>

CalcInit ==
  /\ c_input = <<>> /\ calculating = FALSE /\ trapped = FALSE
  /\ printed = <<>> /\ typed = <<>> /\ leftover = FALSE

IntMin == -(2 ^ (IntBits - 1))
Wrap(n) == ((n - IntMin) % (2 ^ IntBits)) + IntMin

Abs(n) == IF n < 0 THEN -n ELSE n

\* Division of C: towards zero.
Quotient(a, b) ==
  IF (a < 0) = (b < 0) THEN Abs(a) \div Abs(b) ELSE -(Abs(a) \div Abs(b))

\* One operator applied.  "zero" is the return in the middle.
Apply(r, op, n) ==
  CASE op = "+" -> [value |-> Wrap(r + n), status |-> "ok"]
    [] op = "-" -> [value |-> Wrap(r - n), status |-> "ok"]
    [] op = "*" -> [value |-> Wrap(r * n), status |-> "ok"]
    [] op = "/" /\ n = 0 -> [value |-> 0, status |-> "zero"]
    [] op = "/" /\ n = -1 /\ r = IntMin -> [value |-> 0, status |-> "trap"]
    [] OTHER -> [value |-> Quotient(r, n), status |-> "ok"]

\* One turn of the loop over the characters.
Scan(s, c) ==
  IF s.status # "ok" THEN s
  ELSE IF c \in Digit
  THEN [s EXCEPT !.number = Wrap(10 * s.number + Digits[c])]
  ELSE IF c \in Operator
  THEN LET a == Apply(s.result, s.operator, s.number)
       IN  [result |-> a.value, number |-> 0, operator |-> c,
            status |-> a.status]
  ELSE s

NewLine == [result |-> 0, number |-> 0, operator |-> "+", status |-> "ok"]

\* The loop, and the same switch once more behind it.
EvaluateExpression(line) ==
  LET s == FoldLeft(Scan, NewLine, line)
  IN  IF s.status = "ok" THEN Apply(s.result, s.operator, s.number)
      ELSE [value |-> 0, status |-> s.status]

\* The command calc.
Calculate ==
  /\ ~calculating /\ ~trapped
  /\ calculating' = TRUE /\ printed' = <<>>
  /\ UNCHANGED <<c_input, trapped, typed, leftover>>

\* q: back to the command line, whatever has been typed so far stays.
Quit ==
  /\ calculating /\ ~trapped
  /\ calculating' = FALSE /\ typed' = <<>> /\ printed' = <<>>
  /\ leftover' = (leftover \/ c_input # <<>>)
  /\ UNCHANGED <<c_input, trapped>>

\* Mutant: nothing clears the buffer.
LineAfterKept(e) == c_input

\* What is left in c_input after a line: a division by zero returns before the
\* assignments that clear it.
LineAfter(e) == IF e.status = "ok" THEN <<>> ELSE c_input

Enter ==
  LET e == EvaluateExpression(c_input)
  IN  /\ calculating /\ ~trapped
      /\ trapped' = (e.status = "trap")
      /\ printed' = IF trapped' THEN <<>> ELSE <<e.value>>
      /\ c_input' = LineAfter(e) /\ typed' = <<>>
      /\ leftover' = (e.status # "ok") /\ UNCHANGED calculating

\* A key that is neither q nor Enter, with room for size characters.
Typed(c, size) ==
  /\ calculating /\ ~trapped
  /\ IF Len(c_input) < size
     THEN c_input' = Append(c_input, c) /\ typed' = Append(typed, c)
     ELSE UNCHANGED <<c_input, typed>>
  /\ printed' = <<>> /\ UNCHANGED <<calculating, trapped, leftover>>

\* Mutant: no room is left for the NUL.
Append1TooFar(c) == Typed(c, Size + 1)

Append1(c) == Typed(c, Size)

AppendToBuffer == Quit \/ Enter \/ \E c \in Char : Append1(c)

CalcNext == Calculate \/ AppendToBuffer

CalcSpec == CalcInit /\ [][CalcNext]_calcVars

-----------------------------------------------------------------------------
CalcTypeOK ==
  /\ c_input \in Seq(Char) /\ Len(c_input) <= Size
  /\ typed \in Seq(Char) /\ Len(typed) <= Len(c_input)
  /\ calculating \in BOOLEAN /\ trapped \in BOOLEAN
  /\ printed \in Seq(Int)

\* The digits of a line read as one number, whatever stands between them: as
\* large as it is, and then wrapped around once.
AddDigit(n, c) == IF c \in Digit THEN 10 * n + Digits[c] ELSE n
NumberOf(s) == Wrap(FoldLeft(AddDigit, 0, s))

\* The value of a line: of what stands before its last operator, combined with
\* the number behind it.  A division by zero makes the whole line 0.
LeftToRight[s \in Seq(Char)] ==
  LET operators == {i \in DOMAIN s : s[i] \in Operator}
  IN  IF operators = {} THEN [value |-> NumberOf(s), status |-> "ok"]
      ELSE LET last == CHOOSE i \in operators : \A j \in operators : j <= i
               left == LeftToRight[SubSeq(s, 1, last - 1)]
               n == NumberOf(SubSeq(s, last + 1, Len(s)))
           IN  IF left.status # "ok" THEN left
               ELSE Apply(left.value, s[last], n)

\* Enter prints the value, from left to right, of exactly what was typed since
\* the prompt, unless q or a division by zero has left something in the buffer:
\* no digit, operator or key of an earlier line gets into the answer.  And it
\* halts the machine on a line that divides the smallest int by -1, and on no
\* other.
AnswersTheLine ==
  [][~leftover /\ (printed' # <<>> \/ trapped' # trapped) =>
       LET e == LeftToRight[typed]
       IN  /\ trapped' = (e.status = "trap")
           /\ ~trapped' => printed' = <<e.value>>]_calcVars
=============================================================================
