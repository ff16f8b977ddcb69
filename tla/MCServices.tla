----------------------------- MODULE MCServices -----------------------------
(***************************************************************************)
(* Times and tickets as init_tasks gives them.  The calculator's integers  *)
(* have three bits, so that 4 is the smallest and 7 is -1; printf has      *)
(* words of four bits, and formats with every pair of directives that      *)
(* interact; the pictures have up to four pixels with repeated colours,    *)
(* points outside the screen, a number longer than num_array, and entries  *)
(* that straddle two sectors.  Of the two keys, read as the command byte,  *)
(* one keeps the keyboard alive.                                           *)
(***************************************************************************)
EXTENDS Services

MCExecTime == [i \in Task |-> (i + 1) * 10]
MCTickets == [i \in Task |-> (i + 1) * 5]
MCIncrement == {-1, 1}

MCDigits == ("0" :> 0) @@ ("4" :> 4) @@ ("7" :> 7)

UpTo(n, S) == UNION {[1 .. k -> S] : k \in 1 .. n}

MCFormats ==
  UpTo(4, {"a", "%", "d", "x", "l", "h"}) \cup
  {<<"%", "l", "d", "%", "d">>, <<"%", "d", "%", "l", "l", "d">>,
   <<"%", "l", "l", "d", "%", "u">>, <<"%", "s", "%", "c">>,
   <<"%", "o", "a", "%", "u">>}
MCStacks == {<<8, 0, 15, 5, 3, 9>>, <<0, 15, 7, 8, 12, 1>>,
             <<15, 15, 8, 8, 0, 0>>}

MCDigitOf ==
  ("0" :> 0) @@ ("1" :> 1) @@ ("2" :> 2) @@ ("3" :> 3) @@ ("4" :> 4) @@
  ("5" :> 5) @@ ("6" :> 6) @@ ("7" :> 7) @@ ("8" :> 8) @@ ("9" :> 9)

Pixel(x, y, colour) == [x |-> x, y |-> y, colour |-> colour]
MCPictures ==
  UpTo(4, {Pixel(0, 1, 1), Pixel(1, 0, 13), Pixel(100, 1, 1), Pixel(1, 1, 6)})

OnSize(size, volume, listing) ==
  [size |-> size, volume |-> volume, listing |-> listing]
MCMedia == {OnSize(3, 1, <<2, 0, 2>>), OnSize(3, 2, <<1>>), OnSize(3, 0, <<2>>),
            OnSize(1, 0, <<0>>)}

MCKeyByte == {{"irq1"}, {"irq12", "off"}}
=============================================================================
