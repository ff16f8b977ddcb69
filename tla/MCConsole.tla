------------------------------ MODULE MCConsole ------------------------------
(***************************************************************************)
(* Two letters; lines of at most two characters, enough for a line that    *)
(* starts each program; three lines of history.                              *)
(***************************************************************************)
EXTENDS Console, TLC

CONSTANTS q, c

MCLetter == {q, c}
Lower(l) == <<l, FALSE>>
MCProgram == (<<Lower(c)>> :> "calc") @@ (<<Lower(c), Lower(c)>> :> "snake")
          @@ (<<Lower(c), Lower(q)>> :> "graphics")
          @@ (<<Lower(q), Lower(c)>> :> "paint")
=============================================================================
