------------------------------- MODULE MCSnake -------------------------------
(***************************************************************************)
(* All constants of the game are numbers; the configuration gives them:    *)
(* a field small enough to be crossed in a few moves, a snake that needs   *)
(* an apple or two before it can run into itself without going back.       *)
(***************************************************************************)
EXTENDS Snake
=============================================================================
