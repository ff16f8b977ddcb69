------------------------------ MODULE MCScreen ------------------------------
(***************************************************************************)
(* A screen of two rows of three cells, whose positions need both cursor   *)
(* registers; movement bytes with and without the bit of a first byte.     *)
(***************************************************************************)
EXTENDS Screen

MCMainChar == {"a", "newline"}
MCKeyChar == {"k", "backspace"}
MCKeyLetter == {"k"}

\* One to the right (10 has the bit); one to the left; left button and one
\* down; right button and one up.
MCPacket == {<<8, 10, 0>>, <<24, 246, 0>>, <<41, 0, 246>>, <<10, 0, 10>>}
=============================================================================
