------------------------------- MODULE MCFat32 -------------------------------
(***************************************************************************)
(* The shipped image, cut down to the clusters that matter: root (2), the  *)
(* directory IMAGES (3), one image file whose chain starts at 4 and runs   *)
(* through 13 .. 16, and TESTFILE (12), all files under one name.  Of the  *)
(* first clusters that read as free, 7 was used by a file that is deleted  *)
(* again, as after an earlier session; 10 is not used by the volume, so    *)
(* its chain goes on in cluster 0; 13 .. 16 are the next.  MCFreeLater is  *)
(* what a session that used 10 up leaves.                                  *)
(***************************************************************************)
EXTENDS Fat32, TLC

CONSTANTS d, f, t1, ShippedSize

MCCluster == {0, 2, 3, 4, 10, 12, 13, 14, 15, 16}
MCFree == {10, 13, 14, 15, 16}
MCFreeLater == {13, 14, 15, 16}
MCPadded == {d}
MCTxt == {f}
MCText == {t1}
MCFat == (0 :> EndOfChain) @@ (10 :> 0) @@ (2 :> EndOfChain) @@ (3 :> EndOfChain) @@ (4 :> 13) @@ (12 :> EndOfChain)
      @@ (13 :> 14) @@ (14 :> 15) @@ (15 :> 16) @@ (16 :> EndOfChain)

File(n, c) == [name |-> n, dir |-> FALSE, cluster |-> c, size |-> ShippedSize]
Dir(n, c) == [name |-> n, dir |-> TRUE, cluster |-> c, size |-> 0]
Gone == [File(f, 12) EXCEPT !.name = Deleted]
Listing(es) == [text |-> NoText,
  slot |-> [i \in Slot |-> IF i <= Len(es) THEN es[i] ELSE EndEntry]]
Data == [text |-> Image, slot |-> [i \in Slot |-> AlienEntry]]

MCDisk == [c \in MCCluster |->
  CASE c = 0 -> Listing(<<>>)
    [] c = 2 -> Listing(<<Dir(d, 3), File(f, 12), Gone>>)
    [] c = 3 -> Listing(<<Dir(Dot, 3), Dir(DotDot, 0), File(f, 4)>>)
    [] OTHER -> Data]
=============================================================================
