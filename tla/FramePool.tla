------------------------------ MODULE FramePool ------------------------------
(***************************************************************************)
(* What the physical memory of MazOS promises to its users, independent of *)
(* bitmaps and page tables: every page frame has exactly one owner at a    *)
(* time, and a frame changes hands only through the free pool.             *)
(*                                                                         *)
(* KernelMemory is shown to implement this module.                         *)
(***************************************************************************)
CONSTANTS
  Frame,      \* the frames that the allocator manages
  PageId,     \* the places of a page a frame can back: page table entries
  TableId     \* the page directory slots a frame can serve as page table

VARIABLE owner  \* owner[f] says what frame f is used for

Free       == <<"free">>
Held       == <<"held">>      \* returned by the allocator, not mapped yet
Lost       == <<"lost">>      \* marked used, but nothing refers to it
Backs(p)   == <<"page", p>>
Serves(d)  == <<"table", d>>

Owner == {Free, Held, Lost} \cup {Backs(p) : p \in PageId}
                            \cup {Serves(d) : d \in TableId}

Init == owner = [f \in Frame |-> Free]

(***************************************************************************)
(* The only ways a frame may change hands.  A page never passes its frame  *)
(* to another page, a page table is never taken away, and a lost frame     *)
(* stays lost.                                                             *)
(***************************************************************************)
Handover(old, new) ==
  \/ new = old
  \/ old = Free /\ (new = Held \/ \E d \in TableId : new = Serves(d))
  \/ old = Held /\ \E p \in PageId : new = Backs(p)
  \/ \E p \in PageId : old = Backs(p) /\ new \in {Free, Lost}

Next ==
  /\ owner' \in [Frame -> Owner]
  /\ \A f \in Frame : Handover(owner[f], owner'[f])

Spec == Init /\ [][Next]_owner
=============================================================================
