------------------------ MODULE KernelMemory_proofs ------------------------
(***************************************************************************)
(* Theorems about KernelMemory, for every pool, heap, page table size and  *)
(* mix of requests.                                                        *)
(***************************************************************************)
EXTENDS KernelMemory, FiniteSetTheorems, TLAPS

\* The inductive invariant.  The count and the bitmap must be carried along
\* with the use of each frame: free_page_frame's decrement is harmless only
\* because kfree frees frames that are marked used.  CallBounds says that a
\* call only ever touches pages of the heap, and that a frame is pending only
\* between its allocation and its map_page.
HeapEnd == HeapPages * PageSize
StillToTake == IF return = "tcb" THEN 2 * Align(StackSize) ELSE 0
InHeap(b) == PageOf(b.addr) \in Pages

CallBounds ==
  /\ pc \in {"grow", "map"} =>
       /\ want >= 1
       /\ heapSize + 2 * want + StillToTake <= HeapEnd
  /\ pc = "map" => nextPage < CeilDiv(heapSize + want)
  /\ pc \in {"grow", "map"} /\ return = "stack" => InHeap(task)
  /\ pc \in {"stack", "mapstack", "inittask", "undotask", "undostack"} =>
       InHeap(task) /\ InHeap(stack)
  /\ \A b \in live : InHeap(b)
  /\ pc \notin {"map", "mapstack"} => frame = NoFrame

IInv == TypeOK /\ CountMatchesBitmap /\ OneUsePerFrame /\ CallBounds

-----------------------------------------------------------------------------
(* Arithmetic of the page and byte counts.                                 *)

LEMMA RoundingTypes ==
  ASSUME NEW n \in Nat
  PROVE  CeilDiv(n) \in Nat /\ Align(n) \in Nat
BY DEF CeilDiv, Align, PageSize

\* The pool is a finite set of frame numbers without frame 0, which is what
\* makes 0 usable as alloc_page_frame's failure value.
LEMMA PoolFacts ==
  /\ Pool \subseteq Nat /\ IsFiniteSet(Pool)
  /\ NoFrame \notin Pool /\ Absent \notin Pool /\ NoFrame # Absent
<1>1. StartByte \in Nat /\ StartByte >= 1 /\ EndByte \in Int
  BY FramesAssumption DEF StartByte, EndByte
<1>2. Pool \subseteq Nat /\ NoFrame \notin Pool
  BY <1>1 DEF Pool, NoFrame
<1>3. IsFiniteSet(Pool)
  BY <1>1, FS_Interval DEF Pool
<1>4. NoFrame \in Nat
  BY DEF NoFrame
<1>5. Absent \notin Nat
  BY HeapAssumption
<1>6. QED
  BY <1>2, <1>3, <1>4, <1>5

LEMMA PoolSubset ==
  ASSUME NEW S, S \subseteq Pool
  PROVE  IsFiniteSet(S) /\ Cardinality(S) \in Nat
BY PoolFacts, FS_Subset, FS_CardinalityType

-----------------------------------------------------------------------------
(* The two operations of the frame allocator.                              *)

Bitmap == used \subseteq Pool /\ totalAlloc = Cardinality(used)

\* alloc_page_frame marks a frame that was free, or changes nothing.
LEMMA AllocMarksFree ==
  ASSUME NEW f \in Pool \cup {NoFrame}, AllocPageFrame(f), Bitmap
  PROVE  /\ Bitmap' /\ totalAlloc' \in Nat
         /\ used \subseteq used'
         /\ f \in Pool => f \notin used /\ f \in used'
<1>1. CASE f = NoFrame
  <2>1. used' = used /\ totalAlloc' = totalAlloc
    BY <1>1 DEF AllocPageFrame
  <2>2. QED
    BY <1>1, <2>1, PoolFacts, PoolSubset DEF Bitmap
<1>2. CASE f \in Pool
  <2>1. f # NoFrame
    BY <1>2, PoolFacts
  <2>2. f \in Pool \ used
    BY <2>1 DEF AllocPageFrame, FirstFit
  <2>3. used' = used \cup {f} /\ totalAlloc' = totalAlloc + 1
    BY <2>1 DEF AllocPageFrame
  <2>4. Cardinality(used') = Cardinality(used) + 1
    BY <2>2, <2>3, PoolSubset, FS_AddElement DEF Bitmap
  <2>5. QED
    BY <2>2, <2>3, <2>4, PoolSubset DEF Bitmap
<1>3. QED
  BY <1>1, <1>2

\* free_page_frame keeps the count right for a frame that is marked used.
LEMMA FreeClearsUsed ==
  ASSUME NEW f \in used, FreePageFrame(f), Bitmap
  PROVE  Bitmap' /\ totalAlloc' \in Nat /\ used' = used \ {f}
<1>1. Cardinality(used') = Cardinality(used) - 1
  BY PoolSubset, FS_RemoveElement DEF Bitmap, FreePageFrame
<1>2. used' \subseteq Pool
  BY DEF Bitmap, FreePageFrame
<1>3. QED
  BY <1>1, <1>2, PoolSubset DEF Bitmap, FreePageFrame

-----------------------------------------------------------------------------
(* The page table operations keep the memory part of the invariant.        *)

\* What the invariant says of memory when the pending frame is g.
MemoryInv(g) ==
  /\ Bitmap /\ totalAlloc \in Nat
  /\ table \in [Dirs -> Pool \cup {NoFrame, Absent}]
  /\ entry \in [Places -> Pool \cup {NoFrame, Absent}]
  /\ \A x \in Places : entry[x] \in Pool => entry[x] \in used
  /\ \A d \in Dirs : table[d] \in Pool => table[d] \in used
  /\ g \in Pool => g \in used
  /\ \A x, y \in Places : x # y /\ entry[x] \in Pool => entry[x] # entry[y]
  /\ \A c, d \in Dirs : c # d /\ table[c] \in Pool => table[c] # table[d]
  /\ \A x \in Places, d \in Dirs : entry[x] \in Pool => entry[x] # table[d]
  /\ g \in Pool => /\ \A x \in Places : entry[x] # g
                   /\ \A d \in Dirs : table[d] # g

LocalsOK ==
  /\ heapSize \in Nat
  /\ pc \in PC
  /\ want \in Nat /\ nextPage \in Nat
  /\ frame \in Pool \cup {NoFrame}
  /\ return \in {"caller", "tcb", "stack"}
  /\ task \in Block /\ stack \in Block
  /\ live \subseteq Block
  /\ calls \in Nat /\ tasks \in Nat

LEMMA IInvParts == IInv <=> MemoryInv(frame) /\ LocalsOK /\ CallBounds
BY DEF IInv, TypeOK, CountMatchesBitmap, OneUsePerFrame, MemoryInv, LocalsOK,
       Bitmap

LEMMA IInvPartsPrimed == IInv' <=> MemoryInv(frame)' /\ LocalsOK' /\ CallBounds'
BY DEF IInv, TypeOK, CountMatchesBitmap, OneUsePerFrame, MemoryInv, LocalsOK,
       Bitmap

\* Taking a frame while none is pending makes it the pending one.
LEMMA AllocPending ==
  ASSUME NEW f \in Pool \cup {NoFrame}, MemoryInv(frame), AllocPageFrame(f),
         UNCHANGED <<table, entry>>, frame' = f
  PROVE  MemoryInv(frame)'
<1>1. /\ Bitmap' /\ totalAlloc' \in Nat
      /\ used \subseteq used'
      /\ f \in Pool => f \notin used /\ f \in used'
  BY AllocMarksFree DEF MemoryInv
<1>2. QED
  BY <1>1 DEF MemoryInv

\* map_page and unmap_page each write one entry x of one page table.
MapAt(d, x, f) ==
  \/ /\ table[d] # Absent /\ x[1] = table[d]
     /\ entry' = [entry EXCEPT ![x] = f]
     /\ UNCHANGED <<used, totalAlloc, table>>
  \/ /\ table[d] = Absent
     /\ AllocPageFrame(x[1])
     /\ table' = [table EXCEPT ![d] = x[1]]
     /\ entry' = [y \in Places |-> IF y = x THEN f
                                   ELSE IF y[1] = x[1] THEN Absent
                                   ELSE entry[y]]

UnmapAt(x) ==
  /\ UNCHANGED table
  /\ entry' = [entry EXCEPT ![x] = Absent]
  /\ IF entry[x] \in {Absent, NoFrame} THEN UNCHANGED <<used, totalAlloc>>
                                        ELSE FreePageFrame(entry[x])

LEMMA PlaceFacts ==
  /\ \A t \in Tables : \A p \in Pages : <<t, SlotOf(p)>> \in Places
  /\ \A x \in Places : x[1] \in Pool \cup {NoFrame}
  /\ Pages \subseteq Nat
  /\ \A p \in Pages : DirOf(p) \in Dirs
<1>1. Pages \subseteq Nat
  BY HeapAssumption DEF Pages
<1>2. \A p \in Nat : SlotOf(p) \in Slots
  BY HeapAssumption DEF SlotOf, Slots
<1> QED
  BY <1>1, <1>2 DEF Places, Tables, Dirs

LEMMA MapWritesOne ==
  ASSUME NEW p \in Pages, NEW d \in Dirs, NEW f, MapPage(d, p, f),
         table \in [Dirs -> Pool \cup {NoFrame, Absent}]
  PROVE  \E x \in Places : MapAt(d, x, f) /\ x[2] = SlotOf(p)
<1>1. CASE table[d] # Absent
  <2>1. table[d] \in Tables
    BY <1>1 DEF Tables
  <2>2. <<table[d], SlotOf(p)>> \in Places
    BY <2>1, PlaceFacts
  <2>3. MapAt(d, <<table[d], SlotOf(p)>>, f)
    BY <1>1 DEF MapAt, MapPage
  <2> QED
    BY <2>2, <2>3
<1>2. CASE table[d] = Absent
  <2>1. PICK t \in Tables :
          /\ AllocPageFrame(t)
          /\ table' = [table EXCEPT ![d] = t]
          /\ entry' = [x \in Places |-> IF x = <<t, SlotOf(p)>> THEN f
                                        ELSE IF x[1] = t THEN Absent
                                        ELSE entry[x]]
    BY <1>2 DEF MapPage
  <2>2. <<t, SlotOf(p)>> \in Places
    BY PlaceFacts
  <2>3. MapAt(d, <<t, SlotOf(p)>>, f)
    BY <1>2, <2>1 DEF MapAt
  <2> QED
    BY <2>2, <2>3
<1> QED
  BY <1>1, <1>2

LEMMA UnmapWritesOne ==
  ASSUME NEW p \in Pages, UnmapAndFree(p),
         table \in [Dirs -> Pool \cup {NoFrame, Absent}]
  PROVE  UNCHANGED memory \/ \E x \in Places : UnmapAt(x)
<1>1. CASE table[DirOf(p)] = Absent
  BY <1>1 DEF UnmapAndFree, ClearEntry, PageEntry, memory
<1>2. CASE table[DirOf(p)] # Absent
  <2>1. table[DirOf(p)] \in Tables
    BY <1>2, PlaceFacts DEF Tables
  <2>2. <<table[DirOf(p)], SlotOf(p)>> \in Places
    BY <2>1, PlaceFacts
  <2>3. UnmapAt(<<table[DirOf(p)], SlotOf(p)>>)
    BY <1>2 DEF UnmapAt, UnmapAndFree, ClearEntry, PageEntry
  <2> QED
    BY <2>2, <2>3
<1> QED
  BY <1>1, <1>2

\* map_page with the pending frame, which is pending no longer.
LEMMA MapPending ==
  ASSUME MemoryInv(frame), frame \in Pool \cup {NoFrame},
         NEW p \in Pages, NEW d \in Dirs, MapPage(d, p, frame),
         frame' = NoFrame
  PROVE  MemoryInv(frame)'
<1>0. PICK x \in Places : MapAt(d, x, frame)
  BY MapWritesOne DEF MemoryInv
<1>1. CASE /\ entry' = [entry EXCEPT ![x] = frame]
           /\ UNCHANGED <<used, totalAlloc, table>>
  BY <1>1, PoolFacts DEF MemoryInv, Bitmap
<1>2. CASE /\ AllocPageFrame(x[1])
           /\ table' = [table EXCEPT ![d] = x[1]]
           /\ entry' = [y \in Places |-> IF y = x THEN frame
                                         ELSE IF y[1] = x[1] THEN Absent
                                         ELSE entry[y]]
  <2>1. PICK t \in Pool \cup {NoFrame} : t = x[1]
    BY PlaceFacts
  <2>2. /\ Bitmap' /\ totalAlloc' \in Nat
        /\ used \subseteq used'
        /\ t \in Pool => t \notin used /\ t \in used'
    BY <1>2, <2>1, AllocMarksFree DEF MemoryInv
  <2>3. /\ table' \in [Dirs -> Pool \cup {NoFrame, Absent}]
        /\ entry' \in [Places -> Pool \cup {NoFrame, Absent}]
    BY <1>2, <2>1 DEF MemoryInv
  <2>4. \A y \in Places : entry'[y] \in {Absent, entry[y], frame}
    BY <1>2 DEF MemoryInv
  <2>5. /\ \A y \in Places : entry'[y] \in Pool => entry'[y] \in used
        /\ \A c \in Dirs : table'[c] \in Pool => table'[c] \in used'
    BY <1>2, <2>1, <2>2, <2>4, PoolFacts DEF MemoryInv
  <2>6. \A y, z \in Places : y # z /\ entry'[y] \in Pool
                               => entry'[y] # entry'[z]
    BY <1>2, PoolFacts DEF MemoryInv
  <2>7. \A c, e \in Dirs : c # e /\ table'[c] \in Pool
                             => table'[c] # table'[e]
    BY <1>2, <2>1, <2>2, PoolFacts DEF MemoryInv
  <2>8. \A y \in Places, c \in Dirs : entry'[y] \in Pool
                                       => entry'[y] # table'[c]
    <3> SUFFICES ASSUME NEW y \in Places, NEW c \in Dirs, entry'[y] \in Pool
                 PROVE  entry'[y] # table'[c]
      OBVIOUS
    <3>1. entry'[y] \in used
      BY <2>5
    <3>2. CASE c = d
      BY <3>1, <3>2, <1>2, <2>1, <2>2, PoolFacts DEF MemoryInv
    <3>3. CASE c # d
      BY <3>3, <1>2, <2>1, <2>4, PoolFacts DEF MemoryInv
    <3>4. QED
      BY <3>2, <3>3
  <2>9. QED
    BY <2>2, <2>3, <2>5, <2>6, <2>7, <2>8, PoolFacts DEF MemoryInv
<1>3. QED
  BY <1>0, <1>1, <1>2 DEF MapAt

\* kfree's unmap_page and free_page_frame, with no frame pending.
LEMMA UnmapKeeps ==
  ASSUME NEW p \in Pages, UnmapAndFree(p), MemoryInv(frame),
         frame = NoFrame, frame' = NoFrame
  PROVE  MemoryInv(frame)'
<1>0. UNCHANGED memory \/ \E x \in Places : UnmapAt(x)
  BY UnmapWritesOne DEF MemoryInv
<1>1. CASE UNCHANGED memory
  BY <1>1 DEF MemoryInv, memory, Bitmap
<1>2. ASSUME NEW x \in Places, UnmapAt(x)
      PROVE  MemoryInv(frame)'
  <2>1. CASE entry[x] \in {Absent, NoFrame}
    <3>1. /\ UNCHANGED <<used, totalAlloc, table>>
          /\ entry' = [entry EXCEPT ![x] = Absent]
      BY <1>2, <2>1 DEF UnmapAt
    <3>2. \A y \in Places : entry'[y] = (IF y = x THEN Absent ELSE entry[y])
      BY <3>1 DEF MemoryInv
    <3>3. entry' \in [Places -> Pool \cup {NoFrame, Absent}]
      BY <3>1 DEF MemoryInv
    <3>4. QED
      BY <3>1, <3>2, <3>3, PoolFacts DEF MemoryInv, Bitmap
  <2>2. CASE entry[x] \in Pool
    <3>1. FreePageFrame(entry[x]) /\ entry[x] \in used
      BY <1>2, <2>2, PoolFacts DEF UnmapAt, MemoryInv
    <3>2. Bitmap' /\ totalAlloc' \in Nat /\ used' = used \ {entry[x]}
      BY <3>1, FreeClearsUsed DEF MemoryInv
    <3>3. /\ table' = table
          /\ entry' = [entry EXCEPT ![x] = Absent]
      BY <1>2 DEF UnmapAt
    <3>4. QED
      BY <2>2, <3>2, <3>3, PoolFacts DEF MemoryInv
  <2>3. QED
    BY <2>1, <2>2 DEF MemoryInv
<1> QED
  BY <1>0, <1>1, <1>2

-----------------------------------------------------------------------------
(* The bounds of the model keep every page a call touches within Pages.    *)

LEMMA PageInHeap ==
  ASSUME NEW a \in Nat, a < HeapEnd
  PROVE  PageOf(a) \in Pages
BY HeapAssumption DEF PageOf, Pages, HeapEnd, PageSize

LEMMA CeilInHeap ==
  ASSUME NEW n \in Nat, n <= HeapEnd, NEW p \in Nat, p < CeilDiv(n)
  PROVE  p \in Pages
BY HeapAssumption DEF CeilDiv, Pages, HeapEnd, PageSize

LEMMA AlignPositive ==
  ASSUME NEW n \in Nat \ {0}
  PROVE  Align(n) \in Nat /\ Align(n) >= 1
BY DEF Align

-----------------------------------------------------------------------------
LEMMA InitIInv == Init => IInv
<1> SUFFICES ASSUME Init PROVE IInv
  OBVIOUS
<1>1. MemoryInv(frame)
  BY PoolFacts, FS_EmptySet DEF Init, MemoryInv, Bitmap
<1>2. LocalsOK
  BY DEF Init, LocalsOK, PC, Block, NoBlock
<1>3. CallBounds
  BY DEF Init, CallBounds
<1>4. QED
  BY <1>1, <1>2, <1>3, IInvParts

LEMMA NextIInv == IInv /\ [Next]_vars => IInv'
<1> SUFFICES ASSUME IInv, [Next]_vars PROVE IInv'
  OBVIOUS
<1>a. MemoryInv(frame) /\ LocalsOK /\ CallBounds
  BY IInvParts
<1>b. entry \in [Places -> Pool \cup {NoFrame, Absent}]
  BY <1>a DEF MemoryInv
<1>0. CASE UNCHANGED vars
  BY <1>0 DEF vars, IInv, TypeOK, CountMatchesBitmap, OneUsePerFrame,
              CallBounds, StillToTake, PC
<1>1. CASE MapBootInfo
  <2>1. PICK t \in Pool \cup {NoFrame} :
          AllocPageFrame(t) /\ table' = [table EXCEPT ![BootDir] = t]
    BY <1>1 DEF MapBootInfo
  <2>2. /\ Bitmap' /\ totalAlloc' \in Nat
        /\ used \subseteq used'
        /\ t \in Pool => t \notin used /\ t \in used'
    BY <1>a, <2>1, AllocMarksFree DEF MemoryInv
  <2>3. UNCHANGED <<entry, frame>>
    BY <1>1 DEF MapBootInfo, callState
  <2>4. MemoryInv(frame)'
    BY <1>a, <2>1, <2>2, <2>3, PoolFacts DEF MemoryInv
  <2>5. LocalsOK' /\ CallBounds'
    BY <1>1, <1>a DEF MapBootInfo, callState, LocalsOK, CallBounds, PC, InHeap
  <2>6. QED
    BY <2>4, <2>5, IInvPartsPrimed
<1>2. ASSUME NEW size \in Sizes, Kmalloc(size) PROVE IInv'
  <2>1. MemoryInv(frame)'
    BY <1>2, <1>a DEF Kmalloc, memory, MemoryInv, Bitmap
  <2>2. Align(size) \in Nat /\ Align(size) >= 1 /\ CeilDiv(heapSize) \in Nat
    BY <1>a, HeapAssumption, AlignPositive, RoundingTypes DEF LocalsOK
  <2>3. LocalsOK'
    BY <1>2, <1>a, <2>2 DEF Kmalloc, EnterKmalloc, LocalsOK, PC
  <2>4. CallBounds'
    BY <1>2, <1>a, <2>2 DEF Kmalloc, EnterKmalloc, LocalsOK, CallBounds, InHeap,
                            StillToTake, HeapEnd
  <2>5. QED
    BY <2>1, <2>3, <2>4, IInvPartsPrimed
<1>3. CASE GrowHeap
  <2>1. PICK f \in Pool \cup {NoFrame} : AllocPageFrame(f) /\ frame' = f
    BY <1>3 DEF GrowHeap
  <2>2. MemoryInv(frame)'
    BY <1>3, <1>a, <2>1, AllocPending DEF GrowHeap
  <2>3. LocalsOK' /\ CallBounds'
    BY <1>3, <1>a, <2>1 DEF GrowHeap, LocalsOK, CallBounds, PC, InHeap,
                            StillToTake
  <2>4. QED
    BY <2>2, <2>3, IInvPartsPrimed
<1>4. CASE MapHeapPage
  <2>1. heapSize + want \in Nat /\ heapSize + want <= HeapEnd
    BY <1>4, <1>a, RoundingTypes, HeapAssumption
    DEF MapHeapPage, CallBounds, LocalsOK, StillToTake, HeapEnd, PageSize
  <2>2. nextPage \in Pages
    BY <1>4, <1>a, <2>1, CeilInHeap DEF MapHeapPage, CallBounds, LocalsOK
  <2>3. DirOf(nextPage) \in Dirs
    BY <2>2 DEF Dirs
  <2>4. MemoryInv(frame)'
    BY <1>4, <1>a, <2>2, <2>3, MapPending DEF MapHeapPage, LocalsOK
  <2>5. LocalsOK' /\ CallBounds'
    BY <1>4, <1>a DEF MapHeapPage, LocalsOK, CallBounds, PC, InHeap, StillToTake
  <2>6. QED
    BY <2>4, <2>5, IInvPartsPrimed
<1>5. CASE FinishKmalloc
  <2>1. MemoryInv(frame)'
    BY <1>5, <1>a DEF FinishKmalloc, Raised, memory, MemoryInv, Bitmap,
                      ReturnToCaller, CallBounds
  <2>2. /\ want >= 1 /\ heapSize + want \in Nat
        /\ heapSize + want < HeapEnd
        /\ heapSize' = heapSize + want + want
    BY <1>5, <1>a, RoundingTypes, HeapAssumption
    DEF FinishKmalloc, Raised, CallBounds, LocalsOK, StillToTake, HeapEnd, PageSize
  <2>3. NewBlock \in Block /\ InHeap(NewBlock)
    BY <1>a, <2>2, PageInHeap DEF NewBlock, Block, InHeap, LocalsOK
  <2>4. CASE return = "caller"
    BY <1>5, <1>a, <2>1, <2>2, <2>3, <2>4, IInvPartsPrimed
    DEF FinishKmalloc, Raised, ReturnToCaller, LocalsOK, CallBounds, PC, Block, NoBlock,
        InHeap
  <2>5. CASE return = "tcb"
    <3>1. /\ Align(StackSize) \in Nat /\ Align(StackSize) >= 1
          /\ CeilDiv(heapSize') \in Nat
      BY <1>a, <2>2, HeapAssumption, AlignPositive, RoundingTypes
      DEF LocalsOK, PageSize
    <3>2. heapSize + 2 * want + 2 * Align(StackSize) <= HeapEnd
      BY <1>5, <1>a, <2>5 DEF FinishKmalloc, Raised, CallBounds, StillToTake
    <3>3. /\ want' = Align(StackSize) /\ return' = "stack" /\ pc' = "grow"
          /\ task' = NewBlock /\ nextPage' = CeilDiv(heapSize')
          /\ UNCHANGED <<frame, stack, live, calls, tasks>>
      BY <1>5, <2>5 DEF FinishKmalloc, Raised
    <3>4. LocalsOK'
      BY <1>a, <2>2, <2>3, <3>1, <3>3 DEF LocalsOK, PC
    <3>5. heapSize' + 2 * want' + 0 <= HeapEnd
      BY <1>a, <2>2, <3>1, <3>2, <3>3, HeapAssumption
      DEF LocalsOK, HeapEnd, PageSize
    <3>6. CallBounds'
      BY <1>5, <1>a, <2>3, <3>1, <3>3, <3>5
      DEF FinishKmalloc, Raised, CallBounds, InHeap, StillToTake
    <3>7. QED
      BY <2>1, <3>4, <3>6, IInvPartsPrimed
  <2>6. CASE return = "stack"
    BY <1>5, <1>a, <2>1, <2>2, <2>3, <2>6, IInvPartsPrimed
    DEF FinishKmalloc, Raised, LocalsOK, CallBounds, PC, InHeap
  <2>7. QED
    BY <1>5, <2>1, <2>4, <2>5, <2>6, IInvPartsPrimed DEF FinishKmalloc, Raised
<1>6. CASE CreateTask
  <2>1. MemoryInv(frame)'
    BY <1>6, <1>a DEF CreateTask, memory, MemoryInv, Bitmap
  <2>2. /\ Align(TcbSize) \in Nat /\ Align(TcbSize) >= 1
        /\ CeilDiv(heapSize) \in Nat
    BY <1>a, HeapAssumption, AlignPositive, RoundingTypes DEF LocalsOK
  <2>3. LocalsOK'
    BY <1>6, <1>a, <2>2 DEF CreateTask, EnterKmalloc, LocalsOK, PC
  <2>4. CallBounds'
    BY <1>6, <1>a, <2>2 DEF CreateTask, EnterKmalloc, LocalsOK, CallBounds,
                            InHeap, StillToTake, HeapEnd
  <2>5. QED
    BY <2>1, <2>3, <2>4, IInvPartsPrimed
<1>7. CASE AllocStack
  <2>1. PICK f \in Pool \cup {NoFrame} :
          /\ AllocPageFrame(f) /\ frame' = f
          /\ pc' = IF f = NoFrame THEN "undotask" ELSE "mapstack"
    BY <1>7 DEF AllocStack
  <2>2. MemoryInv(frame)'
    BY <1>7, <1>a, <2>1, AllocPending DEF AllocStack
  <2>3. LocalsOK' /\ CallBounds'
    BY <1>7, <1>a, <2>1 DEF AllocStack, LocalsOK, CallBounds, PC, InHeap,
                            StillToTake
  <2>4. QED
    BY <2>2, <2>3, IInvPartsPrimed
<1>8. CASE MapStack
  <2>1. PageOf(stack.addr) \in Pages
    BY <1>8, <1>a DEF MapStack, CallBounds, InHeap
  <2>2. DirOf(PageOf(stack.addr)) \in Dirs
    BY <2>1 DEF Dirs
  <2>3. MemoryInv(frame)'
    BY <1>8, <1>a, <2>1, <2>2, MapPending DEF MapStack, LocalsOK
  <2>4. LocalsOK' /\ CallBounds'
    BY <1>8, <1>a DEF MapStack, LocalsOK, CallBounds, PC, InHeap, StillToTake
  <2>5. QED
    BY <2>3, <2>4, IInvPartsPrimed
<1>9. CASE InitTask
  <2>1. MemoryInv(frame)'
    BY <1>9, <1>a DEF InitTask, memory, MemoryInv, Bitmap, ReturnToCaller,
                      callState, CallBounds
  <2>2. LocalsOK' /\ CallBounds'
    BY <1>9, <1>a DEF InitTask, ReturnToCaller, callState, LocalsOK,
                      CallBounds, PC, InHeap, Block, NoBlock
  <2>3. QED
    BY <2>1, <2>2, IInvPartsPrimed
<1>10. CASE UndoTask
  <2>1. PageOf(task.addr) \in Pages /\ frame = NoFrame
    BY <1>10, <1>a DEF UndoTask, CallBounds, InHeap
  <2>2. MemoryInv(frame)'
    BY <1>10, <1>a, <2>1, UnmapKeeps, PoolFacts DEF UndoTask, callState
  <2>3. LocalsOK' /\ CallBounds'
    BY <1>10, <1>a DEF UndoTask, callState, LocalsOK, CallBounds, PC, InHeap
  <2>4. QED
    BY <2>2, <2>3, IInvPartsPrimed
<1>11. CASE UndoStack
  <2>1. PageOf(stack.addr) \in Pages /\ frame = NoFrame
    BY <1>11, <1>a DEF UndoStack, CallBounds, InHeap
  <2>2. MemoryInv(frame)'
    BY <1>11, <1>a, <2>1, UnmapKeeps, PoolFacts DEF UndoStack, ReturnToCaller
  <2>3. LocalsOK' /\ CallBounds'
    BY <1>11, <1>a DEF UndoStack, ReturnToCaller, LocalsOK, CallBounds, PC,
                       InHeap, Block, NoBlock
  <2>4. QED
    BY <2>2, <2>3, IInvPartsPrimed
<1>12. ASSUME NEW b \in live, Kfree(b) PROVE IInv'
  <2>1. PageOf(b.addr) \in Pages /\ frame = NoFrame
    BY <1>12, <1>a DEF Kfree, CallBounds, InHeap
  <2>2. MemoryInv(frame)'
    BY <1>12, <1>a, <2>1, UnmapKeeps, PoolFacts DEF Kfree, callState
  <2>3. LocalsOK' /\ CallBounds'
    BY <1>12, <1>a DEF Kfree, callState, LocalsOK, CallBounds, PC, InHeap
  <2>4. QED
    BY <2>2, <2>3, IInvPartsPrimed
<1>13. QED
  BY <1>0, <1>1, <1>2, <1>3, <1>4, <1>5, <1>6, <1>7, <1>8, <1>9, <1>10, <1>11,
     <1>12 DEF Next

-----------------------------------------------------------------------------
\* Every reachable state of the kernel's memory is well formed: the types,
\* the frame count and the exclusive use of each frame, together with the
\* bounds of the running call.
THEOREM MemoryInvariant == Spec => []IInv
BY InitIInv, NextIInv, PTL DEF Spec

\* The variables stay within their types, totalAlloc never below zero.
THEOREM TypeCorrect == Spec => []TypeOK
<1>1. IInv => TypeOK
  BY DEF IInv
<1>2. QED
  BY <1>1, MemoryInvariant, PTL

\* The frame counter always equals the number of bits set in the bitmap.
THEOREM CountCorrect == Spec => []CountMatchesBitmap
<1>1. IInv => CountMatchesBitmap
  BY DEF IInv
<1>2. QED
  BY <1>1, MemoryInvariant, PTL

\* No frame is ever in use for two purposes, nor free while in use.
THEOREM FramesExclusive == Spec => []OneUsePerFrame
<1>1. IInv => OneUsePerFrame
  BY DEF IInv
<1>2. QED
  BY <1>1, MemoryInvariant, PTL

-----------------------------------------------------------------------------
(***************************************************************************)
(* The heap and the frames of KernelMemory, for every pool, heap, page     *)
(* table size and mix of requests: blocks do not overlap, nothing is       *)
(* mapped above the top of the heap, kfree takes frames only from pages it *)
(* unmaps, FramePool is implemented, and each task leaks one frame at most.*)
(***************************************************************************)

\* The blocks of the running create_task, which has not handed them out yet.
Pending ==
  IF pc \in {"stack", "mapstack", "inittask", "undotask", "undostack"}
  THEN {task, stack}
  ELSE IF pc \in {"grow", "map"} /\ return = "stack" THEN {task} ELSE {}
Blocks == live \cup Pending

Apart(a, b) == a.addr + a.size <= b.addr \/ b.addr + b.size <= a.addr

\* kmalloc takes its block at the top and raises the top above it.
BelowTop ==
  /\ \A b \in Blocks : b.addr + b.size <= heapSize
  /\ \A a, b \in Blocks : a # b => Apart(a, b)

\* change_heap_size maps no page that the size it has raised does not reach;
\* create_task maps a page of the heap.
TopBounds ==
  /\ pc = "boot" => heapSize = 0
  /\ pc = "grow" => nextPage <= CeilDiv(heapSize + want)
  /\ pc \in {"stack", "mapstack"} =>
       /\ stack.size >= 1
       /\ nextPage <= PageOf(stack.addr) + 1
       /\ nextPage <= CeilDiv(heapSize)

\* Page tables are made for pages that the loop has reached, so a page whose
\* table is shared with a lower one lies below the page that is mapped.
TableTop ==
  IF pc \in {"grow", "map", "stack", "mapstack"} THEN nextPage
                                                ELSE CeilDiv(heapSize)
TablesBelowTop ==
  \A p \in Pages : table[DirOf(p)] # Absent =>
    \E q \in Pages : DirOf(q) = DirOf(p) /\ q < TableTop

HeapInv == BelowTop /\ TopBounds /\ NothingMappedAboveTop /\ TablesBelowTop

-----------------------------------------------------------------------------
LEMMA CeilGrows ==
  ASSUME NEW m \in Nat, NEW n \in Nat, m <= n
  PROVE  CeilDiv(m) <= CeilDiv(n) /\ CeilDiv(m) \in Nat /\ CeilDiv(n) \in Nat
BY DEF CeilDiv, PageSize

LEMMA PageBelowCeil ==
  ASSUME NEW a \in Nat, NEW n \in Nat, a < n
  PROVE  PageOf(a) < CeilDiv(n)
BY DEF PageOf, CeilDiv, PageSize

LEMMA PagesBelowCeil ==
  ASSUME NEW a \in Nat
  PROVE  CeilDiv(a) <= PageOf(a) + 1 /\ PageOf(a) \in Nat
BY DEF PageOf, CeilDiv, PageSize

\* Two pages of one slot in different tables are whole tables apart.
LEMMA SameSlot ==
  ASSUME NEW p \in Nat, NEW q \in Nat, NEW r \in Nat, SlotOf(q) = SlotOf(p),
         DirOf(r) = DirOf(q), r <= p
  PROVE  q <= p
<1> DEFINE k == PagesPerTable
<1>1. k \in Nat /\ k >= 1
  BY HeapAssumption
<1> HIDE DEF k
<1>2. \A n \in Nat : /\ n \div k \in Nat /\ n % k \in Nat
                     /\ n = k * (n \div k) + (n % k) /\ n % k < k
  BY <1>1
<1>3. PICK a \in Nat : a = p \div k
  BY <1>2
<1>4. PICK b \in Nat : b = q \div k
  BY <1>2
<1>5. r \div k = b /\ q % k = p % k
  BY <1>4 DEF DirOf, SlotOf, k
<1>6. /\ p = k * a + (p % k) /\ q = k * b + (p % k)
      /\ r = k * b + (r % k)
  BY <1>2, <1>3, <1>4, <1>5
<1>7. p % k \in Nat /\ p % k < k /\ r % k \in Nat
  BY <1>2
<1>8. CASE b <= a
  <2>1. k * b <= k * a
    BY <1>1, <1>8
  <2> QED
    BY <1>1, <1>6, <1>7, <2>1
<1>9. CASE b >= a + 1
  <2>1. k * b >= k * (a + 1)
    BY <1>1, <1>9
  <2>2. k * (a + 1) = k * a + k
    BY <1>1
  <2>3. k * a \in Nat /\ k * b \in Nat
    BY <1>1
  <2> QED
    BY <1>1, <1>6, <1>7, <2>1, <2>2, <2>3
<1> QED
  BY <1>8, <1>9

\* map_page puts a frame into one entry; the pages whose table holds that
\* entry see it, the others keep theirs or lose it.
LEMMA MapPageMaps ==
  ASSUME NEW p \in Pages, NEW f, MapPage(DirOf(p), p, f), TypeOK
  PROVE  /\ \A q \in Pages : PageEntry(q)' # Absent =>
              \/ PageEntry(q) # Absent
              \/ /\ SlotOf(q) = SlotOf(p)
                 /\ DirOf(q) = DirOf(p) \/ table[DirOf(q)] # Absent
         /\ \A q \in Pages : table'[DirOf(q)] # Absent =>
              DirOf(q) = DirOf(p) \/ table[DirOf(q)] # Absent
<1>1. PICK x \in Places : MapAt(DirOf(p), x, f) /\ x[2] = SlotOf(p)
  BY PlaceFacts, MapWritesOne DEF TypeOK
<1>2. SUFFICES ASSUME NEW q \in Pages
               PROVE  /\ PageEntry(q)' # Absent =>
                           \/ PageEntry(q) # Absent
                           \/ /\ SlotOf(q) = SlotOf(p)
                              /\ \/ DirOf(q) = DirOf(p)
                                 \/ table[DirOf(q)] # Absent
                      /\ table'[DirOf(q)] # Absent =>
                           DirOf(q) = DirOf(p) \/ table[DirOf(q)] # Absent
  OBVIOUS
<1>3. DirOf(q) \in Dirs /\ DirOf(p) \in Dirs
  BY PlaceFacts
<1>4. table'[DirOf(q)] = table[DirOf(q)] \/ DirOf(q) = DirOf(p)
  BY <1>1, <1>3 DEF MapAt, TypeOK
<1>5. CASE table'[DirOf(q)] # Absent
  <2> DEFINE y == <<table'[DirOf(q)], SlotOf(q)>>
  <2>1. table'[DirOf(q)] \in Tables
    BY <1>1, <1>3, <1>5, PlaceFacts DEF MapAt, TypeOK, Tables
  <2>2. y \in Places /\ PageEntry(q)' = entry'[y]
    BY <1>5, <2>1, PlaceFacts DEF PageEntry
  <2>3. y = x => SlotOf(q) = SlotOf(p)
    BY <1>1
  <2> HIDE DEF y
  <2>4. y # x => entry'[y] = entry[y] \/ entry'[y] = Absent
    BY <1>1, <2>2 DEF MapAt, TypeOK
  <2>5. CASE table[DirOf(q)] # Absent
    <3>1. y # x /\ entry'[y] # Absent /\ DirOf(q) # DirOf(p)
            => PageEntry(q) # Absent
      BY <1>4, <2>4, <2>5 DEF PageEntry, y
    <3>2. y # x /\ entry'[y] # Absent /\ DirOf(q) = DirOf(p)
            => PageEntry(q) # Absent
      BY <1>1, <2>4, <2>5 DEF PageEntry, y, MapAt
    <3> QED
      BY <1>4, <2>2, <2>3, <2>5, <3>1, <3>2
  <2>6. CASE table[DirOf(q)] = Absent
    <3>1. DirOf(q) = DirOf(p) /\ table'[DirOf(q)] = x[1]
      BY <1>1, <1>3, <1>4, <1>5, <2>6 DEF MapAt, TypeOK
    <3>2. y[1] = x[1]
      BY <3>1 DEF y
    <3>3. y # x => entry'[y] = Absent
      BY <1>1, <2>2, <2>6, <3>1, <3>2 DEF MapAt, TypeOK
    <3> QED
      BY <2>2, <2>3, <3>1, <3>3
  <2> QED
    BY <2>5, <2>6
<1>6. CASE table'[DirOf(q)] = Absent
  BY <1>6 DEF PageEntry
<1> QED
  BY <1>5, <1>6

LEMMA UnmapUnmaps ==
  ASSUME NEW p \in Pages, UnmapAndFree(p), TypeOK
  PROVE  /\ table' = table
         /\ \A q \in Pages : PageEntry(q)' # Absent => PageEntry(q) # Absent
<1>1. table' = table
  BY DEF UnmapAndFree
<1>2. CASE table[DirOf(p)] = Absent
  BY <1>1, <1>2 DEF UnmapAndFree, ClearEntry, PageEntry
<1>3. CASE table[DirOf(p)] # Absent
  <2>1. \A q \in Pages : table[DirOf(q)] # Absent =>
          <<table[DirOf(q)], SlotOf(q)>> \in Places
    BY PlaceFacts DEF TypeOK, Tables
  <2>2. \A y \in Places : entry'[y] = Absent \/ entry'[y] = entry[y]
    BY <1>3 DEF UnmapAndFree, ClearEntry, TypeOK
  <2> QED
    BY <1>1, <2>1, <2>2 DEF PageEntry
<1> QED
  BY <1>1, <1>2, <1>3

\* The directory slot of the multiboot information is not one of the heap's.
LEMMA BootSlotApart ==
  ASSUME NEW p \in Pages
  PROVE  DirOf(p) # BootDir /\ DirOf(p) \in Dirs
<1>1. p \in Nat /\ PagesPerTable \in Nat \ {0} /\ BootDir \notin Nat
  BY PlaceFacts, HeapAssumption
<1>2. DirOf(p) \in Nat
  BY <1>1 DEF DirOf
<1> QED
  BY <1>1, <1>2, PlaceFacts

LEMMA BootMapsNoPage ==
  ASSUME MapBootInfo, TypeOK
  PROVE  \A p \in Pages : /\ table'[DirOf(p)] = table[DirOf(p)]
                          /\ PageEntry(p)' = PageEntry(p)
BY BootSlotApart DEF MapBootInfo, TypeOK, PageEntry

-----------------------------------------------------------------------------
LEMMA HeapInit == Init => HeapInv
BY PlaceFacts DEF Init, HeapInv, BelowTop, Blocks, Pending, TopBounds,
       NothingMappedAboveTop, TablesBelowTop, PageEntry

\* kmalloc takes a block at the top.
LEMMA NewBlockOnTop ==
  ASSUME IInv, HeapInv, FinishKmalloc
  PROVE  /\ heapSize' = heapSize + want + want /\ want \in Nat /\ want >= 1
         /\ Blocks' \subseteq Blocks \cup {NewBlock}
         /\ NewBlock.addr = heapSize + want /\ NewBlock.size = want
<1>1. want \in Nat /\ want >= 1 /\ pc = "grow"
  BY DEF IInv, TypeOK, CallBounds, FinishKmalloc
<1>2. CASE return = "caller"
  BY <1>1, <1>2 DEF FinishKmalloc, Raised, ReturnToCaller, Blocks, Pending,
                    NewBlock
<1>3. CASE return = "tcb"
  BY <1>1, <1>3 DEF FinishKmalloc, Raised, Blocks, Pending, NewBlock
<1>4. CASE return = "stack"
  BY <1>1, <1>4 DEF FinishKmalloc, Raised, Blocks, Pending, NewBlock
<1> QED
  BY <1>2, <1>3, <1>4 DEF FinishKmalloc

LEMMA StepKeepsBelowTop ==
  ASSUME IInv, HeapInv, [Next]_vars
  PROVE  BelowTop'
<1>1. CASE FinishKmalloc
  <2>1. heapSize \in Nat /\ Blocks \subseteq Block
    BY <1>1 DEF IInv, TypeOK, Blocks, Pending
  <2>2. \A b \in Blocks' :
          b = NewBlock \/ (b \in Blocks /\ b.addr + b.size <= heapSize)
    BY <1>1, NewBlockOnTop DEF HeapInv, BelowTop
  <2> HIDE DEF NewBlock
  <2>3. \A b \in Blocks' : b.addr + b.size <= heapSize'
    BY <1>1, <2>1, <2>2, NewBlockOnTop DEF Block
  <2>4. \A a, b \in Blocks' : a # b => Apart(a, b)
    BY <1>1, <2>1, <2>2, NewBlockOnTop DEF HeapInv, BelowTop, Apart, Block
  <2> QED
    BY <2>3, <2>4 DEF BelowTop, Apart
<1>2. CASE heapSize' = heapSize /\ Blocks' \subseteq Blocks
  BY <1>2 DEF HeapInv, BelowTop, Apart
<1>3. CASE MapBootInfo
  BY <1>3, <1>2
  DEF MapBootInfo, callState, HeapInv, TopBounds, Blocks, Pending
<1>4. CASE \/ \E size \in Sizes : Kmalloc(size)
           \/ CreateTask
  BY <1>4, <1>2 DEF Kmalloc, CreateTask, EnterKmalloc, Blocks, Pending
<1>5. CASE GrowHeap \/ MapHeapPage
  BY <1>5, <1>2 DEF GrowHeap, MapHeapPage, Blocks, Pending
<1>6. CASE AllocStack \/ MapStack
  BY <1>6, <1>2 DEF AllocStack, MapStack, Blocks, Pending
<1>7. CASE InitTask
  BY <1>7, <1>2 DEF InitTask, ReturnToCaller, callState, Blocks, Pending
<1>8. CASE UndoTask \/ UndoStack
  BY <1>8, <1>2
  DEF UndoTask, UndoStack, ReturnToCaller, callState, Blocks, Pending
<1>9. CASE \E b \in live : Kfree(b)
  BY <1>9, <1>2 DEF Kfree, callState, Blocks, Pending
<1>10. CASE UNCHANGED vars
  BY <1>10, <1>2 DEF vars, Blocks, Pending
<1> QED
  BY <1>1, <1>3, <1>4, <1>5, <1>6, <1>7, <1>8, <1>9, <1>10 DEF Next

\* Steps that map no page and leave the size of the heap alone.
LEMMA NothingNewMapped ==
  ASSUME NothingMappedAboveTop, heapSize' = heapSize,
         pc \in {"grow", "map"} =>
           pc' \in {"grow", "map"} /\ UNCHANGED nextPage,
         \A p \in Pages : PageEntry(p)' # Absent => PageEntry(p) # Absent
  PROVE  NothingMappedAboveTop'
BY DEF NothingMappedAboveTop

LEMMA MemoryKept ==
  ASSUME UNCHANGED <<table, entry>>
  PROVE  /\ \A p \in Pages : PageEntry(p)' = PageEntry(p)
         /\ \A p \in Pages : table'[DirOf(p)] = table[DirOf(p)]
BY DEF PageEntry

\* Steps that make no page table and do not lower the top.
LEMMA NoNewTable ==
  ASSUME TablesBelowTop, TableTop \in Nat, TableTop' \in Nat,
         TableTop <= TableTop',
         \A p \in Pages : table'[DirOf(p)] = table[DirOf(p)]
  PROVE  TablesBelowTop'
<1>1. ASSUME NEW p \in Pages, table'[DirOf(p)] # Absent
      PROVE  \E q \in Pages : DirOf(q) = DirOf(p) /\ q < TableTop'
  <2>1. PICK q \in Pages : DirOf(q) = DirOf(p) /\ q < TableTop
    BY <1>1 DEF TablesBelowTop
  <2>2. q \in Nat
    BY PlaceFacts
  <2> QED
    BY <2>1, <2>2
<1> QED
  BY <1>1 DEF TablesBelowTop

\* map_page makes no table beyond the page it maps.
LEMMA NewTableBelow ==
  ASSUME TablesBelowTop, TableTop \in Nat, TableTop' \in Nat,
         TableTop <= TableTop', TypeOK,
         NEW p \in Pages, NEW f, MapPage(DirOf(p), p, f), p < TableTop'
  PROVE  TablesBelowTop'
<1>1. ASSUME NEW q \in Pages, table'[DirOf(q)] # Absent
      PROVE  \E r \in Pages : DirOf(r) = DirOf(q) /\ r < TableTop'
  <2>1. CASE DirOf(q) = DirOf(p)
    BY <2>1
  <2>2. CASE table[DirOf(q)] # Absent
    <3>1. PICK r \in Pages : DirOf(r) = DirOf(q) /\ r < TableTop
      BY <2>2 DEF TablesBelowTop
    <3>2. r \in Nat
      BY PlaceFacts
    <3> QED
      BY <3>1, <3>2
  <2> QED
    BY <1>1, <2>1, <2>2, MapPageMaps
<1> QED
  BY <1>1 DEF TablesBelowTop

\* A page that map_page makes visible is not above the page it maps.
LEMMA SeenBelow ==
  ASSUME TypeOK, TablesBelowTop, TableTop \in Nat,
         NEW p \in Pages, NEW f, MapPage(DirOf(p), p, f), TableTop <= p + 1
  PROVE  \A q \in Pages : PageEntry(q)' # Absent =>
           q <= p \/ PageEntry(q) # Absent
<1> SUFFICES ASSUME NEW q \in Pages, PageEntry(q)' # Absent,
                    PageEntry(q) = Absent
             PROVE  q <= p
  OBVIOUS
<1>1. /\ SlotOf(q) = SlotOf(p)
      /\ DirOf(q) = DirOf(p) \/ table[DirOf(q)] # Absent
  BY MapPageMaps
<1>2. p \in Nat /\ q \in Nat
  BY PlaceFacts
<1>3. CASE DirOf(q) = DirOf(p)
  BY <1>1, <1>2, <1>3, SameSlot
<1>4. CASE table[DirOf(q)] # Absent
  <2>1. PICK r \in Pages : DirOf(r) = DirOf(q) /\ r < TableTop
    BY <1>4 DEF TablesBelowTop
  <2>2. r \in Nat /\ r <= p
    BY <1>2, <2>1, PlaceFacts
  <2> QED
    BY <1>1, <1>2, <2>1, <2>2, SameSlot
<1> QED
  BY <1>1, <1>3, <1>4

LEMMA StepKeepsTop ==
  ASSUME IInv, HeapInv, [Next]_vars
  PROVE  NothingMappedAboveTop' /\ TopBounds' /\ TablesBelowTop'
<1>1. /\ heapSize \in Nat /\ want \in Nat /\ nextPage \in Nat
      /\ TypeOK /\ CeilDiv(heapSize) \in Nat /\ TableTop \in Nat
      /\ NothingMappedAboveTop /\ TopBounds /\ TablesBelowTop
  BY RoundingTypes DEF IInv, TypeOK, HeapInv, TableTop
<1>2. CASE UNCHANGED vars
  <2>1. TableTop' = TableTop
    BY <1>2 DEF vars, TableTop, CeilDiv
  <2>2. TablesBelowTop'
    BY <1>1, <1>2, <2>1, MemoryKept, NoNewTable DEF vars
  <2>3. NothingMappedAboveTop'
    BY <1>1, <1>2, MemoryKept, NothingNewMapped DEF vars
  <2> QED
    BY <1>1, <1>2, <2>2, <2>3 DEF vars, TopBounds, CeilDiv, PageOf
<1>3. CASE MapBootInfo
  <2>1. heapSize' = heapSize /\ pc = "boot" /\ pc' = "idle"
    BY <1>1, <1>3 DEF MapBootInfo, TopBounds
  <2>2. TableTop' = TableTop
    BY <2>1 DEF TableTop
  <2> QED
    BY <1>1, <1>3, <2>1, <2>2, NothingNewMapped, BootMapsNoPage, NoNewTable
    DEF TopBounds
<1>4. CASE (\E size \in Sizes : Kmalloc(size)) \/ CreateTask
  <2>1. PICK n \in Sizes \cup {TcbSize} :
          /\ pc = "idle" /\ pc' = "grow"
          /\ UNCHANGED <<table, entry, heapSize, stack>>
          /\ want' = Align(n) /\ nextPage' = CeilDiv(heapSize)
    BY <1>4 DEF Kmalloc, CreateTask, EnterKmalloc, memory
  <2>2. want' \in Nat
    BY <2>1, RoundingTypes, HeapAssumption
  <2>3. nextPage' <= CeilDiv(heapSize' + want')
    BY <1>1, <2>1, <2>2, CeilGrows
  <2>4. TableTop' = TableTop
    BY <2>1 DEF TableTop
  <2> QED
    BY <1>1, <2>1, <2>3, <2>4, MemoryKept, NothingNewMapped, NoNewTable
    DEF TopBounds
<1>5. CASE GrowHeap
  <2>1. TableTop' = TableTop
    BY <1>5 DEF GrowHeap, TableTop
  <2> QED
    BY <1>1, <1>5, <2>1, MemoryKept, NothingNewMapped, NoNewTable
    DEF GrowHeap, TopBounds
<1>6. CASE MapHeapPage
  <2>1. /\ pc = "map" /\ pc' = "grow" /\ nextPage' = nextPage + 1
        /\ UNCHANGED <<heapSize, want>>
    BY <1>6 DEF MapHeapPage
  <2>2. nextPage < CeilDiv(heapSize + want) /\ CeilDiv(heapSize + want) \in Nat
    BY <1>1, <2>1, CeilGrows DEF IInv, CallBounds
  <2>3. heapSize + want \in Nat /\ heapSize + want <= HeapEnd
    BY <2>1, RoundingTypes, HeapAssumption
    DEF IInv, TypeOK, CallBounds, StillToTake, HeapEnd, PageSize
  <2>4. nextPage \in Pages
    BY <1>1, <2>2, <2>3, CeilInHeap
  <2>5. TableTop = nextPage /\ TableTop' = nextPage + 1
    BY <2>1 DEF TableTop
  <2>6. \A q \in Pages : PageEntry(q)' # Absent =>
          q <= nextPage \/ PageEntry(q) # Absent
    BY <1>1, <1>6, <2>4, <2>5, SeenBelow DEF MapHeapPage
  <2>7. NothingMappedAboveTop'
    BY <1>1, <2>1, <2>6, PlaceFacts DEF NothingMappedAboveTop
  <2>8. TablesBelowTop'
    BY <1>1, <1>6, <2>4, <2>5, NewTableBelow DEF MapHeapPage
  <2>9. TopBounds'
    BY <1>1, <2>1, <2>2 DEF TopBounds
  <2> QED
    BY <2>7, <2>8, <2>9
<1>7. CASE FinishKmalloc
  <2>1. /\ pc = "grow" /\ UNCHANGED <<table, entry>> /\ want >= 1
        /\ heapSize' = heapSize + want + want
    BY <1>7, NewBlockOnTop DEF FinishKmalloc, memory
  <2>2. nextPage <= CeilDiv(heapSize + want)
    BY <1>1, <2>1 DEF TopBounds
  <2>3. /\ CeilDiv(heapSize) <= CeilDiv(heapSize')
        /\ CeilDiv(heapSize + want) <= CeilDiv(heapSize')
        /\ CeilDiv(heapSize) \in Nat /\ CeilDiv(heapSize') \in Nat
        /\ CeilDiv(heapSize + want) \in Nat
    BY <1>1, <2>1, CeilGrows
  <2>4. \A p \in Pages : PageEntry(p)' # Absent => p < CeilDiv(heapSize')
    BY <1>1, <2>1, <2>2, <2>3, PlaceFacts, MemoryKept
    DEF NothingMappedAboveTop
  <2>5. NothingMappedAboveTop'
    BY <2>4 DEF NothingMappedAboveTop
  <2>6. nextPage <= CeilDiv(heapSize') /\ TableTop = nextPage
    BY <1>1, <2>1, <2>2, <2>3 DEF TableTop
  <2>7. CASE return = "caller"
    <3>1. pc' = "idle" /\ TableTop' = CeilDiv(heapSize')
      BY <1>7, <2>7 DEF FinishKmalloc, ReturnToCaller, TableTop
    <3>2. TablesBelowTop'
      BY <1>1, <2>1, <2>3, <2>6, <3>1, MemoryKept, NoNewTable
    <3> QED
      BY <2>5, <3>1, <3>2 DEF TopBounds
  <2>8. CASE return = "tcb"
    <3>1. /\ want' = Align(StackSize) /\ nextPage' = CeilDiv(heapSize')
          /\ pc' = pc
      BY <1>7, <2>8 DEF FinishKmalloc
    <3>2. want' \in Nat
      BY <3>1, RoundingTypes, HeapAssumption DEF PageSize
    <3>3. nextPage' <= CeilDiv(heapSize' + want')
      BY <1>1, <2>1, <3>1, <3>2, CeilGrows
    <3>4. TableTop' = CeilDiv(heapSize')
      BY <2>1, <3>1 DEF TableTop
    <3>5. TablesBelowTop'
      BY <1>1, <2>1, <2>3, <2>6, <3>4, MemoryKept, NoNewTable
    <3> QED
      BY <2>1, <2>5, <3>1, <3>3, <3>5 DEF TopBounds
  <2>9. CASE return = "stack"
    <3>1. /\ pc' = "stack" /\ nextPage' = nextPage
          /\ stack' = [addr |-> heapSize + want, size |-> want]
      BY <1>7, <2>9 DEF FinishKmalloc, NewBlock
    <3>2. CeilDiv(heapSize + want) <= PageOf(heapSize + want) + 1
      BY <1>1, PagesBelowCeil
    <3>3. TableTop' = nextPage
      BY <3>1 DEF TableTop
    <3>4. TablesBelowTop'
      BY <1>1, <2>1, <2>6, <3>3, MemoryKept, NoNewTable
    <3>5. nextPage' <= PageOf(stack'.addr) + 1
      <4>1. PageOf(heapSize + want) \in Nat
        BY <1>1, PagesBelowCeil
      <4> QED
        BY <1>1, <2>2, <2>3, <3>1, <3>2, <4>1
    <3> QED
      BY <2>1, <2>5, <2>6, <3>1, <3>4, <3>5 DEF TopBounds
  <2> QED
    BY <1>7, <2>7, <2>8, <2>9 DEF FinishKmalloc
<1>8. CASE AllocStack
  <2>1. /\ pc = "stack" /\ pc' \in {"undotask", "mapstack"}
        /\ UNCHANGED <<table, entry, heapSize, nextPage, stack>>
    BY <1>8 DEF AllocStack
  <2>2. TableTop' \in Nat /\ TableTop <= TableTop'
    BY <1>1, <2>1 DEF TopBounds, TableTop
  <2> QED
    BY <1>1, <2>1, <2>2, MemoryKept, NothingNewMapped, NoNewTable
    DEF TopBounds
<1>9. CASE MapStack
  <2>1. /\ pc = "mapstack" /\ pc' = "inittask" /\ heapSize' = heapSize
        /\ stack \in Block
    BY <1>9 DEF MapStack, IInv, TypeOK
  <2>2. stack.size >= 1 /\ stack.addr + stack.size <= heapSize
    BY <2>1 DEF HeapInv, TopBounds, BelowTop, Blocks, Pending
  <2>3. /\ PageOf(stack.addr) < CeilDiv(heapSize)
        /\ PageOf(stack.addr) \in Pages
    BY <1>1, <2>1, <2>2, PageBelowCeil DEF Block, IInv, CallBounds, InHeap
  <2>4. /\ TableTop = nextPage /\ TableTop' = CeilDiv(heapSize)
        /\ nextPage <= CeilDiv(heapSize) /\ nextPage <= PageOf(stack.addr) + 1
    BY <1>1, <2>1 DEF TableTop, TopBounds
  <2>5. \A q \in Pages : PageEntry(q)' # Absent =>
          q <= PageOf(stack.addr) \/ PageEntry(q) # Absent
    BY <1>1, <1>9, <2>3, <2>4, SeenBelow DEF MapStack
  <2>6. NothingMappedAboveTop'
    <3>1. ASSUME NEW q \in Pages, PageEntry(q)' # Absent
          PROVE  q < CeilDiv(heapSize)
      <4>1. q \in Nat /\ PageOf(stack.addr) \in Nat
        BY <2>3, PlaceFacts
      <4>2. CASE PageEntry(q) # Absent
        BY <2>1, <4>2, <1>1 DEF NothingMappedAboveTop
      <4>3. CASE q <= PageOf(stack.addr)
        BY <1>1, <2>3, <4>1, <4>3
      <4> QED
        BY <2>5, <3>1, <4>2, <4>3
    <3> QED
      BY <2>1, <3>1 DEF NothingMappedAboveTop
  <2>7. TablesBelowTop'
    BY <1>1, <1>9, <2>3, <2>4, NewTableBelow DEF MapStack
  <2> QED
    BY <2>1, <2>6, <2>7 DEF TopBounds
<1>10. CASE InitTask
  <2>1. /\ pc = "inittask" /\ pc' \in {"idle", "halted", "wild"}
        /\ UNCHANGED <<table, entry, heapSize>>
    BY <1>10 DEF InitTask, ReturnToCaller, memory
  <2>2. TableTop' = TableTop
    BY <2>1 DEF TableTop
  <2> QED
    BY <1>1, <2>1, <2>2, MemoryKept, NothingNewMapped, NoNewTable
    DEF TopBounds
<1>11. ASSUME NEW p \in Pages, UnmapAndFree(p), heapSize' = heapSize,
              pc \in {"idle", "undotask", "undostack"},
              pc' \in {"idle", "undostack"}
       PROVE  NothingMappedAboveTop' /\ TopBounds' /\ TablesBelowTop'
  <2>1. TableTop' = TableTop
    BY <1>11 DEF TableTop
  <2> QED
    BY <1>1, <1>11, <2>1, NothingNewMapped, UnmapUnmaps, NoNewTable
    DEF TopBounds
<1>12. CASE UndoTask
  BY <1>11, <1>12 DEF UndoTask, IInv, CallBounds, InHeap
<1>13. CASE UndoStack
  BY <1>11, <1>13 DEF UndoStack, ReturnToCaller, IInv, CallBounds, InHeap
<1>14. CASE \E b \in live : Kfree(b)
  BY <1>11, <1>14 DEF Kfree, IInv, CallBounds, InHeap
<1> QED
  BY <1>2, <1>3, <1>4, <1>5, <1>6, <1>7, <1>8, <1>9, <1>10, <1>12, <1>13,
     <1>14 DEF Next

LEMMA HeapInvariant == Spec => [](IInv /\ HeapInv)
<1>1. Init => IInv /\ HeapInv
  BY InitIInv, HeapInit
<1>2. (IInv /\ HeapInv) /\ [Next]_vars => (IInv /\ HeapInv)'
  <2> SUFFICES ASSUME IInv, HeapInv, [Next]_vars PROVE IInv' /\ HeapInv'
    OBVIOUS
  <2>1. IInv'
    BY NextIInv
  <2> QED
    BY <2>1, StepKeepsBelowTop, StepKeepsTop DEF HeapInv
<1> QED
  BY <1>1, <1>2, PTL DEF Spec

-----------------------------------------------------------------------------
\* No two blocks that kmalloc has handed out overlap.
THEOREM BlocksNeverOverlap == Spec => []BlocksDisjoint
<1>1. HeapInv => BlocksDisjoint
  BY DEF HeapInv, BelowTop, Blocks, Apart, BlocksDisjoint
<1> QED
  BY <1>1, HeapInvariant, PTL

\* No page is mapped that the heap has not reached yet.
THEOREM TopIsUnmapped == Spec => []NothingMappedAboveTop
<1>1. HeapInv => NothingMappedAboveTop
  BY DEF HeapInv
<1> QED
  BY <1>1, HeapInvariant, PTL

\* Taking a frame frees none.
LEMMA AllocFreesNone ==
  ASSUME NEW f, AllocPageFrame(f)
  PROVE  used \subseteq used'
BY DEF AllocPageFrame

LEMMA MapFreesNone ==
  ASSUME NEW d, NEW p, NEW f, MapPage(d, p, f)
  PROVE  used \subseteq used'
BY AllocFreesNone DEF MapPage

LEMMA UnmapFreesOne ==
  ASSUME NEW p \in Pages, UnmapAndFree(p), MemoryInv(frame)
  PROVE  \A f \in used \ used' :
           /\ \E x \in Places : entry[x] = f /\ entry'[x] = Absent
           /\ \A x \in Places : entry'[x] # f
<1>1. CASE UNCHANGED memory
  BY <1>1 DEF memory
<1>2. ASSUME NEW x \in Places, UnmapAt(x), NEW f \in used \ used'
      PROVE  /\ entry[x] = f /\ entry'[x] = Absent
             /\ \A y \in Places : entry'[y] # f
  <2>1. entry[x] = f /\ f \in Pool
    BY <1>2 DEF UnmapAt, FreePageFrame, MemoryInv, Bitmap
  <2>2. entry'[x] = Absent /\ \A y \in Places : y # x => entry'[y] = entry[y]
    BY <1>2 DEF UnmapAt, MemoryInv
  <2> QED
    BY <2>1, <2>2, PoolFacts DEF MemoryInv
<1> QED
  BY <1>1, <1>2, UnmapWritesOne DEF MemoryInv

\* A frame is freed only while the page it backs is unmapped.
THEOREM FreedFramesUnmapped == Spec => FreedFrameIsUnmapped
<1> DEFINE Taken(f) == /\ \E x \in Places : entry[x] = f /\ entry'[x] = Absent
                       /\ \A x \in Places : entry'[x] # f
<1>1. ASSUME IInv, [Next]_vars
      PROVE  [\A f \in used \ used' : Taken(f)]_vars
  <2>0. MemoryInv(frame) /\ CallBounds
    BY <1>1, IInvParts
  <2>1. CASE used \subseteq used'
    BY <2>1
  <2>2. ASSUME NEW p \in Pages, UnmapAndFree(p)
        PROVE  \A f \in used \ used' : Taken(f)
    BY <2>0, <2>2, UnmapFreesOne
  <2> HIDE DEF Taken
  <2>3. CASE MapBootInfo \/ GrowHeap \/ AllocStack
    BY <2>1, <2>3, AllocFreesNone DEF MapBootInfo, GrowHeap, AllocStack
  <2>4. CASE MapHeapPage \/ MapStack
    BY <2>1, <2>4, MapFreesNone DEF MapHeapPage, MapStack
  <2>5. CASE \/ \E size \in Sizes : Kmalloc(size)
             \/ FinishKmalloc \/ CreateTask \/ InitTask
    BY <2>1, <2>5 DEF Kmalloc, FinishKmalloc, CreateTask, InitTask, memory
  <2>6. CASE UndoTask
    BY <2>0, <2>2, <2>6 DEF UndoTask, CallBounds, InHeap
  <2>7. CASE UndoStack
    BY <2>0, <2>2, <2>7 DEF UndoStack, CallBounds, InHeap
  <2>8. CASE \E b \in live : Kfree(b)
    BY <2>0, <2>2, <2>8 DEF Kfree, CallBounds, InHeap
  <2>9. CASE UNCHANGED vars
    BY <2>9
  <2> QED
    BY <1>1, <2>3, <2>4, <2>5, <2>6, <2>7, <2>8, <2>9 DEF Next
<1> QED
  BY <1>1, MemoryInvariant, PTL DEF Spec, FreedFrameIsUnmapped


-----------------------------------------------------------------------------
(* The owner of a frame.  One use per frame makes the CHOOSE in OwnerOf    *)
(* pick the only candidate.                                                *)

Unreferenced(f) ==
  (\A x \in Places : entry[x] # f) /\ (\A d \in Dirs : table[d] # f) /\ frame # f

Owners(f) ==
  /\ f \notin used => OwnerOf(f) = FP!Free
  /\ \A x \in Places : entry[x] = f => OwnerOf(f) = FP!Backs(x)
  /\ \A d \in Dirs : table[d] = f => OwnerOf(f) = FP!Serves(d)
  /\ frame = f => OwnerOf(f) = FP!Held
  /\ f \in used /\ Unreferenced(f) => OwnerOf(f) = FP!Lost

LEMMA OwnersKnown ==
  ASSUME NEW f \in Pool, MemoryInv(frame)
  PROVE  Owners(f)
<1>1. f \notin used => OwnerOf(f) = FP!Free
  BY DEF OwnerOf, FP!Free
<1>2. ASSUME NEW x \in Places, entry[x] = f PROVE OwnerOf(f) = FP!Backs(x)
  <2>1. f \in used /\ \A y \in Places : entry[y] = f => y = x
    BY <1>2 DEF MemoryInv
  <2>2. (CHOOSE y \in Places : entry[y] = f) = x
    BY <1>2, <2>1
  <2> QED
    BY <1>2, <2>1, <2>2 DEF OwnerOf, FP!Backs
<1>3. ASSUME NEW d \in Dirs, table[d] = f PROVE OwnerOf(f) = FP!Serves(d)
  <2>1. /\ f \in used /\ \A c \in Dirs : table[c] = f => c = d
        /\ \A y \in Places : entry[y] # f
    BY <1>3 DEF MemoryInv
  <2>2. (CHOOSE c \in Dirs : table[c] = f) = d
    BY <1>3, <2>1
  <2> QED
    BY <1>3, <2>1, <2>2 DEF OwnerOf, FP!Serves
<1>4. frame = f => OwnerOf(f) = FP!Held
  BY DEF MemoryInv, OwnerOf, FP!Held
<1>5. f \in used /\ Unreferenced(f) => OwnerOf(f) = FP!Lost
  BY DEF OwnerOf, Unreferenced, FP!Lost
<1> QED
  BY <1>1, <1>2, <1>3, <1>4, <1>5 DEF Owners

\* The same in the next state.
LEMMA OwnersKnownPrimed ==
  ASSUME NEW f \in Pool, MemoryInv(frame)'
  PROVE  Owners(f)'
<1>1. f \notin used' => OwnerOf(f)' = FP!Free
  BY DEF OwnerOf, FP!Free
<1>2. ASSUME NEW x \in Places, entry'[x] = f PROVE OwnerOf(f)' = FP!Backs(x)
  <2>1. f \in used' /\ \A y \in Places : entry'[y] = f => y = x
    BY <1>2 DEF MemoryInv
  <2>2. (CHOOSE y \in Places : entry'[y] = f) = x
    BY <1>2, <2>1
  <2> QED
    BY <1>2, <2>1, <2>2 DEF OwnerOf, FP!Backs
<1>3. ASSUME NEW d \in Dirs, table'[d] = f PROVE OwnerOf(f)' = FP!Serves(d)
  <2>1. /\ f \in used' /\ \A c \in Dirs : table'[c] = f => c = d
        /\ \A y \in Places : entry'[y] # f
    BY <1>3 DEF MemoryInv
  <2>2. (CHOOSE c \in Dirs : table'[c] = f) = d
    BY <1>3, <2>1
  <2> QED
    BY <1>3, <2>1, <2>2 DEF OwnerOf, FP!Serves
<1>4. frame' = f => OwnerOf(f)' = FP!Held
  BY DEF MemoryInv, OwnerOf, FP!Held
<1>5. f \in used' /\ Unreferenced(f)' => OwnerOf(f)' = FP!Lost
  BY DEF OwnerOf, Unreferenced, FP!Lost
<1> QED
  BY <1>1, <1>2, <1>3, <1>4, <1>5 DEF Owners, FP!Free, FP!Backs, FP!Serves,
                                      FP!Held, FP!Lost

-----------------------------------------------------------------------------
(* What one step may do to a frame f, in terms of the kernel's tables.     *)

Moves(f) ==
  /\ f \notin used => \/ f \notin used' \/ frame' = f
                      \/ \E d \in Dirs : table'[d] = f
  /\ \A x \in Places : entry[x] = f =>
       \/ entry'[x] = f \/ f \notin used' \/ (f \in used' /\ Unreferenced(f)')
  /\ \A d \in Dirs : table[d] = f => table'[d] = f
  /\ frame = f => frame' = f \/ \E x \in Places : entry'[x] = f
  /\ f \in used /\ Unreferenced(f) => f \in used' /\ Unreferenced(f)'

LEMMA MovesAreHandovers ==
  ASSUME NEW f \in Pool, MemoryInv(frame), MemoryInv(frame)', Moves(f)
  PROVE  FP!Handover(OwnerOf(f), OwnerOf(f)')
<1>1. Owners(f) /\ Owners(f)'
  BY OwnersKnown, OwnersKnownPrimed
<1>2. CASE f \notin used
  BY <1>1, <1>2 DEF Owners, Moves, FP!Handover
<1>3. ASSUME NEW x \in Places, entry[x] = f
      PROVE  FP!Handover(OwnerOf(f), OwnerOf(f)')
  BY <1>1, <1>3 DEF Owners, Moves, FP!Handover
<1>4. ASSUME NEW d \in Dirs, table[d] = f
      PROVE  FP!Handover(OwnerOf(f), OwnerOf(f)')
  BY <1>1, <1>4 DEF Owners, Moves, FP!Handover
<1>5. CASE frame = f
  BY <1>1, <1>5 DEF Owners, Moves, FP!Handover
<1>6. CASE f \in used /\ Unreferenced(f)
  BY <1>1, <1>6 DEF Owners, Moves, FP!Handover
<1> QED
  BY <1>2, <1>3, <1>4, <1>5, <1>6 DEF Unreferenced

-----------------------------------------------------------------------------
(* Each memory operation moves every frame the way FramePool allows.       *)

LEMMA NothingMoves ==
  ASSUME NEW f \in Pool, UNCHANGED memory, frame' = frame
  PROVE  Moves(f)
BY DEF Moves, Unreferenced, memory

LEMMA AllocMoves ==
  ASSUME NEW f \in Pool, NEW g \in Pool \cup {NoFrame}, MemoryInv(frame),
         AllocPageFrame(g), UNCHANGED <<table, entry>>, frame = NoFrame,
         frame' = g
  PROVE  Moves(f)
<1>1. used' = used \cup ({g} \ {NoFrame}) /\ FirstFit(g)
  BY DEF AllocPageFrame
<1>2. f # NoFrame /\ (g # NoFrame => g \notin used)
  BY <1>1, PoolFacts DEF FirstFit
<1> QED
  BY <1>1, <1>2 DEF Moves, Unreferenced

LEMMA MapMoves ==
  ASSUME NEW f \in Pool, MemoryInv(frame), frame \in Pool \cup {NoFrame},
         NEW p \in Pages, NEW d \in Dirs, MapPage(d, p, frame),
         frame' = NoFrame
  PROVE  Moves(f)
<1>0. PICK x \in Places : MapAt(d, x, frame)
  BY MapWritesOne DEF MemoryInv
<1>1. CASE /\ entry' = [entry EXCEPT ![x] = frame]
           /\ UNCHANGED <<used, totalAlloc, table>>
  BY <1>1, PoolFacts DEF Moves, Unreferenced, MemoryInv
<1>2. ASSUME NEW t \in Pool \cup {NoFrame}, AllocPageFrame(t),
             table[d] = Absent, table' = [table EXCEPT ![d] = t],
             entry' = [y \in Places |-> IF y = x THEN frame
                                       ELSE IF y[1] = t THEN Absent
                                       ELSE entry[y]]
      PROVE  Moves(f)
  <2>1. used' = used \cup ({t} \ {NoFrame}) /\ (t # NoFrame => t \notin used)
    BY <1>2 DEF AllocPageFrame, FirstFit
  <2>2. /\ table'[d] = t /\ \A c \in Dirs : c # d => table'[c] = table[c]
        /\ entry'[x] = frame /\ f # NoFrame /\ f # Absent
        /\ \A y \in Places : entry'[y] \in {frame, Absent, entry[y]}
    BY <1>2, PoolFacts DEF MemoryInv
  <2>3. f \notin used => f \notin used' \/ table'[d] = f
    BY <2>1, <2>2
  <2>4. ASSUME NEW y \in Places, entry[y] = f
        PROVE  entry'[y] = f \/ (f \in used' /\ Unreferenced(f)')
    <3>1. f \in used /\ t # f /\ frame # f
      BY <2>1, <2>2, <2>4 DEF MemoryInv
    <3>2. \A z \in Places : z # y => entry[z] # f
      BY <2>4 DEF MemoryInv
    <3>3. \A c \in Dirs : table'[c] # f
      BY <2>2, <2>4, <3>1 DEF MemoryInv
    <3>4. CASE entry'[y] # f
      BY <2>1, <2>2, <3>1, <3>2, <3>3, <3>4 DEF Unreferenced
    <3> QED
      BY <3>4
  <2>5. \A c \in Dirs : table[c] = f => table'[c] = f
    BY <1>2, <2>2
  <2>6. f \in used /\ Unreferenced(f) => f \in used' /\ Unreferenced(f)'
    BY <2>1, <2>2 DEF Unreferenced
  <2> QED
    BY <2>2, <2>3, <2>4, <2>5, <2>6 DEF Moves
<1>3. x[1] \in Pool \cup {NoFrame}
  BY PlaceFacts
<1> QED
  BY <1>0, <1>1, <1>2, <1>3 DEF MapAt

LEMMA UnmapMoves ==
  ASSUME NEW f \in Pool, NEW p \in Pages, UnmapAndFree(p), MemoryInv(frame),
         frame = NoFrame, frame' = NoFrame
  PROVE  Moves(f)
<1>0. UNCHANGED memory \/ \E x \in Places : UnmapAt(x)
  BY UnmapWritesOne DEF MemoryInv
<1>1. CASE UNCHANGED memory
  BY <1>1, NothingMoves
<1>2. ASSUME NEW x \in Places, UnmapAt(x) PROVE Moves(f)
  <2>1. /\ table' = table /\ entry'[x] = Absent
        /\ \A y \in Places : y # x => entry'[y] = entry[y]
        /\ used' = used \/ (used' = used \ {entry[x]} /\ entry[x] \in Pool)
    BY <1>2, PoolFacts DEF UnmapAt, FreePageFrame, MemoryInv
  <2>2. entry[x] = f => f \notin used'
    BY <1>2, PoolFacts DEF UnmapAt, FreePageFrame
  <2>3. f # NoFrame /\ f # Absent
    BY PoolFacts
  <2>4. \A d \in Dirs : table[d] = f => entry[x] # f
    BY DEF MemoryInv
  <2> QED
    BY <2>1, <2>2, <2>3, <2>4 DEF Moves, Unreferenced
<1> QED
  BY <1>0, <1>1, <1>2

LEMMA BootMoves ==
  ASSUME NEW f \in Pool, MemoryInv(frame), MapBootInfo, table[BootDir] = Absent
  PROVE  Moves(f)
<1>1. PICK t \in Pool \cup {NoFrame} :
        AllocPageFrame(t) /\ table' = [table EXCEPT ![BootDir] = t]
  BY DEF MapBootInfo
<1>2. used' = used \cup ({t} \ {NoFrame}) /\ (t # NoFrame => t \notin used)
  BY <1>1 DEF AllocPageFrame, FirstFit
<1>3. /\ UNCHANGED <<entry, frame>> /\ f # NoFrame /\ f # Absent
      /\ BootDir \in Dirs /\ table'[BootDir] = t
      /\ \A c \in Dirs : c # BootDir => table'[c] = table[c]
  BY <1>1, PoolFacts DEF MapBootInfo, callState, Dirs, MemoryInv
<1> QED
  BY <1>2, <1>3 DEF Moves, Unreferenced

-----------------------------------------------------------------------------
(* main maps the multiboot information before it allocates anything else,  *)
(* so that its page table is never taken away.                             *)

BootFirst == pc = "boot" => table[BootDir] = Absent

LEMMA BootOnlyOnce ==
  ASSUME IInv, BootFirst, [Next]_vars
  PROVE  BootFirst'
<1>1. CASE Next
  <2>1. pc' # "boot"
    BY <1>1
    DEF Next, MapBootInfo, Kmalloc, GrowHeap, MapHeapPage, FinishKmalloc,
        CreateTask, EnterKmalloc, ReturnToCaller, AllocStack, MapStack,
        InitTask, UndoTask, UndoStack, Kfree
  <2> QED
    BY <2>1 DEF BootFirst
<1>2. CASE UNCHANGED vars
  BY <1>2 DEF BootFirst, vars
<1> QED
  BY <1>1, <1>2

LEMMA StepMoves ==
  ASSUME NEW f \in Pool, IInv, BootFirst, [Next]_vars
  PROVE  Moves(f)
<1>1. MemoryInv(frame) /\ LocalsOK /\ CallBounds
  BY IInvParts
<1>2. CASE UNCHANGED vars
  BY <1>2, NothingMoves DEF vars, memory
<1>3. CASE MapBootInfo
  BY <1>1, <1>3, BootMoves DEF BootFirst, MapBootInfo
<1>4. CASE (\E size \in Sizes : Kmalloc(size)) \/ CreateTask
  BY <1>4, NothingMoves DEF Kmalloc, CreateTask
<1>5. CASE GrowHeap
  <2>1. PICK g \in Pool \cup {NoFrame} : AllocPageFrame(g) /\ frame' = g
    BY <1>5 DEF GrowHeap
  <2> QED
    BY <1>1, <1>5, <2>1, AllocMoves DEF GrowHeap, CallBounds
<1>6. CASE MapHeapPage
  <2>1. heapSize + want \in Nat /\ heapSize + want <= HeapEnd
    BY <1>6, <1>1, RoundingTypes, HeapAssumption
    DEF MapHeapPage, CallBounds, LocalsOK, StillToTake, HeapEnd, PageSize
  <2>2. nextPage \in Pages
    BY <1>6, <1>1, <2>1, CeilInHeap DEF MapHeapPage, CallBounds, LocalsOK
  <2> QED
    BY <1>1, <1>6, <2>2, MapMoves DEF MapHeapPage, LocalsOK, Dirs
<1>7. CASE FinishKmalloc
  BY <1>1, <1>7, NothingMoves DEF FinishKmalloc, ReturnToCaller, CallBounds
<1>8. CASE AllocStack
  <2>1. PICK g \in Pool \cup {NoFrame} : AllocPageFrame(g) /\ frame' = g
    BY <1>8 DEF AllocStack
  <2> QED
    BY <1>1, <1>8, <2>1, AllocMoves DEF AllocStack, CallBounds
<1>9. CASE MapStack
  <2>1. PageOf(stack.addr) \in Pages
    BY <1>1, <1>9 DEF MapStack, CallBounds, InHeap
  <2> QED
    BY <1>1, <1>9, <2>1, MapMoves DEF MapStack, LocalsOK, Dirs
<1>10. CASE InitTask
  BY <1>1, <1>10, NothingMoves
  DEF InitTask, ReturnToCaller, callState, CallBounds
<1>11. CASE UndoTask
  <2>1. PageOf(task.addr) \in Pages /\ frame = NoFrame
    BY <1>1, <1>11 DEF UndoTask, CallBounds, InHeap
  <2> QED
    BY <1>1, <1>11, <2>1, UnmapMoves DEF UndoTask, callState
<1>12. CASE UndoStack
  <2>1. PageOf(stack.addr) \in Pages /\ frame = NoFrame
    BY <1>1, <1>12 DEF UndoStack, CallBounds, InHeap
  <2> QED
    BY <1>1, <1>12, <2>1, UnmapMoves DEF UndoStack, ReturnToCaller
<1>13. ASSUME NEW b \in live, Kfree(b) PROVE Moves(f)
  <2>1. PageOf(b.addr) \in Pages /\ frame = NoFrame
    BY <1>1, <1>13 DEF Kfree, CallBounds, InHeap
  <2> QED
    BY <1>1, <1>13, <2>1, UnmapMoves DEF Kfree, callState
<1> QED
  BY <1>2, <1>3, <1>4, <1>5, <1>6, <1>7, <1>8, <1>9, <1>10, <1>11, <1>12,
     <1>13 DEF Next

-----------------------------------------------------------------------------
LEMMA OwnersAreOwners ==
  ASSUME NEW f \in Pool, IInv'
  PROVE  OwnerOf(f)' \in FP!Owner
<1>1. Owners(f)'
  BY OwnersKnownPrimed, IInvPartsPrimed
<1> QED
  BY <1>1 DEF Owners, Unreferenced, FP!Owner

LEMMA PoolStartsFree == Init => FP!Init
BY DEF Init, FP!Init, FP!Free, OwnerOf

LEMMA StepsRefine ==
  ASSUME IInv, IInv', BootFirst, [Next]_vars
  PROVE  FP!Next
<1>1. \A f \in Pool : FP!Handover(OwnerOf(f), OwnerOf(f)')
  BY StepMoves, MovesAreHandovers, IInvParts, IInvPartsPrimed
<1>2. [f \in Pool |-> OwnerOf(f)]' \in [Pool -> FP!Owner]
  BY OwnersAreOwners
<1> QED
  BY <1>1, <1>2 DEF FP!Next

\* The kernel's frame bitmap and page tables implement the frame pool: a
\* frame passes from one use to another only through alloc_page_frame and
\* free_page_frame, a page table keeps its frame, and a lost frame is lost.
THEOREM ImplementsFramePool == Spec => FramePoolSpec
<1>1. Init => FP!Init /\ IInv /\ BootFirst
  BY PoolStartsFree, InitIInv DEF Init, BootFirst, Dirs
<1>2. IInv /\ BootFirst /\ [Next]_vars => IInv' /\ BootFirst'
  BY NextIInv, BootOnlyOnce
<1>3. IInv /\ IInv' /\ BootFirst /\ [Next]_vars
        => [FP!Next]_[f \in Pool |-> OwnerOf(f)]
  BY StepsRefine
<1> QED
  BY <1>1, <1>2, <1>3, PTL DEF Spec, FramePoolSpec, FP!Spec

-----------------------------------------------------------------------------
(* Leaks.  A frame is lost when map_page writes over the entry that refers *)
(* to it, or clears that entry.  change_heap_size never writes over one:   *)
(* the pages it maps are above the top.  A page table that is missing has  *)
(* no entries to clear, unless frame 0 is made one for the second time.    *)

TablesFirst ==
  \A x \in Places : entry[x] # Absent => \E d \in Dirs : table[d] = x[1]
LoopAboveTop == pc \in {"grow", "map"} => nextPage >= CeilDiv(heapSize)

LeakInv == TablesFirst /\ LoopAboveTop /\ LeaksOnlyPerTask

\* The directory slots whose table is in frame 0, and what its entries hold.
ZeroDirs == {d \in Dirs : table[d] = NoFrame}
ZeroEntries == {entry[<<NoFrame, s>>] : s \in Slots}

LEMMA LostAreUnreferenced == LostFrames = {f \in used : Unreferenced(f)}
BY DEF LostFrames, Unreferenced

LEMMA LostAreUnreferencedPrimed ==
  LostFrames' = {f \in used' : Unreferenced(f)'}
BY DEF LostFrames, Unreferenced

\* The three ways a step may lose frames.
LosesNone == LostFrames' \subseteq LostFrames /\ ZeroDirs \subseteq ZeroDirs'
LosesOne(f) == /\ LostFrames' \subseteq LostFrames \cup {f}
               /\ ZeroDirs \subseteq ZeroDirs'
WipesTable ==
  /\ LostFrames' \subseteq LostFrames \cup ZeroEntries
  /\ ZeroDirs # {} /\ ZeroDirs \subseteq ZeroDirs'
  /\ \E d \in ZeroDirs' : d \notin ZeroDirs

\* map_page loses the frame of a page that was mapped before, or none, or
\* the entries of the other tables in frame 0.
LEMMA MapLosesOld ==
  ASSUME MemoryInv(frame), TablesFirst, frame \in Pool \cup {NoFrame},
         NEW p \in Pages, MapPage(DirOf(p), p, frame), frame' = NoFrame
  PROVE  /\ TablesFirst'
         /\ LosesOne(PageEntry(p)) \/ LosesNone \/ WipesTable
<1>0. /\ DirOf(p) \in Dirs
      /\ \A x \in Places : x[1] \in Pool \cup {NoFrame}
  BY PlaceFacts
<1>1. CASE table[DirOf(p)] # Absent
  <2> DEFINE x == <<table[DirOf(p)], SlotOf(p)>>
  <2>1. x \in Places /\ x[1] = table[DirOf(p)] /\ PageEntry(p) = entry[x]
    BY <1>0, <1>1, PlaceFacts DEF MemoryInv, Tables, PageEntry
  <2>2. entry' = [entry EXCEPT ![x] = frame]
        /\ UNCHANGED <<used, totalAlloc, table>>
    BY <1>1 DEF MapPage
  <2> HIDE DEF x
  <2>3. entry'[x] = frame /\ \A y \in Places : y # x => entry'[y] = entry[y]
    BY <2>1, <2>2 DEF MemoryInv
  <2>4. LostFrames' \subseteq LostFrames \cup {entry[x]}
    BY <2>1, <2>2, <2>3, LostAreUnreferenced, LostAreUnreferencedPrimed
    DEF Unreferenced
  <2>5. TablesFirst'
    BY <1>0, <2>1, <2>2, <2>3 DEF TablesFirst
  <2> QED
    BY <2>1, <2>2, <2>4, <2>5 DEF LosesOne, ZeroDirs
<1>2. CASE table[DirOf(p)] = Absent
  <2>1. PICK x \in Places : MapAt(DirOf(p), x, frame)
    BY <1>0, MapWritesOne DEF MemoryInv
  <2>2. PICK t \in Pool \cup {NoFrame} : t = x[1]
    BY <1>0
  <2>3. /\ AllocPageFrame(t)
        /\ table' = [table EXCEPT ![DirOf(p)] = t]
        /\ entry' = [y \in Places |-> IF y = x THEN frame
                                      ELSE IF y[1] = t THEN Absent
                                      ELSE entry[y]]
    BY <1>2, <2>1, <2>2 DEF MapAt
  <2>4. /\ used' = used \cup ({t} \ {NoFrame}) /\ t # Absent
        /\ t # NoFrame => t \notin used
    BY <2>3, PoolFacts DEF AllocPageFrame, FirstFit
  <2>5. /\ table'[DirOf(p)] = t
        /\ \A c \in Dirs : c # DirOf(p) => table'[c] = table[c]
    BY <1>0, <2>3 DEF MemoryInv
  <2>6. /\ entry'[x] = frame
        /\ \A y \in Places : y # x /\ y[1] = t => entry'[y] = Absent
        /\ \A y \in Places : y[1] # t => entry'[y] = entry[y]
    BY <2>2, <2>3
  <2>7. TablesFirst'
    <3>1. ASSUME NEW y \in Places, entry'[y] # Absent
          PROVE  \E d \in Dirs : table'[d] = y[1]
      <4>1. CASE y[1] = t
        BY <1>0, <2>5, <4>1
      <4>2. CASE y[1] # t
        <5>1. PICK c \in Dirs : table[c] = y[1]
          BY <2>6, <3>1, <4>2 DEF TablesFirst
        <5>2. c # DirOf(p)
          BY <1>0, <1>2, <5>1, PoolFacts
        <5> QED
          BY <2>5, <5>1, <5>2
      <4> QED
        BY <4>1, <4>2
    <3> QED
      BY <3>1 DEF TablesFirst
  <2>8. ZeroDirs \subseteq ZeroDirs'
    BY <1>2, <2>5, PoolFacts DEF ZeroDirs
  <2>9. CASE \A c \in Dirs : table[c] # t
    <3>1. \A y \in Places : y # x => entry'[y] = entry[y]
      BY <2>6, <2>9 DEF TablesFirst
    <3>2. entry[x] = Absent
      BY <2>2, <2>9 DEF TablesFirst
    <3>3. ASSUME NEW f \in used', Unreferenced(f)'
          PROVE  f \in used /\ Unreferenced(f)
      <4>1. f # Absent /\ f # frame
        BY <2>4, <2>6, <3>3, PoolFacts DEF MemoryInv, Bitmap, Unreferenced
      <4>2. f # t
        BY <1>0, <2>5, <3>3 DEF Unreferenced
      <4>3. f \in used
        BY <2>4, <3>3, <4>2
      <4>4. \A c \in Dirs : table[c] # f
        BY <1>2, <2>5, <3>3, <4>1 DEF Unreferenced
      <4>5. \A y \in Places : entry[y] # f
        BY <3>1, <3>2, <3>3, <4>1 DEF Unreferenced
      <4> QED
        BY <4>1, <4>3, <4>4, <4>5 DEF Unreferenced
    <3> QED
      BY <2>7, <2>8, <3>3, LostAreUnreferenced, LostAreUnreferencedPrimed
      DEF LosesNone
  <2>10. CASE \E c \in Dirs : table[c] = t
    <3>1. t = NoFrame
      BY <2>4, <2>10 DEF MemoryInv
    <3>2. ZeroDirs # {} /\ DirOf(p) \in ZeroDirs' /\ DirOf(p) \notin ZeroDirs
      BY <1>0, <1>2, <2>5, <2>10, <3>1, PoolFacts DEF ZeroDirs
    <3>3. \A y \in Places : y[1] = NoFrame => entry[y] \in ZeroEntries
      BY DEF Places, ZeroEntries
    <3>4. ASSUME NEW f \in used', Unreferenced(f)', f \notin ZeroEntries
          PROVE  f \in used /\ Unreferenced(f)
      <4>1. f # Absent /\ f # frame /\ f \in used
        BY <2>4, <2>6, <3>1, <3>4, PoolFacts
        DEF MemoryInv, Bitmap, Unreferenced
      <4>2. \A c \in Dirs : table[c] # f
        BY <1>2, <2>5, <3>4, <4>1 DEF Unreferenced
      <4>3. \A y \in Places : entry[y] # f
        BY <2>6, <3>1, <3>3, <3>4 DEF Unreferenced
      <4> QED
        BY <4>1, <4>2, <4>3 DEF Unreferenced
    <3> QED
      BY <2>7, <2>8, <3>2, <3>4, LostAreUnreferenced,
         LostAreUnreferencedPrimed DEF WipesTable
  <2> QED
    BY <2>9, <2>10
<1> QED
  BY <1>1, <1>2

LEMMA AllocLosesNone ==
  ASSUME NEW g \in Pool \cup {NoFrame}, AllocPageFrame(g),
         MemoryInv(frame), TablesFirst,
         UNCHANGED <<table, entry>>, frame = NoFrame, frame' = g
  PROVE  LosesNone /\ TablesFirst'
BY PoolFacts
DEF AllocPageFrame, LostFrames, TablesFirst, MemoryInv, Bitmap, LosesNone,
    ZeroDirs

LEMMA NothingLost ==
  ASSUME UNCHANGED memory, frame' = frame, TablesFirst
  PROVE  LosesNone /\ TablesFirst'
BY DEF memory, LostFrames, TablesFirst, LosesNone, ZeroDirs

LEMMA UnmapLosesNone ==
  ASSUME NEW p \in Pages, UnmapAndFree(p), MemoryInv(frame), TablesFirst,
         frame = NoFrame, frame' = NoFrame
  PROVE  LosesNone /\ TablesFirst'
<1>0. UNCHANGED memory \/ \E x \in Places : UnmapAt(x)
  BY UnmapWritesOne DEF MemoryInv
<1>1. CASE UNCHANGED memory
  BY <1>1, NothingLost
<1>2. ASSUME NEW x \in Places, UnmapAt(x)
      PROVE  LosesNone /\ TablesFirst'
  <2>1. /\ table' = table /\ entry'[x] = Absent
        /\ \A y \in Places : y # x => entry'[y] = entry[y]
        /\ used' \subseteq used /\ (entry[x] \in used => entry[x] \notin used')
    BY <1>2, PoolFacts DEF UnmapAt, FreePageFrame, MemoryInv, Bitmap
  <2> QED
    BY <2>1, PoolFacts, LostAreUnreferenced, LostAreUnreferencedPrimed
    DEF Unreferenced, TablesFirst, LosesNone, ZeroDirs
<1> QED
  BY <1>0, <1>1, <1>2

LEMMA BootLosesNone ==
  ASSUME MemoryInv(frame), TablesFirst, MapBootInfo, BootFirst
  PROVE  LosesNone /\ TablesFirst'
<1>1. PICK t \in Pool \cup {NoFrame} :
        AllocPageFrame(t) /\ table' = [table EXCEPT ![BootDir] = t]
  BY DEF MapBootInfo
<1>2. used' = used \cup ({t} \ {NoFrame}) /\ t # Absent
  BY <1>1, PoolFacts DEF AllocPageFrame
<1>3. /\ UNCHANGED <<entry, frame>> /\ table[BootDir] = Absent
      /\ BootDir \in Dirs /\ table'[BootDir] = t
      /\ \A c \in Dirs : c # BootDir => table'[c] = table[c]
  BY <1>1 DEF MapBootInfo, callState, Dirs, MemoryInv, BootFirst
<1>4. \A f \in used' : Unreferenced(f)' => f \in used /\ Unreferenced(f)
  BY <1>2, <1>3, PoolFacts DEF Unreferenced, MemoryInv, Bitmap
<1>5. \A d \in Dirs : \A f : table[d] = f /\ f # Absent => table'[d] = f
  BY <1>3
<1>6. \A x \in Places : x[1] # Absent
  BY PlaceFacts, PoolFacts
<1>7. TablesFirst'
  BY <1>3, <1>5, <1>6 DEF TablesFirst
<1>8. ZeroDirs \subseteq ZeroDirs'
  BY <1>5, PoolFacts DEF ZeroDirs
<1> QED
  BY <1>4, <1>7, <1>8, LostAreUnreferenced, LostAreUnreferencedPrimed
  DEF LosesNone

\* Only create_task's map of its stack can lose a frame that is mapped, and
\* it counts a task; map_page may wipe the table in frame 0.
LEMMA StepLoses ==
  ASSUME IInv, HeapInv, BootFirst, TablesFirst, LoopAboveTop, [Next]_vars
  PROVE  /\ TablesFirst'
         /\ \/ LosesNone /\ tasks' \in {tasks, tasks + 1}
            \/ (\E f : LosesOne(f)) /\ tasks' = tasks + 1
            \/ WipesTable /\ tasks' \in {tasks, tasks + 1}
<1>1. MemoryInv(frame) /\ LocalsOK /\ CallBounds
  BY IInvParts
<1>2. CASE UNCHANGED vars
  BY <1>2, NothingLost DEF vars, memory
<1>3. CASE MapBootInfo
  BY <1>1, <1>3, BootLosesNone DEF MapBootInfo
<1>4. CASE (\E size \in Sizes : Kmalloc(size)) \/ CreateTask
  BY <1>4, NothingLost DEF Kmalloc, CreateTask
<1>5. CASE GrowHeap
  <2>1. PICK g \in Pool \cup {NoFrame} : AllocPageFrame(g) /\ frame' = g
    BY <1>5 DEF GrowHeap
  <2> QED
    BY <1>1, <1>5, <2>1, AllocLosesNone DEF GrowHeap, CallBounds
<1>6. CASE MapHeapPage
  <2>1. heapSize + want \in Nat /\ heapSize + want <= HeapEnd
    BY <1>6, <1>1, RoundingTypes, HeapAssumption
    DEF MapHeapPage, CallBounds, LocalsOK, StillToTake, HeapEnd, PageSize
  <2>2. nextPage \in Pages
    BY <1>6, <1>1, <2>1, CeilInHeap DEF MapHeapPage, CallBounds, LocalsOK
  <2>3. PageEntry(nextPage) = Absent
    <3>1. CeilDiv(heapSize) \in Nat /\ nextPage \in Nat
      BY <1>1, RoundingTypes DEF LocalsOK
    <3> QED
      BY <1>6, <2>2, <3>1
      DEF MapHeapPage, LoopAboveTop, HeapInv, NothingMappedAboveTop
  <2>4. /\ TablesFirst'
        /\ LosesOne(Absent) \/ LosesNone \/ WipesTable
    BY <1>1, <1>6, <2>2, <2>3, MapLosesOld DEF MapHeapPage, LocalsOK
  <2>5. Absent \notin LostFrames'
    <3>1. IInv'
      BY NextIInv
    <3> QED
      BY <3>1, PoolFacts DEF IInv, TypeOK, LostFrames
  <2>6. LosesOne(Absent) => LosesNone
    BY <2>5 DEF LosesOne, LosesNone
  <2> QED
    BY <1>6, <2>4, <2>6 DEF MapHeapPage
<1>7. CASE FinishKmalloc
  BY <1>1, <1>7, NothingLost DEF FinishKmalloc, ReturnToCaller, CallBounds
<1>8. CASE AllocStack
  <2>1. PICK g \in Pool \cup {NoFrame} : AllocPageFrame(g) /\ frame' = g
    BY <1>8 DEF AllocStack
  <2> QED
    BY <1>1, <1>8, <2>1, AllocLosesNone DEF AllocStack, CallBounds
<1>9. CASE MapStack
  <2>1. PageOf(stack.addr) \in Pages
    BY <1>1, <1>9 DEF MapStack, CallBounds, InHeap
  <2> QED
    BY <1>1, <1>9, <2>1, MapLosesOld DEF MapStack, LocalsOK
<1>10. CASE InitTask
  BY <1>1, <1>10, NothingLost
  DEF InitTask, ReturnToCaller, callState, CallBounds
<1>11. CASE UndoTask
  <2>1. PageOf(task.addr) \in Pages /\ frame = NoFrame
    BY <1>1, <1>11 DEF UndoTask, CallBounds, InHeap
  <2> QED
    BY <1>1, <1>11, <2>1, UnmapLosesNone DEF UndoTask, callState
<1>12. CASE UndoStack
  <2>1. PageOf(stack.addr) \in Pages /\ frame = NoFrame
    BY <1>1, <1>12 DEF UndoStack, CallBounds, InHeap
  <2> QED
    BY <1>1, <1>12, <2>1, UnmapLosesNone DEF UndoStack, ReturnToCaller
<1>13. ASSUME NEW b \in live, Kfree(b)
       PROVE  TablesFirst' /\ LosesNone /\ tasks' = tasks
  <2>1. PageOf(b.addr) \in Pages /\ frame = NoFrame
    BY <1>1, <1>13 DEF Kfree, CallBounds, InHeap
  <2> QED
    BY <1>1, <1>13, <2>1, UnmapLosesNone DEF Kfree, callState
<1> QED
  BY <1>2, <1>3, <1>4, <1>5, <1>6, <1>7, <1>8, <1>9, <1>10, <1>11, <1>12,
     <1>13 DEF Next

LEMMA StepKeepsLoop ==
  ASSUME IInv, LoopAboveTop, [Next]_vars
  PROVE  LoopAboveTop'
<1>1. /\ heapSize \in Nat /\ nextPage \in Nat
      /\ \A n \in Nat : CeilDiv(n) \in Nat
      /\ heapSize' \in Nat
  BY NextIInv, RoundingTypes DEF IInv, TypeOK
<1>2. CASE UNCHANGED vars
  BY <1>2 DEF LoopAboveTop, vars
<1>3. CASE MapBootInfo \/ AllocStack \/ MapStack \/ InitTask \/ UndoTask
           \/ UndoStack \/ \E b \in live : Kfree(b)
  BY <1>3 DEF MapBootInfo, AllocStack, MapStack, InitTask, UndoTask,
              UndoStack, Kfree, ReturnToCaller, LoopAboveTop
<1>4. CASE (\E size \in Sizes : Kmalloc(size)) \/ CreateTask
  BY <1>1, <1>4 DEF Kmalloc, CreateTask, EnterKmalloc, LoopAboveTop
<1>5. CASE GrowHeap \/ MapHeapPage
  BY <1>1, <1>5 DEF GrowHeap, MapHeapPage, LoopAboveTop
<1>6. CASE FinishKmalloc
  BY <1>1, <1>6 DEF FinishKmalloc, ReturnToCaller, LoopAboveTop
<1> QED
  BY <1>2, <1>3, <1>4, <1>5, <1>6 DEF Next

-----------------------------------------------------------------------------
(* Counting the lost frames.                                               *)

LEMMA DirsFinite == IsFiniteSet(Dirs)
<1> DEFINE f == [p \in Pages |-> DirOf(p)]
           S == {DirOf(p) : p \in Pages}
<1>1. IsFiniteSet(Pages)
  BY HeapAssumption, FS_Interval DEF Pages
<1>2. f \in Surjection(Pages, S)
  BY DEF Surjection
<1>3. IsFiniteSet(S)
  BY <1>1, <1>2, FS_Surjection
<1> QED
  BY <1>3, FS_AddElement DEF Dirs

LEMMA ZeroEntriesFew ==
  IsFiniteSet(ZeroEntries) /\ Cardinality(ZeroEntries) <= PagesPerTable
<1> DEFINE f == [s \in Slots |-> entry[<<NoFrame, s>>]]
<1>1. IsFiniteSet(Slots) /\ Cardinality(Slots) = PagesPerTable
  BY HeapAssumption, FS_Interval DEF Slots
<1>2. f \in Surjection(Slots, ZeroEntries)
  BY DEF Surjection, ZeroEntries
<1> QED
  BY <1>1, <1>2, FS_Surjection

LEMMA ZeroDirsFinite ==
  /\ IsFiniteSet(ZeroDirs) /\ Cardinality(ZeroDirs) \in Nat
  /\ IsFiniteSet(ZeroDirs') /\ Cardinality(ZeroDirs') \in Nat
<1>1. ZeroDirs \subseteq Dirs /\ ZeroDirs' \subseteq Dirs
  BY DEF ZeroDirs
<1> QED
  BY <1>1, DirsFinite, FS_Subset, FS_CardinalityType

LEMMA WipedCount ==
  /\ Wiped = IF Cardinality(ZeroDirs) > 1 THEN Cardinality(ZeroDirs) - 1 ELSE 0
  /\ Wiped' = IF Cardinality(ZeroDirs') > 1 THEN Cardinality(ZeroDirs') - 1
                                           ELSE 0
BY DEF Wiped, ZeroDirs

LEMMA WipedGrows ==
  /\ Wiped \in Nat /\ Wiped' \in Nat
  /\ ZeroDirs \subseteq ZeroDirs' => Wiped <= Wiped'
  /\ WipesTable => Wiped + 1 <= Wiped'
<1>1. PICK m \in Nat : m = Cardinality(ZeroDirs)
  BY ZeroDirsFinite
<1>2. PICK n \in Nat : n = Cardinality(ZeroDirs')
  BY ZeroDirsFinite
<1>3. /\ Wiped = IF m > 1 THEN m - 1 ELSE 0
      /\ Wiped' = IF n > 1 THEN n - 1 ELSE 0
  BY <1>1, <1>2, WipedCount
<1>4. ZeroDirs \subseteq ZeroDirs' => m <= n
  BY <1>1, <1>2, ZeroDirsFinite, FS_Subset
<1>5. WipesTable => m >= 1 /\ m + 1 <= n
  <2> SUFFICES ASSUME WipesTable PROVE m >= 1 /\ m + 1 <= n
    OBVIOUS
  <2>1. PICK d \in ZeroDirs' : d \notin ZeroDirs
    BY DEF WipesTable
  <2>2. /\ IsFiniteSet(ZeroDirs \cup {d})
        /\ Cardinality(ZeroDirs \cup {d}) = m + 1
    BY <1>1, <2>1, ZeroDirsFinite, FS_AddElement
  <2>3. ZeroDirs \cup {d} \subseteq ZeroDirs'
    BY <2>1 DEF WipesTable
  <2>4. m + 1 <= n
    BY <1>2, <2>2, <2>3, ZeroDirsFinite, FS_Subset
  <2>5. m # 0
    BY <1>1, ZeroDirsFinite, FS_EmptySet DEF WipesTable
  <2> QED
    BY <2>4, <2>5
<1> QED
  BY <1>3, <1>4, <1>5

LEMMA LostMany ==
  ASSUME NEW S, NEW T, IsFiniteSet(S), IsFiniteSet(T)
  PROVE  /\ IsFiniteSet(S \cup T)
         /\ Cardinality(S \cup T) <= Cardinality(S) + Cardinality(T)
<1>1. /\ IsFiniteSet(S \cup T)
      /\ Cardinality(S \cup T)
           = Cardinality(S) + Cardinality(T) - Cardinality(S \cap T)
  BY FS_Union
<1>2. Cardinality(S \cap T) \in Nat
  BY FS_Intersection, FS_CardinalityType
<1>3. Cardinality(S) \in Nat /\ Cardinality(T) \in Nat
  BY FS_CardinalityType
<1> QED
  BY <1>1, <1>2, <1>3

\* The bound on the leaks grows with the tasks and the tables wiped.
LEMMA BoundGrows ==
  ASSUME NEW c \in Nat, NEW e \in Nat, NEW t \in Nat, NEW u \in Nat,
         NEW v \in Nat, NEW w \in Nat, NEW k \in Nat,
         c <= t + v * k, t <= u, v <= w,
         \/ e <= c \/ (e <= c + 1 /\ t + 1 <= u) \/ (e <= c + k /\ v + 1 <= w)
  PROVE  e <= u + w * k
<1>1. v * k \in Nat /\ w * k \in Nat /\ v * k <= w * k
  OBVIOUS
<1>2. v + 1 <= w => v * k + k <= w * k
  <2> SUFFICES ASSUME v + 1 <= w PROVE v * k + k <= w * k
    OBVIOUS
  <2>1. (v + 1) * k <= w * k
    OBVIOUS
  <2>2. (v + 1) * k = v * k + k
    OBVIOUS
  <2> QED
    BY <2>1, <2>2
<1> QED
  BY <1>1, <1>2

LEMMA LeakInvariant == Spec => [](IInv /\ LeakInv)
<1>1. Init => LeakInv
  <2>1. Init => LostFrames = {} /\ tasks = 0 /\ TablesFirst /\ LoopAboveTop
    BY DEF Init, LostFrames, TablesFirst, LoopAboveTop
  <2>2. 0 <= Wiped * PagesPerTable
    <3>1. Wiped \in Nat /\ PagesPerTable \in Nat
      BY WipedGrows, HeapAssumption
    <3> QED
      BY <3>1
  <2>3. Wiped * PagesPerTable \in Nat
    BY WipedGrows, HeapAssumption
  <2> QED
    BY <2>1, <2>2, <2>3, FS_EmptySet DEF LeakInv, LeaksOnlyPerTask
<1>2. IInv /\ HeapInv /\ BootFirst /\ LeakInv /\ [Next]_vars => LeakInv'
  <2> SUFFICES ASSUME IInv, HeapInv, BootFirst, LeakInv, [Next]_vars
               PROVE  LeakInv'
    OBVIOUS
  <2>1. IInv'
    BY NextIInv
  <2>2. /\ LostFrames \subseteq Pool /\ LostFrames' \subseteq Pool
        /\ tasks \in Nat /\ tasks' \in Nat
    BY <2>1 DEF IInv, TypeOK, LostFrames
  <2>3. /\ IsFiniteSet(LostFrames) /\ Cardinality(LostFrames) \in Nat
        /\ Cardinality(LostFrames') \in Nat
    BY <2>2, PoolSubset
  <2>4. Cardinality(LostFrames) <= tasks + Wiped * PagesPerTable
    BY DEF LeakInv, LeaksOnlyPerTask
  <2>5. PICK c \in Nat, e \in Nat : /\ c = Cardinality(LostFrames)
                                   /\ e = Cardinality(LostFrames')
    BY <2>3
  <2>6. TablesFirst /\ LoopAboveTop
    BY DEF LeakInv
  <2>7. LoopAboveTop'
    BY <2>6, StepKeepsLoop
  <2>8. LosesNone => e <= c
    BY <2>3, <2>5, FS_Subset DEF LosesNone
  <2>9. ASSUME NEW f, LosesOne(f) PROVE e <= c + 1
    <3>1. /\ IsFiniteSet(LostFrames \cup {f})
          /\ Cardinality(LostFrames \cup {f}) \in {c, c + 1}
      BY <2>3, <2>5, FS_AddElement
    <3>2. Cardinality(LostFrames') <= Cardinality(LostFrames \cup {f})
      BY <2>9, <3>1, FS_Subset DEF LosesOne
    <3> QED
      BY <2>5, <3>1, <3>2
  <2>10. ASSUME WipesTable PROVE e <= c + PagesPerTable
    <3>1. IsFiniteSet(ZeroEntries) /\ Cardinality(ZeroEntries) <= PagesPerTable
      BY ZeroEntriesFew
    <3>2. Cardinality(ZeroEntries) \in Nat /\ PagesPerTable \in Nat
      BY <3>1, FS_CardinalityType, HeapAssumption
    <3>3. /\ IsFiniteSet(LostFrames \cup ZeroEntries)
          /\ Cardinality(LostFrames \cup ZeroEntries)
               <= c + Cardinality(ZeroEntries)
      BY <2>3, <2>5, <3>1, LostMany
    <3>4. Cardinality(LostFrames') <= Cardinality(LostFrames \cup ZeroEntries)
      BY <2>10, <3>3, FS_Subset DEF WipesTable
    <3>5. Cardinality(LostFrames \cup ZeroEntries) \in Nat
      BY <3>3, FS_CardinalityType
    <3> QED
      BY <2>5, <3>1, <3>2, <3>3, <3>4, <3>5
  <2>11. /\ TablesFirst'
         /\ \/ LosesNone /\ tasks' \in {tasks, tasks + 1}
            \/ (\E f : LosesOne(f)) /\ tasks' = tasks + 1
            \/ WipesTable /\ tasks' \in {tasks, tasks + 1}
    BY <2>6, StepLoses
  <2>12. ZeroDirs \subseteq ZeroDirs'
    BY <2>11 DEF LosesNone, LosesOne, WipesTable
  <2>13. /\ Wiped \in Nat /\ Wiped' \in Nat /\ Wiped <= Wiped'
         /\ WipesTable => Wiped + 1 <= Wiped'
    BY <2>12, WipedGrows
  <2>14. tasks <= tasks' /\ PagesPerTable \in Nat
    BY <2>2, <2>11, HeapAssumption
  <2>15. \/ e <= c \/ (e <= c + 1 /\ tasks + 1 <= tasks')
         \/ (e <= c + PagesPerTable /\ Wiped + 1 <= Wiped')
    <3>1. CASE LosesNone
      BY <2>8, <3>1
    <3>2. CASE (\E f : LosesOne(f)) /\ tasks' = tasks + 1
      BY <2>2, <2>9, <3>2
    <3>3. CASE WipesTable
      BY <2>10, <2>13, <3>3
    <3> QED
      BY <2>11, <3>1, <3>2, <3>3
  <2>16. e <= tasks' + Wiped' * PagesPerTable
    BY <2>2, <2>4, <2>5, <2>13, <2>14, <2>15, BoundGrows
  <2> QED
    BY <2>5, <2>7, <2>11, <2>16 DEF LeakInv, LeaksOnlyPerTask
<1>3. Init => BootFirst
  BY DEF Init, BootFirst, Dirs
<1>4. IInv /\ BootFirst /\ [Next]_vars => BootFirst'
  BY BootOnlyOnce
<1> QED
  BY <1>1, <1>2, <1>3, <1>4, HeapInvariant, PTL DEF Spec

\* A frame that is marked used without a reference to it belongs to a
\* create_task that mapped its stack, or was in a page table that map_page
\* made in frame 0 a second time; nothing else in the kernel loses frames.
THEOREM OneLeakPerTask == Spec => []LeaksOnlyPerTask
<1>1. LeakInv => LeaksOnlyPerTask
  BY DEF LeakInv
<1> QED
  BY <1>1, LeakInvariant, PTL
=============================================================================
