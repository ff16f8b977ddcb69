---------------------------- MODULE KernelMemory ----------------------------
(***************************************************************************)
(* Physical frames, the kernel heap and the tasks built on them:           *)
(*   src/1.2/managers/memory_manager.cpp   the frame bitmap, the page      *)
(*                                         tables                          *)
(*   src/1.2/managers/heap_manager.cpp     kmalloc, kfree                  *)
(*   src/1.2/managers/process_manager.cpp  create_task                     *)
(*                                                                         *)
(* The kernel has one thread of control; pc says how far the call that is  *)
(* running has come, with one step per frame allocation and per map_page.  *)
(* Frames are named by their number (address / 0x1000).  Frame number 0    *)
(* is also the allocator's answer when it has nothing left, and most       *)
(* callers do not tell the two apart.                                      *)
(***************************************************************************)
EXTENDS Naturals, FiniteSets

CONSTANTS
  PageFrameMin,   \* page_frame_min: first frame above the kernel image
  PageFrameMax,   \* page_frame_max: frames of memory the boot loader reports
  PagesPerTable,  \* pages covered by one page directory slot (1024)
  Sizes,          \* the request sizes the callers of kmalloc use
  TcbSize,        \* sizeof(task_control_block_t)
  StackSize,      \* KERNEL_STACK_SIZE
  Absent,         \* an entry of a page table without PAGE_FLAG_PRESENT
  BootDir,        \* the page directory slot of the multiboot information
  HeapPages,      \* bound: pages of heap address space
  MaxCalls        \* bound: calls of kmalloc and create_task

PageSize == 4096

ASSUME FramesAssumption ==
  /\ PageFrameMin \in Nat \ {0}
  /\ PageFrameMax \in Nat /\ PageFrameMax >= 8
ASSUME HeapAssumption ==
  /\ PagesPerTable \in Nat \ {0}
  /\ Sizes \subseteq Nat \ {0}
  /\ TcbSize \in Nat \ {0}
  /\ StackSize = PageSize
  /\ HeapPages \in Nat \ {0}
  /\ MaxCalls \in Nat
  /\ Absent \notin Nat
  /\ BootDir \notin Nat

VARIABLES
  used,        \* physical_memory_bitmap: the frames whose bit is set
  totalAlloc,  \* totalAlloc: how many frames are handed out
  table,       \* page directory: the frame of each page table, or Absent
  entry,       \* the frame each page table entry maps its page to, or Absent
  heapSize,    \* heap_size
  pc,          \* where the running kernel call is
  want,        \* size argument of the running kmalloc, aligned
  nextPage,    \* page the running change_heap_size maps next
  frame,       \* frame that was allocated but is not mapped yet
  return,      \* what the running kmalloc returns to
  task, stack, \* new_task and new_stack of the running create_task
  live,        \* blocks their callers hold: neither freed nor given up
  calls,       \* number of calls so far (bounded by MaxCalls)
  tasks        \* number of create_task calls that mapped their stack

vars == <<used, totalAlloc, table, entry, heapSize, pc, want, nextPage, frame,
          return, task, stack, live, calls, tasks>>
memory == <<used, totalAlloc, table, entry>>
callState == <<want, nextPage, frame, return, task, stack>>

-----------------------------------------------------------------------------
(* Frames.  The allocator looks at whole bytes of the bitmap only.         *)

StartByte ==
  PageFrameMin \div 8 + (IF PageFrameMin % 8 # 0 THEN 1 ELSE 0)
EndByte ==
  PageFrameMax \div 8 - (IF PageFrameMax % 8 # 0 THEN 1 ELSE 0)
Pool == 8 * StartByte .. 8 * EndByte - 1

NoFrame == 0           \* what alloc_page_frame returns when Pool is used up

Pages      == 0 .. HeapPages - 1
DirOf(p)   == p \div PagesPerTable
Dirs       == {DirOf(p) : p \in Pages} \cup {BootDir}

\* Round a byte count up to pages; round a request up to 4 bytes.
CeilDiv(n) == (n + PageSize - 1) \div PageSize
Align(n)   == ((n + 3) \div 4) * 4
PageOf(a)  == a \div PageSize

\* The pages that a block touches.
PagesOf(b) == PageOf(b.addr) .. PageOf(b.addr + b.size - 1)

\* A page table entry is a slot of the frame that holds the table.  Two
\* directory slots whose tables are in one frame share its entries: that
\* frame is NoFrame, since map_page takes the allocator's failure for it.
Tables == Pool \cup {NoFrame}
Slots  == 0 .. PagesPerTable - 1
Places == Tables \X Slots
SlotOf(p) == p % PagesPerTable

\* What the processor finds for page p: its directory slot, then the entry.
PageEntry(p) ==
  IF table[DirOf(p)] = Absent THEN Absent
                              ELSE entry[<<table[DirOf(p)], SlotOf(p)>>]

-----------------------------------------------------------------------------
(* The frame allocator: alloc_page_frame and free_page_frame.              *)

\* First fit: the free frame with the lowest number, or NoFrame.
FirstFit(f) ==
  LET free == Pool \ used
  IN  \/ f \in free /\ \A g \in free : f <= g
      \/ free = {} /\ f = NoFrame

\* Mutants of AllocPageFrame: the bit is not set; a failure is counted.
AllocUnmarked(f) ==
  /\ FirstFit(f)
  /\ UNCHANGED used
  /\ totalAlloc' = IF f = NoFrame THEN totalAlloc ELSE totalAlloc + 1
AllocCountsFailure(f) ==
  /\ FirstFit(f)
  /\ used' = used \cup ({f} \ {NoFrame})
  /\ totalAlloc' = totalAlloc + 1

AllocPageFrame(f) ==
  /\ FirstFit(f)
  /\ used' = used \cup ({f} \ {NoFrame})
  /\ totalAlloc' = IF f = NoFrame THEN totalAlloc ELSE totalAlloc + 1

\* The counter is decremented whether or not the bit was set.
FreePageFrame(f) ==
  /\ used' = used \ {f}
  /\ totalAlloc' = totalAlloc - 1

-----------------------------------------------------------------------------
(* Page tables: map_page and unmap_page.                                   *)

\* Mutant of MapPage: a page table is allocated without looking for one.
MapPageNewTable(d, p, f) ==
  \E t \in Tables :
    /\ AllocPageFrame(t)
    /\ table' = [table EXCEPT ![d] = t]
    /\ entry' = [x \in Places |-> IF x = <<t, SlotOf(p)>> THEN f
                                  ELSE IF x[1] = t THEN Absent ELSE entry[x]]

\* Map page p (of directory slot d) to frame f.  A missing page table is
\* allocated, unchecked, and cleared first: in frame 0 this clears the
\* entries of every other table that was made without a frame.
MapPage(d, p, f) ==
  \/ /\ table[d] # Absent
     /\ entry' = [entry EXCEPT ![<<table[d], SlotOf(p)>>] = f]
     /\ UNCHANGED <<used, totalAlloc, table>>
  \/ /\ table[d] = Absent
     /\ \E t \in Tables :
          /\ AllocPageFrame(t)
          /\ table' = [table EXCEPT ![d] = t]
          /\ entry' = [x \in Places |-> IF x = <<t, SlotOf(p)>> THEN f
                                        ELSE IF x[1] = t THEN Absent
                                        ELSE entry[x]]

\* unmap_page: without a page table there is no entry to clear.
ClearEntry(p) ==
  entry' = IF table[DirOf(p)] = Absent THEN entry
           ELSE [entry EXCEPT ![<<table[DirOf(p)], SlotOf(p)>>] = Absent]

\* Mutants of UnmapAndFree: the page stays mapped; the frame is not freed.
FreeStillMapped(p) ==
  /\ UNCHANGED <<table, entry>>
  /\ IF PageEntry(p) \in {Absent, NoFrame} THEN UNCHANGED <<used, totalAlloc>>
                                           ELSE FreePageFrame(PageEntry(p))
UnmapOnly(p) ==
  /\ UNCHANGED <<table, used, totalAlloc>>
  /\ ClearEntry(p)

\* kfree: unmap the page p and free the frame behind it, if there is one.
UnmapAndFree(p) ==
  /\ UNCHANGED table
  /\ ClearEntry(p)
  /\ IF PageEntry(p) \in {Absent, NoFrame} THEN UNCHANGED <<used, totalAlloc>>
                                           ELSE FreePageFrame(PageEntry(p))

-----------------------------------------------------------------------------
Block == [addr : Nat, size : Nat]
NoBlock == [addr |-> 0, size |-> 0]

Init ==
  /\ used = {} /\ totalAlloc = 0
  /\ table = [d \in Dirs |-> Absent]
  /\ entry = [x \in Places |-> Absent]
  /\ heapSize = 0
  /\ pc = "boot"
  /\ want = 0 /\ nextPage = 0 /\ frame = NoFrame /\ return = "caller"
  /\ task = NoBlock /\ stack = NoBlock
  /\ live = {}
  /\ calls = 0 /\ tasks = 0

\* main: map the multiboot information (its own directory slot, its frame
\* is outside the pool), then init_kmalloc.
MapBootInfo ==
  /\ pc = "boot"
  /\ \E t \in Pool \cup {NoFrame} :
       /\ AllocPageFrame(t)
       /\ table' = [table EXCEPT ![BootDir] = t]
  /\ heapSize' = 0
  /\ pc' = "idle"
  /\ UNCHANGED <<entry, callState, live, calls, tasks>>

\* The call is over: its locals are gone.
ReturnToCaller ==
  /\ pc' = "idle"
  /\ want' = 0 /\ nextPage' = 0 /\ frame' = NoFrame /\ return' = "caller"
  /\ task' = NoBlock /\ stack' = NoBlock

(* kmalloc.  The limit is 0 for ever, so every call goes through           *)
(* change_heap_size, which already adds the request to heap_size.          *)
EnterKmalloc(size, to) ==
  /\ want' = Align(size)
  /\ nextPage' = CeilDiv(heapSize)
  /\ return' = to
  /\ pc' = "grow"

Kmalloc(size) ==
  /\ pc = "idle" /\ calls < MaxCalls
  /\ heapSize + 2 * Align(size) <= HeapPages * PageSize
  /\ EnterKmalloc(size, "caller")
  /\ calls' = calls + 1
  /\ UNCHANGED <<memory, heapSize, frame, task, stack, live, tasks>>

\* One round of change_heap_size's loop, its two calls one after the other.
GrowHeap ==
  /\ pc = "grow" /\ nextPage < CeilDiv(heapSize + want)
  /\ \E f \in Pool \cup {NoFrame} : AllocPageFrame(f) /\ frame' = f
  /\ pc' = "map"
  /\ UNCHANGED <<table, entry, heapSize, want, nextPage, return, task, stack,
                 live, calls, tasks>>

\* Mutant of MapHeapPage: the loop does not advance.
MapSamePage ==
  /\ pc = "map"
  /\ MapPage(DirOf(nextPage), nextPage, frame)
  /\ frame' = NoFrame
  /\ pc' = "grow"
  /\ UNCHANGED <<nextPage, heapSize, want, return, task, stack, live, calls,
                 tasks>>

MapHeapPage ==
  /\ pc = "map"
  /\ MapPage(DirOf(nextPage), nextPage, frame)
  /\ nextPage' = nextPage + 1
  /\ frame' = NoFrame
  /\ pc' = "grow"
  /\ UNCHANGED <<heapSize, want, return, task, stack, live, calls, tasks>>

\* The block starts at the heap size that change_heap_size has already
\* raised, and the size is then added once more.
NewBlock == [addr |-> heapSize + want, size |-> want]

\* heap_size when kmalloc returns.  Mutants: the request is added once only;
\* change_heap_size sets the size instead of adding to it.
RaisedOnce == heapSize + want
RaisedFromZero == want + want
Raised == heapSize + want + want

FinishKmalloc ==
  /\ pc = "grow" /\ nextPage >= CeilDiv(heapSize + want)
  /\ heapSize' = Raised
  /\ \/ /\ return = "caller"
        /\ live' = live \cup {NewBlock}
        /\ ReturnToCaller
     \/ /\ return = "tcb"
        /\ task' = NewBlock
        /\ want' = Align(StackSize)
        /\ nextPage' = CeilDiv(Raised)
        /\ return' = "stack"
        /\ UNCHANGED <<pc, frame, stack, live>>
     \/ /\ return = "stack"
        /\ stack' = NewBlock
        /\ pc' = "stack"
        /\ UNCHANGED <<want, nextPage, frame, return, task, live>>
  /\ UNCHANGED <<memory, calls, tasks>>

-----------------------------------------------------------------------------
(* create_task: a kmalloc for the control block, one for the stack, then   *)
(* the stack's first page is mapped again, whatever it was mapped to.      *)

CreateTask ==
  /\ pc = "idle" /\ calls < MaxCalls
  /\ heapSize + 2 * Align(TcbSize) + 2 * Align(StackSize)
       <= HeapPages * PageSize
  /\ EnterKmalloc(TcbSize, "tcb")
  /\ calls' = calls + 1
  /\ UNCHANGED <<memory, heapSize, frame, task, stack, live, tasks>>

AllocStack ==
  /\ pc = "stack"
  /\ \E f \in Pool \cup {NoFrame} :
       /\ AllocPageFrame(f)
       /\ frame' = f
       /\ pc' = IF f = NoFrame THEN "undotask" ELSE "mapstack"
  /\ UNCHANGED <<table, entry, heapSize, want, nextPage, return, task, stack,
                 live, calls, tasks>>

MapStack ==
  /\ pc = "mapstack"
  /\ LET p == PageOf(stack.addr) IN MapPage(DirOf(p), p, frame)
  /\ frame' = NoFrame
  /\ tasks' = tasks + 1
  /\ pc' = "inittask"
  /\ UNCHANGED <<heapSize, want, nextPage, return, task, stack, live, calls>>

TaskUnmapped == \E p \in PagesOf(task) : PageEntry(p) = Absent
TaskOverTables == /\ \E p \in PagesOf(task) : PageEntry(p) = NoFrame
                  /\ \E d \in Dirs : table[d] = NoFrame

\* The control block is written.  A page that is not mapped faults, and
\* handle_isr halts the machine on every exception, unless the processor
\* still holds the old translation: invalidate() flushes the page of its own
\* argument, not the one that was unmapped.  A write through frame 0 while it
\* holds a page table, or through an old translation into a frame that has
\* become one, overwrites page tables ("wild"): the model ends there.
InitTask ==
  /\ pc = "inittask"
  /\ \/ /\ ~TaskOverTables
        /\ ReturnToCaller
        /\ live' = live \cup {task, stack}
     \/ /\ TaskUnmapped /\ pc' = "halted"
        /\ UNCHANGED <<callState, live>>
     \/ /\ TaskUnmapped \/ TaskOverTables
        /\ pc' = "wild"
        /\ UNCHANGED <<callState, live>>
  /\ UNCHANGED <<memory, heapSize, calls, tasks>>

\* No frame for the stack: kfree(new_task), then kfree(new_stack).
UndoTask ==
  /\ pc = "undotask"
  /\ UnmapAndFree(PageOf(task.addr))
  /\ pc' = "undostack"
  /\ UNCHANGED <<heapSize, callState, live, calls, tasks>>

UndoStack ==
  /\ pc = "undostack"
  /\ UnmapAndFree(PageOf(stack.addr))
  /\ ReturnToCaller
  /\ UNCHANGED <<heapSize, live, calls, tasks>>

\* kfree on a block its caller holds: the whole page goes.
Kfree(b) ==
  /\ pc = "idle"
  /\ b \in live
  /\ live' = live \ {b}
  /\ UnmapAndFree(PageOf(b.addr))
  /\ UNCHANGED <<heapSize, pc, callState, calls, tasks>>

-----------------------------------------------------------------------------
Next ==
  \/ MapBootInfo
  \/ \E size \in Sizes : Kmalloc(size)
  \/ GrowHeap \/ MapHeapPage \/ FinishKmalloc
  \/ CreateTask
  \/ AllocStack \/ MapStack \/ InitTask \/ UndoTask \/ UndoStack
  \/ \E b \in live : Kfree(b)

\* The steps of a call that has started; it runs until it returns.
RunCall ==
  \/ MapBootInfo
  \/ GrowHeap \/ MapHeapPage \/ FinishKmalloc
  \/ AllocStack \/ MapStack \/ InitTask \/ UndoTask \/ UndoStack

Spec == Init /\ [][Next]_vars
FairSpec == Spec /\ WF_vars(RunCall)

-----------------------------------------------------------------------------
(* Properties.                                                             *)

PC == {"boot", "idle", "grow", "map", "stack", "mapstack", "inittask",
       "undotask", "undostack", "halted", "wild"}

\* Types.
TypeOK ==
  /\ used \subseteq Pool
  /\ totalAlloc \in Nat
  /\ table \in [Dirs -> Pool \cup {NoFrame, Absent}]
  /\ entry \in [Places -> Pool \cup {NoFrame, Absent}]
  /\ heapSize \in Nat
  /\ pc \in PC
  /\ want \in Nat /\ nextPage \in Nat
  /\ frame \in Pool \cup {NoFrame}
  /\ return \in {"caller", "tcb", "stack"}
  /\ task \in Block /\ stack \in Block
  /\ live \subseteq Block
  /\ calls \in Nat /\ tasks \in Nat

\* The frame count kept beside the bitmap is the number of bits set, after
\* any sequence of kmalloc, kfree and failing create_task calls: it never
\* wraps below 0 (free_page_frame decrements it unconditionally).
CountMatchesBitmap == totalAlloc = Cardinality(used)

\* A frame serves one purpose at a time: no two page table entries, page
\* tables or pending mappings share a frame of the pool, and whatever refers
\* to a frame has its bit set, so that alloc_page_frame cannot give it away.
\* (Pages share an entry where their tables, made when the pool was used up,
\* are both in frame 0, which is no frame of the pool.)
OneUsePerFrame ==
  /\ \A x \in Places : entry[x] \in Pool => entry[x] \in used
  /\ \A d \in Dirs : table[d] \in Pool => table[d] \in used
  /\ frame \in Pool => frame \in used
  /\ \A x, y \in Places : x # y /\ entry[x] \in Pool => entry[x] # entry[y]
  /\ \A c, d \in Dirs : c # d /\ table[c] \in Pool => table[c] # table[d]
  /\ \A x \in Places, d \in Dirs : entry[x] \in Pool => entry[x] # table[d]
  /\ frame \in Pool => /\ \A x \in Places : entry[x] # frame
                       /\ \A d \in Dirs : table[d] # frame

\* Blocks that callers hold at the same time never overlap, although kfree
\* and the double addition in kmalloc move heap_size in unusual ways.
BlocksDisjoint ==
  \A a, b \in live : a # b => \/ a.addr + a.size <= b.addr
                              \/ b.addr + b.size <= a.addr

\* Nothing is mapped above the top of the heap, not even through a page
\* table shared with lower pages: the next block always starts on pages that
\* this block's own kmalloc could still map.
NothingMappedAboveTop ==
  \A p \in Pages : PageEntry(p) # Absent =>
                     \/ p < CeilDiv(heapSize)
                     \/ pc \in {"grow", "map"} /\ p < nextPage

\* Frames that are marked used while nothing refers to them.
LostFrames ==
  {f \in used : /\ \A x \in Places : entry[x] # f
                /\ \A d \in Dirs : table[d] # f
                /\ frame # f}

\* How often a page table was made in frame 0 over another one.
Wiped ==
  LET n == Cardinality({d \in Dirs : table[d] = NoFrame})
  IN  IF n > 1 THEN n - 1 ELSE 0

\* Only two things lose frames: create_task mapping its stack over a page
\* that kmalloc has mapped already, one frame per task, and map_page clearing
\* a page table it has put over another one in frame 0, a table's entries at
\* most.  As long as the pool lasts kmalloc and kfree lose none.
LeaksOnlyPerTask == Cardinality(LostFrames) <= tasks + Wiped * PagesPerTable

\* A step clears the bit of a frame only if it takes the frame from the
\* page table entry that refers to it: no page is left pointing to a free
\* frame.
FreedFrameIsUnmapped ==
  [][\A f \in used \ used' :
       /\ \E x \in Places : entry[x] = f /\ entry'[x] = Absent
       /\ \A x \in Places : entry'[x] # f]_vars

\* A kernel call that has started comes back, or the machine has halted on
\* a page fault or is writing over its page tables.
Ended == {"idle", "halted", "wild"}
CallsReturn == (pc \notin Ended) ~> (pc \in Ended)

\* test_memory_management takes the memory kmalloc has just returned and
\* checks that its page is present ("Paging confirmed").
KmallocReturnsMapped ==
  [][\A b \in live' \ live : PageEntry(PageOf(b.addr))' # Absent]_vars

-----------------------------------------------------------------------------
(* Refinement: each frame of the pool has the owner FramePool speaks of.   *)

OwnerOf(f) ==
  IF f \notin used THEN <<"free">>
  ELSE IF \E x \in Places : entry[x] = f
       THEN <<"page", CHOOSE x \in Places : entry[x] = f>>
  ELSE IF \E d \in Dirs : table[d] = f
       THEN <<"table", CHOOSE d \in Dirs : table[d] = f>>
  ELSE IF frame = f THEN <<"held">>
  ELSE <<"lost">>

FP == INSTANCE FramePool WITH
        Frame <- Pool, PageId <- Places, TableId <- Dirs,
        owner <- [f \in Pool |-> OwnerOf(f)]

\* The kernel's memory implements the frame pool: frames change hands only
\* through the free pool, and page tables keep their frames.
FramePoolSpec == FP!Spec
=============================================================================
