# MazOS: a TLA+ model

MazOS is a 32-bit hobby operating system. `src/1.1` is the older kernel in C,
`src/1.2` the rewrite in C++ that is developed further. This directory models
the current kernel, and the parts of the older one that have no successor.

There is one thread of control, `main` in `kernel.cpp`, plus interrupt
handlers. `idt_flush.s` enters every handler with interrupts off and the
end-of-interrupt is sent when the handler returns (`idt.cpp:147-161`), so a
handler is never interrupted; `main` is, between any two instructions. After
`main` has booted the machine **everything happens inside the keyboard
interrupt**: a key is handed to `CLI::append_to_command`, Enter runs a command to
its end, file commands talk to the disk, and the snake game is played there.

## Inventory

| Component | State | Operations | Talks to | What makes it correct | Model |
|---|---|---|---|---|---|
| Frame allocator (`memory_manager.cpp`) | bitmap, `totalAlloc` | `alloc_page_frame`, `free_page_frame` | called by map_page, heap, tasks | count = bits set; no frame of the pool has two uses; no frame in use is free | `KernelMemory` |
| Paging (`memory_manager.cpp`) | page directory, tables | `map_page`, `unmap_page` | allocates tables itself, unchecked | as above | `KernelMemory` |
| Heap (`heap_manager.cpp`) | `heap_size`, `threshold` | `kmalloc`, `change_heap_size`, `kfree` | frames, paging | blocks are disjoint and mapped; freed frames are unmapped | `KernelMemory` |
| Tasks (`process_manager.cpp`) | control blocks | `create_task`, undo on failure | heap, frames, paging | a failed creation gives everything back | `KernelMemory` |
| FAT32 (`fat32.cpp`) | disk, FAT, current directory | create, delete, overwrite, size, cd, mount | ATA driver (`disk.cpp`) | no cluster has two entries, also after a power failure; what was written shows; the path search ends | `Fat32` |
| ATA driver (`disk.cpp`) | none; the drive's registers | read, write, identify by polled I/O | ports 0x1F0-0x1F7, from main and then from the keyboard handler | an operation does what it returns; the drive is ready for the next one | `AtaDisk`; a step of `Fat32` |
| Boot (`kernel.cpp`), sound (`sound.cpp`) | how far main is | initialise, mount, set the mode, prompt | all drivers | the prompt is reached | `AtaDisk`, `Interrupts` |
| Interrupts (`idt.cpp`, `idt_flush.s`), timer (`timer.cpp`) | `irq_routines` | install, clear, dispatch, end of interrupt | all drivers, both interrupt controllers | no device is cut off | `Interrupts` |
| Keyboard (`keyboard.cpp`) | mode, shift, caps | interrupt, `handleKey` | CLI, calculator, paint, snake | flags follow the keys; keys reach the program that runs | `Console` |
| Command line (`cli.cpp`) | line, insertion point, history | insert, backspace, enter, arrows | FAT32, programs | the line is terminated; history is the log of executed lines | `Console` |
| Mouse (`mouse.cpp`) | packet bytes, pointer, saved cell | interrupt | video memory | packets in step; the text under the pointer survives | `Mouse` in `Screen` |
| Text screen (`display.cpp`) | video memory, VGA cursor registers | print, clear, scroll | all of the above, from main and from interrupts | cursor stays on the screen; index and data port belong together | `Display` in `Screen` |
| Scheduler (`1.1/libs/process.c`) | four tasks, the current one and its index | round robin, FCFS, lottery | none | fair; every run ends | `Scheduler` |
| System calls (`1.1/libs/syscall.c`) | file table, process table, pid, heap end | open, close, fork, kill, sbrk, exit | UEFI table | indices stay inside the tables; one slot per process | `Syscalls` |
| Snake (`1.1/programs/snake.c`) | body, length, apple, direction, game_over | move, turn, quit, start | keyboard handler, in 1.1 from main | one snake in one piece; a second game does not revive the first | `Snake` |
| Calculator (`calculator.cpp`) | the line | a key, Enter, q | keyboard handler, display | the answer is that of the line typed | `Calculator` |
| Picture viewer (`graphics.cpp`, `fat32.cpp`) | palette, screen, parser | `display`, `draw_pixel`, reboot | FAT32, VGA | pixels keep their colours; whole entries are drawn | `Picture` |
| Library (`printf.cpp`, `util.cpp`) | none | `printf`, `convert_to_int` | everything | a call prints its arguments | `Printf`; `Picture` |
| Paint, GDT, UEFI headers | constants, ports | | | | not modelled |

What is hard here: frames that three components share without a common owner;
an error value (frame 0) that most callers take for a frame; calls that fail
half-way and undo; a disk that loses power or times out between two writes of
one command; directories and FAT entries that are read from different places;
keys that arrive while a handler runs; an editor that moves in one buffer by
typing, arrows and Backspace; device registers that main and a handler write in
several steps; waits without a bound, and waits with one. The hazards are listed one by one in
`PROJECT.json`, at the line where each bites.

## Modules

### FramePool and KernelMemory

`FramePool` says in one variable, `owner`, what the allocator promises: a frame is
free, held, lost, behind one page or one page table, and only certain handovers
exist. `KernelMemory` is the code, one step for every frame allocation and every
`map_page`, with `pc` for the position inside the call that runs:

| Action | Code |
|---|---|
| `MapBootInfo` | `main` maps the multiboot information, `init_kmalloc` |
| `Kmalloc`, `GrowHeap`, `MapHeapPage`, `FinishKmalloc` | `kmalloc`, `change_heap_size` (allocate, map, once per page) |
| `CreateTask`, `AllocStack`, `MapStack`, `InitTask` | `create_task` |
| `UndoTask`, `UndoStack` | its two `kfree` calls when no frame is left |
| `Kfree` | `kfree` by the owner of a block |

Frames are named by number. Number 0 is what `alloc_page_frame` returns when
nothing is left; `map_page` and the heap use it as if it were a frame. A page table
lies in a frame, and its entries are slots of that frame (`Places`): two page tables that
were made with an empty pool are both in frame 0 and share their entries, and making the
second one clears what the first one held (`memory_manager.cpp:93-103`). Frames behind the
cleared entries are lost. `kmalloc`
never finds room under its limit (`threshold` stays 0), so it always grows the
heap, and it adds the request to `heap_size` that `change_heap_size` has already
raised: the block starts behind the pages that were mapped for it. The model keeps this.
An access to a page that is not mapped raises an exception, which `handle_isr`
answers by halting; `InitTask` has that outcome. It has a third one, `"wild"`: the control block
is written over frame 0 while that holds a page table, or through a translation that the
processor still has (`invalidate` flushes the page of its own argument). From there on the
page tables hold anything, and the model ends. Frame 0 is no frame of the pool, and pages may share it, so the
properties speak of the frames of the pool.
`KernelMemory!FramePoolSpec` is the refinement, `owner` computed from bitmap, tables
and the position of the running call.

### Fat32

State: `disk` (what every sector holds), `taken` (clusters whose word in the
place `find_free_cluster` looks at is not zero), `cwd`, and the position inside the
running command. Every `write_sector` is a step of its own, so `Crash` (power
failure, then `mount`) falls between any two of them; a write can also fail and
leave the sector as it was: it times out, or the drive refuses the data after it has
taken them, where `write_sector` returns 0. `create_entry` looks at neither.

A cluster the volume does not use has the word 0 in the FAT, and `get_next_cluster` returns it
like any other: it is below `0x0FFFFFF8`, so a full directory in such a cluster goes on in
"cluster 0", which `cluster_to_sector` finds two sectors in front of the data, in the last copy of the FAT. The
model has cluster 0, with a sector of zeros there and an end of chain behind it (`VolumeAssumption`).

The commands that read change nothing, and are operators: `Listed` is `ls`, `Shown`
is `cat`, `Prompt` the path search that runs after every command. They read
differently: `ls` stops at the first end mark, the search for a name and the search
for the path go on in the next sector of the chain. `CommandsShow` relates them to
the writing ones: what was created is listed, what was written is shown. `Prompt`
recurses through all directories without a limit, so `PromptEnds` says that no
directory leads back to one above it. That is true by what `mkdir` and first fit do
together with `OneEntryPerCluster`; nothing in the code checks it. Two things take it away. A write of
`create_entry` that fails (`lost`): the next entry
gets the same cluster, and the two may be a directory and one inside it. And an entry in cluster 0
(`ZeroUnused` is false): a directory that is created there, and whose own cluster is unused in the FAT
as well, contains itself. Eight commands do it on a volume with two such clusters and
four slots per sector, and the search then recurses for ever. The properties except both and hold otherwise.

| Action or operator | Code |
|---|---|
| `Touch`, `Mkdir`, `MarkCluster`, `WriteDots`, `LinkEntry` | `create_entry`, one step per `write_sector` |
| `Echo`, `UpdateFileSize` | `write_to_file`, `update_file_size` |
| `Delete` | `delete_entry` |
| `Cd`, `CdUp`, `Crash` | `change_directory`, `change_directory_up`, `mount` after a reset |
| `Listed`, `Shown`, `Prompt` | `ls`, `read_file`, `get_current_directory` |

A file or directory name is a model value; a sector is a directory with `Slots`
slots or the text of a file, and a data sector read as a directory shows a slot
of unknown content (`Alien`) followed by an end mark: the text of an `echo` is
assumed not to spell a directory entry. `MCFat32` is the shipped image, cut down to
the clusters that matter; it says which. One of its free clusters has the word 0.

### Console

State: the keyboard controller's queue (not code: external), mode, shift, caps, the
line with its insertion point, the history. `Key` is the user, `KeyInterrupt` one
run of the interrupt handler including everything it calls, `SnakeEnds` the end of
a game that was played inside it. The handler reads port 0x60 twice; when the
controller has the next code ready by then, the two reads see different codes, and
`KeyInterrupt` has that case. Backspace at the beginning of a line makes the insertion
point negative, and the next characters are written to memory in front of the buffer, which is
not part of the model. `InsertionPointInLine` therefore excepts a line in which that has
happened (`pastStart`), until Enter or an arrow sets the insertion point anew. `pastStart`, `held`, `mixed`,
`executed`, `gameKeys`, `events` are history variables.

### Display, Mouse and Screen

`Display` is `print_char` at the cursor; `Mouse` is the interrupt handler of the mouse,
which draws its pointer into the same video memory; `Screen` puts them together.
This is the one place where `main` and handlers work on the same data, so
`main`'s `print_char` takes one step per access to a port or to a byte of the screen, and a
handler, which is not interrupted, takes one step in all:

| Action | Code |
|---|---|
| `PrintNext` | the next character of `print` |
| `Select`, `GetHigh`, `Select`, `GetLow` | `get_cursor`, two writes to the index port and two reads of the data port |
| `Draw`, `Colour` | `print_char` up to line 123: newline, Backspace, other characters; the character byte, then the colour |
| `HandleScrolling` | the test in `handle_scrolling` |
| `LoadByte`, `StoreChar`, `StoreAttr` | `memory_copy` byte by byte, each loaded and then stored, and the blanking of the last row |
| `Select`, `SetHalf`, `Select`, `SetHalf` | `set_cursor` |
| `EchoKey` | `printf("%c", ...)` in the keyboard handler, as long as there is no command line (`MODE_DEFUALT`, that is, while `main` still prints) |
| `MouseByte`, `MouseInterrupt`, `UpdateCursor` | a byte of the mouse, the handler, `update_mouse_cursor` |

A cell is a character and a colour, offsets count cells instead of bytes. The one
odd byte offset the code can reach (newline behind the last row, where
`get_screen_offset` answers -1) writes halves of two cells (`Odd`).
Bytes written outside the screen are not shown and not part of the model.
While `main` copies the rows, the mouse handler may take its pointer out of a row that was copied already and
draw it into one that is still to come, where the next cells are copied from: a movement in the
middle of a scroll (`dragged`) leaves a cell in the pointer's colour behind beside the one the scroll may leave. A handler
that scrolls in the middle of a scroll (`nested`) doubles a row with whatever is in it, and
`PointersLeftByScrolls` excepts it. A movement is an `int8_t`, so the sign bits of a packet's first byte make no
difference. A mouse byte can get lost because the keyboard handler reads port 0x60
twice. `scrolls`, `dragged`, `nested`, `disturbed`, `trust`, `count`, `missed`, `prints` and `keys`
are history variables or bounds; colours and characters are
reduced to the ones the code tells apart.

### Snake

`src/1.1/kernel.c:95` starts the game from `main`, with interrupts on; the handler
works on the same globals. `q` calls `end_snake_game`, which gives the keyboard to the
command line but does not set `game_over`, so `main` plays on; `snake` at the prompt
then runs a whole second game inside the handler, on the same array. `Snake` has the
program once and two levels that run it, `main` and `handler`, with a `pc` each; `main`
stands still while the handler is not idle.

| Action | Code |
|---|---|
| `Start`, `Place`, `Clear` | `start_snake_game`, `init_snake_game` up to `game_over = 0` |
| `Loop` | `while (!game_over)` and the same test in `move_snake` |
| `Shift` | one cell of the body moves up |
| `Move`, `Check`, `Eat` | head, collisions, apple |
| `End` | `end_snake_game`, return |
| `Turn`, `Quit` | `update_direction` in the handler |
| `Command` | Enter on `snake` |

Drawing has no other effect than the picture and is left out. `rand` is any position. In
the C++ kernel the game runs only in the handler: that is the second level alone.
`heading`, `reversed`, `turns`, `spoiled` are history variables.

### Services and its parts

Seven parts share no variable with each other or with the modules above. Each has a
module of its own, with its own initial predicate, next-state relation and
properties; `Services` sets them side by side, `part` says which of them a behaviour
is about, and one run checks them all. They are not one after the other or
interleaved: no property relates two of them.

**Interrupts.** `MainRuns` is one statement of `main` from the first one with
interrupts on (`Boot`); `Interrupt` enters a handler, `Routine` is the routine that is
installed (the keyboard's reads port 0x60 twice, the mouse's once),
`EndOfInterrupt` is the end of `handle_irq`. `Fill`, `Press`, `MouseMoves`, `Tick`, and the
priorities of the two interrupt controllers (`Deliverable`, `Taken`) are external, as in the
emulator that the Makefile starts. A byte is a set of the bits that mean something when
`enable_mouse` takes it for the controller's command byte. Exceptions are no part of this
module: `handle_isr` prints and halts, which other modules have as an outcome
(`InitTask`, `Calculator`, `NoTickets`).

**AtaDisk.** Every port access of `read_sector`, `write_sector` and `get_size` is a
step (the sector number is written in two instead of five). Its users come one after the other: `main`
while it boots, and the handler, which executes no command before `CLI::init` has set the mode. `CLI::init` then prints
the prompt of the root directory without the disk (`fat32.cpp:565-570`) and is the last thing `main` does.

| Action | Code |
|---|---|
| `SetRegister`, `Command`, `Poll`, `WordIn` | `read_sector`, `get_size` |
| `WaitBsy`, `WaitDrq`, `WordOut` | `write_sector` with its time-outs: both bounds can be met at any poll |
| `Succeed`, `Fail` | the drive: external |
| `DriveReset`, `PrintSize` | `Disk::init`, `Disk::get_size` in `main` |
| `MountCondition`, `MountSector` | the loop of `mount`, which asks for the size at every turn and reads the next sector |
| `Ls`, `LsLost` | `ls` on a volume; `ls` after `mount` has found none |
| `SoundInit`, `CliInit` | the rest of `main` |
| `HandlerCalls`, `HandlerReturns` | a command of the command line |

`medium` is what may be in the drive: its size, where its volume is, which sectors a listing of the root
reads. `main` does not look at what `mount` returns (`kernel.cpp:77`). Without a volume `ls` therefore works on whatever
the last sector looked like (`LsLost`: any sector, any number of them, or a division by zero), and if `mount` looked at no sector
at all, the prompt compares two uninitialised clusters (`CliInit`).

The drive may fail at any command: before it asks for the data of a write, after it has taken them, or at
the flush, when a sector that was in its cache may not reach the disk. `write_sector` looks at ERR in `wait_drq`
only, so the last two end with 0 and nothing stored; `refused` says so, and `DiskOpsRight` excepts that one sector.
While the drive is busy a flush is ignored like any other command. A write
that gives up because the drive is late leaves the drive waiting for data: later
reads see zeros, and the next write goes to the old sector. A flush that is late makes `write_sector`
return -1 although the data is stored. A sector that cannot be read makes `read_sector` poll for
ever. `DiskOpsRight` is what remains true until the first time-out: an operation does what it
returns, no other sector changes, and the drive is ready for the next one, whether it failed or not. `Fat32` has lost
writes but not the misdirected one after a time-out.

**Scheduler.** `ScheduleRR`, `ScheduleFCFS`, `ScheduleLottery` are the three functions,
`RunScheduler` and `Completed` the two ends of `run_scheduler`, `NoTickets` its division by
zero: a winner of the lottery is never ready again, so after one draw per task no ticket is left.
`current_task_index` survives a run while `current_task` is reset; `FairShare` holds all the same,
because the last task is the longest and finishes last.

**Syscalls.** `Open`, `Close`, `Fork`, `Kill`, `Sbrk`, `Exit` are the calls that change a table, one
step each, `SyscallHandler` the dispatch. `fork` indexes the table with the last pid; `strayed` and `kills` are
history variables. Without a kill the index stays inside; after one it need not.

**Calculator.** `AppendToBuffer` is one key. `EvaluateExpression` goes from left to right; sums
and products wrap, the smallest integer divided by -1 traps and halts. `AnswersTheLine` compares
with `LeftToRight`, which splits at the last operator and wraps a number around once.

**Printf.** `Text`, `Length`, `Conversion` are the automaton's states, `Turn` one character of the
format. `PrintsArguments` compares with `Reference`, which takes whole directives from the front of the format and
the words each of them needs, and writes a number by place instead of by repeated division. It excepts what follows a
`%ld` or `%lld` (there `argp` moves two and four words where one and two were pushed), a long long
that does not fit into one word, an argument of `%h..` or `%hh..` that the C standard would first convert to a short or
a char and so change (`printf` prints the whole word: `KeptByLength`), and calls with a directive but no argument for it.

**Picture.** `Display` chooses a picture, whose text is `PictureText` (`1.1/tests/png_viewer.c` writes
such files), `ReadSector` and `ParseChar` are the loops of `draw_png_from_txt`, `DrawPixel` with
`ColourIndex` the palette, `Reboot` the end. The parser starts anew with every sector, so
an entry that straddles two is cut; and it keeps five digits of a number and drops the rest (`MaxDigits`, `num_idx < 5`).
`WholePixelsDrawn` says that every pixel of the picture whose entry in
the file lies inside one sector, and whose numbers are no longer than that, is drawn with its own numbers.

## Runs

`pass` runs finish without an error; a `violation` run finds the one property it
checks violated by the code as it is, and is explained under Findings.

| Run | Question | Bounds |
|---|---|---|
| `kernel_memory` | Is every frame accounted for, whatever the mix of kmalloc, kfree and create_task, also when the pool runs out in the middle and page tables share frame 0? | pool of 8 frames (one byte of the bitmap; it runs out), 2 pages per table (so that the heap needs several tables, the last ones without a frame), 5 calls with the sizes 52, 2048, 4096 that the kernel uses |
| `kmalloc_unmapped` | Is a block that kmalloc returns mapped? (violation) | same pool, 3 calls |
| `fat32` | Do crashes and lost writes ever give a cluster two owners or turn the tree into a loop? Does what was written show? | 4 slots per sector, 5 free clusters of which one has the word 0 in the FAT, 5 commands or crashes, 1 failed write |
| `fat32_shipped` | Is shipped data left alone? (violation) | 4 commands |
| `fat32_overflow` | Does a full directory leave other files alone? (violation) | 6 commands |
| `console` | Line, history and shift flag against what was typed | 8 key events, buffer of 3, history of 3 rows, queue of 2 |
| `console_snake` | Do keys reach the game? (violation) | 5 events |
| `screen` | Do cursor, pointer and packets recover from what interrupts do to them? | 2 rows of 3 cells, registers of base 4 (so that a position needs both), 3 printed characters or newlines, scrolled byte by byte, 1 echoed letter or Backspace, 6 mouse bytes out of 5 packets, 1 of them lost |
| `screen_scroll` | Does scrolling end on the last row? (violation) | 7 characters, 1 key, no mouse |
| `screen_paint` | Is a click permanent? (violation) | 9 mouse bytes, nothing printed |
| `services` | Does each of the seven parts do what it promises? | below |
| `snake` | What do keys, `q` and a second game do to the game that main plays? Does the handler come back? | field of 6 by 3, start length 3, 2 apples, 4 keys |

Why the bounds are enough. Eight frames are used up by two tasks, so all of
the failure paths of create_task and the frame-0 path of the heap occur; a
second page table appears with the third page, and after the eighth frame two tables are made in frame 0. Four slots fill a directory with two commands
in a new directory; the first new directory has the cluster with the word 0, so that the fifth command creates an entry in cluster 0. A line of two characters fills
the buffer, three lines fill the history, and eight events reach the third row as
well as Up, Up, Down. Symmetry is not used: frames and clusters are ordered by
first fit. On the screen of six cells, an echoed key that meets the
wrong half of the cursor register sends main behind the screen, which makes newline's
odd case and a scroll with the pointer on the screen happen within three
characters; six mouse bytes with one lost are enough to lose step and to find it again.
A snake of three to five cells on a field of eighteen can reverse, grow, and run into
itself with and without going back; four keys are two turns between two moves, or `q`,
a second game and two keys more; after the second apple none is put on the field.

The bounds of `services`: two keys, two mouse bytes and one tick around a boot of 17
statements, so that both devices wait for the one buffer and a third interrupt lies
between; a disk of three sectors whose volume is at the first, the second or
before the first one searched, and one that is too small for the search; two commands of the handler on two sectors of two
words, with a two-part sector number and one drive error at any command, so that the second command meets what the first one left behind; four tasks
(as in the code) and three runs, because an index is left over by the run before; tables of two files and
two processes and pids up to 5, so that slots are reused and the pid leaves the table; a line of four characters
with integers of three bits, which hold the digits 0, 4, 7 and make 4 the smallest and 7 the number -1; all formats of
up to four characters over the directives that interact, and five others, with three stacks of 4-bit words
that include the smallest and the largest; all pictures of up to four pixels, of which one lies outside the
screen and has a number longer than the array of two digits, with a palette of three entries and sectors of 16 characters, so that entries straddle and the palette runs out.

### Fairness

`KernelMemory!FairSpec` has `WF_vars(RunCall)` only: a call that was started goes on.
The code justifies that, there is one thread and nothing it waits for. No
fairness is given to the start of calls. `CallsReturn` needs it. `Snake!FairSpec` has weak
fairness of the processor (`\E l \in Level : Play(l)`), none of the keys: some level can always run
until all are done, and the processor runs it; `HandlerReturns` needs it. In `Services`, each
within its part: `WF` of `SchedStep` (a call of `run_scheduler` that has begun goes on; nobody has to
start one), of `Execute` and `Drive` (processor and drive go on; nobody has to type), of `Processor` and
`Fill` (processor and keyboard controller go on; nobody has to press a key). Weak fairness of `Execute` with
`Drive` means that a busy drive answers at last, not that it does so before the time-out. `RunsEnd`,
`PromptReached` and `InputServed` need it. `Fat32`, `Console` and `Screen` have safety properties only and no fairness.

## Proofs

`KernelMemory_proofs` proves, for every pool, heap size, page table size and mix of
requests (assumptions `FramesAssumption`, `HeapAssumption`):

* `TypeCorrect`: `Spec => []TypeOK`, which is left to the proof and is no property of the run
* `CountCorrect`: `Spec => []CountMatchesBitmap`
* `FramesExclusive`: `Spec => []OneUsePerFrame`

They follow from `MemoryInvariant`, `Spec => []IInv`, with
`IInv == TypeOK /\ CountMatchesBitmap /\ OneUsePerFrame /\ CallBounds`.
None of the three is inductive alone. `free_page_frame` decrements the count
whatever the bit says, so the count needs to know that `kfree` frees a frame that is
marked, which is part of `OneUsePerFrame`; exclusiveness in turn needs that a frame
is pending only between its allocation and its `map_page`, and that calls touch only pages of the heap,
which is `CallBounds`. Lemmas about the operators come first
(`AllocMarksFree` and so on), then one step per action.

`Snake_proofs` proves, for every field, start length and number of apples and keys:

* `KeysNeedAGame`: `Spec => []KeysGoToAGame`
* `SecondGameEnds`: `Spec => SecondGameEndsFirst`
* `ReversalNeedsTwo`: `Spec => ReversalNeedsTwoKeys`

from `SnakeInvariant`. An action property needs what is true before the action: that
`game_over` is set whenever the handler is idle after it has played into main's game
(`OverStays`, which looks at where the handler is and uses that main clears the flag
only before its game is under way), and that after no key the direction is that of
the last move, after one key not its opposite (`TurnsApart`). Then, about the body,
`SnakeBody` (`Spec => []BodyInv`) and from it

* `SnakeStaysWhole`: `ASSUME Room PROVE Spec => []SnakeInOnePiece`
* `ShortSnakeReverses`: `Spec => []ShortSnakeDiesByReversal`

`HeadInv` comes first: the cells' types, how far off the field the head can be at every statement (a second game lets
it go on), that an apple on the field is one the snake has not grown by yet, and that a game nobody
spoiled runs alone. `BodyInv` says that the cells of the snake form a `Path`, each next to the one before, none twice; while
they are shifted, when two neighbours of the array hold the same cell, it is the cells where they were (`Halfway`,
`Behind`). All but the last count, which an apple may just have added. A path of fewer than five cells cannot be
met by its head in any way but by going back. `Room` is an
assumption of the first theorem alone: `init_snake_game` lays the snake out to the left of the
middle as long as it was at the end of the game before, so with more apples than half the width
it starts off the field. The real field has room for 18 apples; the run's 6 columns have room for its two.

`Parts_proofs` has the theorems of four small parts, and the lemmas about the calculator and about the types.

* `ForkStaysInside`: `SyscallsSpec => []StrayForkNeedsKill`, for tables of every size
  (`TablesAssumption`, `HeapAssumption`). The invariant `TableInv` adds that without a kill the active slots are
  the first `next_pid - 1` ones, so that the first free slot is the very index fork uses, and that no
  slot has a pid that is yet to be given out.
* `RoundRobinIsFair`: `SchedSpec => []FairShare`, and `LotteryNeverReturns`: the lottery
  never finishes a task. They hold for every number of tasks and every quantum, as long as times ascend and are
  longer than one tick (`TimesAscendAssumption`, `LongTasksAssumption`: `init_tasks` gives 10, 20, 30, 40).
  `SchedInv` says how the times left and the slices used of any two tasks compare, depending on whether the turn is
  between them, and that the index is 0 when all are finished: so that the index left over agrees with
  `current_task`.
* `PixelsKeepColours`: `PictureSpec => []ColoursKept`, for every palette, screen and
  picture (`PaletteAssumption`). `PaletteInv` adds that a drawn pixel refers to an entry in use, which is why
  an unused entry may get a new colour.
* `WholePixelsAreDrawn`: `PictureSpec => []WholePixelsDrawn`, for every picture, size of a sector, size of the array of digits and set of digits
  (`FileAssumption`; a sector has at least one character). What a parser without sectors holds at each character is one sequence, `IsParse`. `WholeInv`
  says that the kernel's parser agrees with it wherever the current entry began in the current sector
  (`InStep`), so that what a cut entry has left in the array is gone by the next brace, and that every such
  entry so far is drawn (`DrawnWhole`). Apart from the automaton, the lemmas read `PictureText`: what the parser without
  sectors holds at the end of an entry is the pixel that was written (`DecimalIs` again, digit by digit).
* `PrintfPrintsArguments`: `PrintfSpec => []PrintsArguments`, for every format, any words behind it and every width of a
  word, a short and a char (`PrintfAssumption`; that a word has more than one value is assumed, since the prover knows nothing of
  powers). `PrintfReads` says how far the call is: there is a rest `g` of the format that begins with a whole directive or a
  character, of which the automaton has read at most three characters, and `argp` is at the words `w`
  that belong to it; what is put out together with `Reference[<<g, w>>]` is the reference of the
  call. `ConversionReads` is the step at the end of a directive. `DigitsPrinted` says that dividing by
  the radix until nothing is left gives the digits by place, `ValuePrinted` that the sign and the value are those of
  the words. `Reference` recurs over formats, for which no library theorem can be used: `RecursionExists` and
  `OnlyOne` show, for any rule that goes to a smaller argument, that one function obeys it (approximations
  of every depth, of which any two agree), `RecursionTypes` that its values have their types.

`Disk_proofs` proves `DiskKeepsTypes` (`DiskSpec => []DiskTypeOK`) and `DiskOperations`
(`DiskSpec => DiskOpsRight`), for every medium and any number of sectors, words, operations and errors (`DiskAssumption`).
`DiskInv` says with `InPlace` for every port access, as long as no write has timed out, what the registers, the drive and the
words so far hold: `HalfRead` splits a sector into the words read and those still to come, `InStore` and `AfterStore` are
a write whose data the drive is storing and what has come of it, stored or refused. `Roles` adds that `main`
never writes, so that no time-out is behind the drive while it boots, and that `mount` reads the sector it looks at.

`Services_proofs` carries the properties of the parts over to `Services!Spec` (`PartsKeepPromises`), and proves
what makes the liveness properties of two parts possible and is no property of the run:

* `InterruptsEnd`: back in `main` no interrupt is in service at either controller.
* `InputHasReader`: a byte in the keyboard controller's buffer is going to be read by `main` or by an interrupt that is
  requested or under way, unless a device was early. `IntInv` follows `enable_mouse` statement by statement: what the
  controller and the mouse have answered, and who is to read it.
* `CalculatorKeepsLine`: `c_input` is what was typed since the prompt unless something was left over.

* `PartsKeepTypes`: `Spec => []TypeOK`.

For the types the picture viewer needs an argument: that the three numbers of an entry
fill the array of its values and no more depends on what the file says. `Bounding(f, q, a, b)`
assigns each position of a text a bound on the values kept there; `ReadableTogether` puts two texts
that have one behind each other, and `ReadableEntry`, `FlatReadable` build the text of a picture
from its characters with it, for every picture (`FileAssumption`: ten digits, none of them a mark).
`ParserTypes` then says that the parser stays below the bound of its position; a new sector starts at 0 values, which is
below any. `DecimalIs` shows that the recursion which writes numbers defines a function.

`CalculatorKeepsLine` is half of `CalculatorAnswers`, `Spec => AnswersTheLine`, for every size of the buffer and width of an int
(`CalcAssumption`, which states the little that is needed of powers of two). The other half is `OnePass` of
`Parts_proofs`: what the loop computes is `LeftToRight` of the line. `FoldExists` and `FoldTrace` turn
`FoldLeft` into a sequence of states, one for each character (`Trace`); `WrapOnce` says that wrapping around after every
digit or once at the end is the same; `CollectsNumber` follows the loop from one operator to the next, and
`LastOfMany` shows that it obeys the recursion that defines `LeftToRight`. That recursion has no other solution: of
two, take the shortest line on which they differ.

The second half of `KernelMemory_proofs` is about the heap, from the same assumptions: `BlocksNeverOverlap`
(`Spec => []BlocksDisjoint`), `TopIsUnmapped` (`Spec => []NothingMappedAboveTop`), `FreedFramesUnmapped`
(`Spec => FreedFrameIsUnmapped`), `ImplementsFramePool` (`Spec => FramePoolSpec`, the refinement) and
`OneLeakPerTask` (`Spec => []LeaksOnlyPerTask`). All of them are about the entries of page tables where they lie, tables
that share frame 0 included.

* `HeapInv` takes the blocks that a running `create_task` has not handed out yet together with
  those that callers hold: all of them lie below `heap_size`, no two overlap, and `nextPage` never passes the
  size that `change_heap_size` has raised. `TablesBelowTop` adds that a page table
  exists only where one of its pages was reached, so that a page shares the entries in frame 0 only with pages at the same
  place of a table below it.
* For the refinement, `Owners` says that `OneUsePerFrame` makes the owner of a frame unique, `Moves` what
  a step may do to one frame in terms of the tables, and `MovesAreHandovers` that this is what `FramePool` allows:
  an entry that is wiped in frame 0 gives its frame to nobody.
  `main` maps the multiboot information before anything else (`BootFirst`), so no page table is replaced.
* `LeakInv`: entries are only in page tables that exist, and the pages that `change_heap_size` maps next are not
  mapped, so that only `create_task` writes over a mapping
  (one frame) and only a table made in frame 0 over another one wipes mappings (as many as a table has
  entries, `Wiped` times). A step loses frames in one of these ways or in none (`LosesNone` and the two after it).

`Console_proofs` proves, for every alphabet, buffer, history, queue and set of programs (`ConsoleAssumption`),
`ConsoleTypes` (`Spec => []TypeOK`), `LinesAlwaysEnd` (`Spec => []LinesTerminated`), `InsertionInLine` (`Spec => []InsertionPointInLine`),
`HistoryIsTheLog` (`Spec => []HistoryIsLog`) and `ShiftIsTheKey` (`Spec => []ShiftFollowsKey`). `EditorInv`
carries the two facts about lines together: every row of the history ends, so that an arrow puts the insertion
point at a NUL; everything before the insertion point is typed text, so that typing moves the NUL on before it can be
overwritten. Backspace is not bounded, so the insertion point may be negative in it, but only while `pastStart` is set. `ShiftInv` says
that the last shift code in the queue, or the flag if there is none, tells whether the key is down. `CountInv`
bounds the counters: a key moves the number of lines and the place in the history by one at the most. What a
program's name starts is one of four things (`ProgramAssumption`).

`Screen_proofs` proves `CursorComesBack`: `Spec => []CursorOnScreen`, for every screen (`ScreenAssumption`), and
`PacketsComeBack`: `Spec => []PacketsInStep`, for every set of packets whose first byte looks like a first byte
(`PacketAssumption`). `CursorInv` says for each port access of `main` which register is selected and what
`offset` holds; a handler that runs between two characters keeps it. `PacketInv` follows a packet after a loss:
the next first byte is stored somewhere, and after a plain packet the handler waits for a first byte or for the
last one.

It also proves `ScreenTypes` (`Spec => []TypeOK`) and `PicturesNeedScrolls` (`Spec => []PointersLeftByScrolls`).
The property is not inductive: text printed over the pointer takes a picture away, and the next movement
draws one. `PointerInv` counts the pictures that the next movement will not take back, `Stray`, and says that they
never outnumber `scrolls + dragged`; a movement keeps `Stray`, printing can only lower it. While `main` copies the rows it
counts them on the screen as it will be at the end of the copy: `Coming` has the cells copied so far, the byte that is
loaded, and for the rest the row below. A scroll adds one when it
carries the pointer's own picture away from where the handler will look for it; every byte stored leaves
`Coming` as it is; a movement in between may take back a picture that was copied already and draw one that is still to
be copied, which adds one at the most.

`Fat32_proofs` proves, for every volume, number of slots, mix of commands and crashes, and
any number of writes that fail:

* `FatTypes`: `Spec => []TypeOK`
* `ClustersNotShared`: `Spec => []OneEntryPerCluster`
* `LinksAreTaken`: `Spec => []LinkedClustersTaken`
* `DirectoryBeforeEntry`: `Spec => DirWrittenBeforeLink`
* `CommandsAreShown`: `Spec => CommandsShow`
* `PromptAlwaysEnds`: `Spec => []PromptEnds`

The last two except what an entry in cluster 0 takes away, as above (for `CommandsShow`, only the half about `cat`: an echo to
a directory that contains itself overwrites the way to its own entry). The other four hold with such entries too.

The assumptions are about the volume as it is mounted first. `VolumeAssumption` is about types, and about cluster 0: its
sector holds zeros, its word in the FAT is the media type and ends a chain, and it does not read as free. `ShippedAssumption`:
every file and directory has clusters of its own that do not read as free, and only `..` may say cluster 0.
`FreeAssumption`: no directory begins or continues in a cluster that reads as free. `ChainAssumption`: no chain of the FAT
loops. `CopiedAssumption`: chains run upwards and never meet, except that any number of them
may go on in cluster 0; entries lead to where chains begin, and a directory lies
before what is in it. The last one is how `mkfs.fat -F 32` (`1.1/Makefile:67`) and copying files one after another
leave a volume; a volume on which files were deleted and grown again may differ. TLC evaluates all five on the
shipped image of `MCFat32`.

The inductive invariant has three layers.

* `DiskInv` says what `ShippedAssumption` says, `SoundDisk`, of two disks: the one that a power failure would leave behind
  now, and the one that `create_entry` is about to complete (`Planned`), because its buffer was filled before its first
  write and overwrites whatever is there then. Only the mark of the new cluster may be missing in the second one, and
  only until `write_fat_entry` has been tried.
* `CreateInv` adds that a cluster nobody has marked holds no entry, and no free slot if a chain comes by it; that one whose
  mark was lost links itself only, and is the next one to be chosen; and that the buffer of `create_entry` is the sector
  on the disk with one entry more. No entry has cluster 0, which never reads as free. Without
  `FreeAssumption` `DirWrittenBeforeLink` is false: a directory that continues in such a cluster can be given that very
  cluster for a new directory, and the entries that `WriteDots` wipes there come back with `LinkEntry`, whatever has
  become of the directories they link.
* `ShowInv` says that entries lead onwards (`Onward`): from every directory whose chain has an entry's sector to one that
  is later in the order of `Before`, shipped clusters first and then those handed out, which `UpwardsOnly` says go from the
  first to the last. An entry that cluster 0 would show to a directory has no place in that order, so this part holds as long
  as there is none (`ZeroUnused`); that what was created is listed does not need it. So `echo`'s write to a file never
  falls on a sector that the search for its entry has come by,
  and `update_file_size` finds the entry that was written to.

The same order makes the prompt end. `NameBelowIs` shows that the recursion of `find_directory_name` defines a function,
`Rank` counts the clusters before a directory, and `SearchDepth` says that a search still going on `n` levels down
from a directory has `n` clusters of higher rank above it; there are not that many. A lost write of `create_entry` takes
`UpwardsOnly` away, an entry in cluster 0 the order of `Before`, and the property excepts both.

Every safety invariant and action property of a passing run has a theorem. Model-checked only are the liveness
properties `CallsReturn`, `HandlerReturns`, `RunsEnd`, `PromptReached` and `InputServed`, which rest on fairness and so on
ENABLED, and the six violations. Induction over numbers, lines and chains is done by the
least counterexample (`Least` of `Fat32_proofs`, `LeastNumber` of `Parts_proofs`), since the library's induction
theorems take an operator as a parameter.

## Findings

* `kmalloc_unmapped`: `kmalloc` returns blocks that lie above the pages it mapped.
* `fat32_shipped`: free clusters are looked up in the reserved sectors, not in the
  FAT, so the first `mkdir` overwrites a sector of a shipped image.
* `fat32_overflow`: a directory that is full goes on in a sector that
  belongs to a file.
* `console_snake`: the game runs in the keyboard interrupt, so WASD never reach it.
* `screen_scroll`: a key echoed while `main` uses the cursor registers sends `main` rows
  behind the screen; scrolling goes back by one row only.
* `screen_paint`: the colour of a click on the cell under the pointer is taken back
  when the pointer moves on.

## Not modelled

* Third-party code: the UEFI headers and sources under `1.2/syscall/uefi` (4500 lines). Only its table is
  called, at an address where nothing is.
* The C kernel's earlier versions of code that is modelled in its C++ form: `1.1/drivers/fat32.c`,
  `memory_init.c`, `kernel_memory.c`, `programs/cli.c`, `screen.c`, `mouse.c`, `keyboard.c` and others. They differ in wording, not in
  state changes, so a second model would repeat the first. What has no successor (snake in main, scheduler,
  system calls) is modelled.
* Code that is commented out (`process_manager.cpp` behind line 113, `printf.cpp` behind line 192) and code
  without a caller: `audio.c`, `play_note`, `draw_line`, `append_to_file`, `read_root_directory`, `alloc_page_dir`,
  `sync_page_dirs`, `read_bytes`, text mode and fonts of the graphics drivers.
* The demo tasks of `process.c`: they draw, and nothing ever switches to them.
* Constant tables: GDT, the registers of video modes, fonts, scan codes.
* Paint: one assignment per key; its colour is a constant of `Mouse`.
* Printing and layout, and how a command line is cut into words.
* Power failure in the middle of a sector; the words of the FAT and the directory that a real listing reads (`AtaDisk` has
  their sectors, `Fat32` what is in them).

These are the reason why the definitions map to less than a fifth of the repository's lines: more than half of
them are third-party, duplicated, commented out, tables, or never called.

## Plan

1. Done: `FramePool`, `KernelMemory`, `Fat32`, `Console`, `Display`, `Mouse`, `Screen`, `Snake`, and
   `Services` with its seven parts; proofs of all safety properties of `KernelMemory` (with the refinement), `Fat32`,
   `Console`, `Screen`, `Snake`, `Scheduler`, `Syscalls`, `AtaDisk`, `Calculator`, `Picture`, `Printf`, and of the
   types of all parts.
2. The drive of `AtaDisk` under `Fat32`, so that a write that times out can also be misdirected.
