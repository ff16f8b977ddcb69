------------------------------- MODULE AtaDisk -------------------------------
(***************************************************************************)
(* The disk driver (1.2/drivers/storage/disk.cpp) and its users, one after *)
(* the other: main while it boots (kernel.cpp), from Disk::init to the     *)
(* prompt, and then the keyboard handler.  The handler executes no command *)
(* before CLI::init has set the mode, and that is the last thing main      *)
(* does: at the root it prints the prompt without the disk.                *)
(*                                                                         *)
(* The drive is external.  It behaves as the one of the emulator the       *)
(* Makefile starts: registers and commands written while it is busy or     *)
(* transfers data are ignored, and so is data it did not ask for.  It may  *)
(* fail at any command, and lose a sector after it has taken its data.     *)
(*                                                                         *)
(* A sector number is written to the registers in two parts here (in five  *)
(* in the code), and a sector has WordsPerSector words.                    *)
(***************************************************************************)
EXTENDS Integers, Sequences

CONSTANTS
  Media,           \* what may be in the drive, as Medium below
  FirstSearched,   \* where mount begins to look for a volume, 22000
  Sectors,         \* the sectors commands read and write
  WordsPerSector,  \* ATA_SECTOR_SIZE / 2
  MaxCommands,     \* bound: operations of the handler
  MaxErrors,       \* bound: operations of the drive that fail
  Base             \* the parts of a sector number: hi * Base + lo

Sector == 0 .. Base * Base - 1

\* A disk of size sectors, which bears a volume at one of them, and the sectors
\* a listing of its root reads: the directory's and, between two, the FAT's.
Medium ==
  [size : 1 .. Base * Base - 1, volume : Sector, listing : Seq(Sector)]

ASSUME DiskAssumption ==
  /\ Base \in Nat \ {0} /\ WordsPerSector \in Nat \ {0}
  /\ Sectors \subseteq Sector /\ FirstSearched \in Sector
  /\ Media \subseteq Medium
  /\ \A m \in Media : \A i \in DOMAIN m.listing : m.listing[i] < m.size
  /\ MaxCommands \in Nat /\ MaxErrors \in Nat

VARIABLES
  medium,    \* what is in the drive
  boot,      \* what main does
  next,      \* mount: the sector it looks at
  listed,    \* ls: the sectors it has read
  op,        \* the operation that runs, as Idle below
  hi, lo,    \* the LBA registers
  drive,     \* [status, cmd, lba, words]
  disk,      \* sector -> words
  dsp,       \* bytes the sound card has for dsp_read; -1 without a card
  commands, errors, timedOut \* history

diskVars == <<medium, boot, next, listed, op, hi, lo, drive, disk, dsp,
              commands, errors, timedOut>>
driveVars == <<hi, lo, drive, disk, errors>>
mainVars == <<medium, boot, next, listed, dsp, commands>>

\* refused is history: the drive failed after it had taken the data.
Idle == [kind |-> "none", sector |-> 0, pc |-> "idle", buf |-> <<>>,
         data |-> 0, refused |-> FALSE, result |-> 0]

Written(s) == [k \in 1 .. WordsPerSector |-> s + 1]

DiskInit ==
  /\ medium \in Media /\ boot = "reset" /\ next = 0 /\ listed = 0
  /\ op = Idle
  /\ hi = 0 /\ lo = 0
  /\ drive = [status |-> "idle", cmd |-> "none", lba |-> 0, words |-> <<>>]
  /\ disk = [s \in 0 .. medium.size - 1 |-> Written(s)]
  /\ dsp = -1
  /\ commands = 0 /\ errors = 0 /\ timedOut = FALSE

Running == op.pc \notin {"idle", "done"}
Free == drive.status \in {"idle", "error"}

Goto(p) == op' = [op EXCEPT !.pc = p]

\* Mutant: write_sector returns 0 whatever the drive says.
ReturnsZero(r) ==
  op' = [op EXCEPT !.pc = "done", !.result = IF op.kind = "write" THEN 0 ELSE r]

Returns(r) == op' = [op EXCEPT !.pc = "done", !.result = r]

-----------------------------------------------------------------------------
(* The driver.                                                             *)

\* identify writes port 6, too, but every read or write does so again.
Begin(kind, sector, data) ==
  /\ op.pc = "idle"
  /\ op' = [Idle EXCEPT !.kind = kind, !.sector = sector, !.data = data,
                        !.pc = IF kind = "identify" THEN "command"
                               ELSE "select"]

\* Port 6: the upper part of the sector number; ports 2 to 5: the lower one.
SetRegister ==
  \/ /\ op.pc = "select"
     /\ hi' = IF Free THEN op.sector \div Base ELSE hi
     /\ Goto("low") /\ UNCHANGED lo
  \/ /\ op.pc = "low"
     /\ lo' = IF Free THEN op.sector % Base ELSE lo
     /\ Goto("command") /\ UNCHANGED hi

\* A flush is about the sector written last.
SendTo(cmd) ==
  drive' = IF ~Free THEN drive
           ELSE IF cmd = "flush"
           THEN [drive EXCEPT !.status = "busy", !.cmd = cmd]
           ELSE [status |-> "busy", cmd |-> cmd, lba |-> hi * Base + lo,
                 words |-> <<>>]

Command ==
  \/ /\ op.pc = "command" /\ SendTo(op.kind)
     /\ Goto(IF op.kind = "write" THEN "wait bsy" ELSE "poll")
  \/ /\ op.pc = "flush" /\ SendTo("flush") /\ Goto("wait flush")

\* read_sector and get_size poll for DRQ; only get_size looks at ERR.
Poll ==
  /\ op.pc = "poll"
  /\ \/ drive.status \in {"in", "out"} /\ Goto("words in")
     \/ op.kind = "identify" /\ drive.status = "error" /\ Returns(-1)

\* wait_bsy and wait_drq, which give up after a number of polls; wait_bsy does
\* not look at ERR, neither before the data nor after the flush.
WaitBsy ==
  \/ /\ op.pc = "wait bsy" /\ drive.status # "busy"
     /\ Goto("wait drq") /\ UNCHANGED timedOut
  \/ /\ op.pc = "wait flush" /\ drive.status # "busy"
     /\ Returns(0) /\ UNCHANGED timedOut
  \/ /\ op.pc \in {"wait bsy", "wait flush"} /\ drive.status = "busy"
     /\ Returns(-1) /\ timedOut' = TRUE

WaitDrq ==
  /\ op.pc = "wait drq"
  /\ CASE drive.status = "error" -> Returns(-1) /\ UNCHANGED timedOut
       [] drive.status \in {"in", "out"} ->
            Goto("words out") /\ UNCHANGED timedOut
       [] OTHER -> Returns(-1) /\ timedOut' = TRUE

\* A word is read; 0 if the drive has none to give.
WordIn ==
  LET has == drive.status = "in"
      buf == Append(op.buf, IF has THEN Head(drive.words) ELSE 0)
      full == Len(buf) = WordsPerSector
  IN  /\ op.pc = "words in"
      /\ op' = [op EXCEPT !.buf = buf,
                          !.pc = IF full THEN "done" ELSE "words in"]
      /\ drive' = IF ~has THEN drive
                  ELSE [drive EXCEPT !.words = Tail(@),
                                     !.status = IF Len(drive.words) = 1
                                                THEN "idle" ELSE "in"]

\* A word is written; the drive stores the sector when it has all of them.
WordOut ==
  LET sent == Append(op.buf, op.data)
      words == Append(drive.words, op.data)
  IN  /\ op.pc = "words out"
      /\ op' = [op EXCEPT !.buf = sent,
                          !.pc = IF Len(sent) = WordsPerSector THEN "flush"
                                 ELSE "words out"]
      /\ drive' = IF drive.status # "out" THEN drive
                  ELSE IF Len(words) < WordsPerSector
                  THEN [drive EXCEPT !.words = words]
                  ELSE [drive EXCEPT !.words = words, !.status = "busy",
                                     !.cmd = "store"]

DriverStep ==
  /\ \/ SetRegister /\ UNCHANGED <<drive, timedOut>>
     \/ Command /\ UNCHANGED <<hi, lo, timedOut>>
     \/ Poll /\ UNCHANGED <<hi, lo, drive, timedOut>>
     \/ WaitBsy /\ UNCHANGED <<hi, lo, drive>>
     \/ WaitDrq /\ UNCHANGED <<hi, lo, drive>>
     \/ WordIn /\ UNCHANGED <<hi, lo, timedOut>>
     \/ WordOut /\ UNCHANGED <<hi, lo, timedOut>>
  /\ UNCHANGED <<mainVars, disk, errors>>

-----------------------------------------------------------------------------
(* The drive.                                                              *)

OnDisk == drive.lba < medium.size

\* What a command does when nothing goes wrong; having stored a sector, the
\* drive remembers what it replaced until that has been flushed.
Succeed ==
  \/ /\ drive.cmd = "read" /\ OnDisk
     /\ drive' = [drive EXCEPT !.status = "in", !.words = disk[drive.lba]]
     /\ UNCHANGED disk
  \/ /\ drive.cmd = "identify"
     /\ drive' = [drive EXCEPT !.status = "in",
                    !.words = [k \in 1 .. WordsPerSector |-> medium.size]]
     /\ UNCHANGED disk
  \/ /\ drive.cmd = "write" /\ OnDisk
     /\ drive' = [drive EXCEPT !.status = "out"]
     /\ UNCHANGED disk
  \/ /\ drive.cmd = "store"
     /\ disk' = [disk EXCEPT ![drive.lba] = drive.words]
     /\ drive' = [drive EXCEPT !.status = "idle", !.words = disk[drive.lba]]
  \/ /\ drive.cmd = "flush"
     /\ drive' = [drive EXCEPT !.status = "idle"]
     /\ UNCHANGED disk

\* A command fails: the data of a write is not stored, or does not reach the
\* disk from the drive's cache.
Fail ==
  /\ errors < MaxErrors /\ errors' = errors + 1
  /\ drive' = [drive EXCEPT !.status = "error"]
  /\ op' = [op EXCEPT !.refused = drive.cmd \in {"store", "flush"}]
  /\ \/ UNCHANGED disk
     \/ /\ drive.cmd = "flush" /\ Len(drive.words) = WordsPerSector
        /\ disk' = [disk EXCEPT ![drive.lba] = drive.words]

Drive ==
  /\ drive.status = "busy"
  /\ \/ Succeed /\ UNCHANGED <<errors, op>>
     \/ /\ drive.cmd \in {"read", "write"} /\ ~OnDisk
        /\ drive' = [drive EXCEPT !.status = "error"]
        /\ UNCHANGED <<disk, errors, op>>
     \/ Fail
  /\ UNCHANGED <<hi, lo, timedOut, mainVars>>

-----------------------------------------------------------------------------
(* The users.                                                              *)

\* Power on, Disk::init: the controller is reset and waited for.
DriveReset ==
  /\ boot = "reset" /\ boot' = "size"
  /\ UNCHANGED <<medium, next, listed, op, driveVars, dsp, commands, timedOut>>

\* main calls the driver, and goes on when the call has returned.
Calls(kind, sector) == Begin(kind, sector, 0) /\ UNCHANGED <<boot, next, listed>>
AfterCall == op.pc = "done" /\ op' = Idle

\* main prints the size, and mounts.
PrintSize ==
  /\ boot = "size"
  /\ \/ Calls("identify", 0)
     \/ /\ AfterCall /\ boot' = "search" /\ next' = FirstSearched
        /\ UNCHANGED listed

\* The condition of mount's loop asks for the size again each time; -1, for an
\* error, is larger than any sector.  When the loop ends mount has failed, and
\* main lists all the same.
MountCondition ==
  /\ boot = "search"
  /\ \/ Calls("identify", 0)
     \/ /\ AfterCall
        /\ boot' = IF op.result = -1 \/ next < op.buf[1] THEN "boot sector"
                   ELSE "ls lost"
        /\ UNCHANGED <<next, listed>>

\* The loop's body: is this the boot sector of the volume?
MountSector ==
  /\ boot = "boot sector"
  /\ \/ Calls("read", next)
     \/ /\ AfterCall /\ UNCHANGED listed
        /\ IF op.buf = Written(medium.volume)
           THEN boot' = "ls" /\ UNCHANGED next
           ELSE boot' = "search" /\ next' = next + 1

\* ls reads the root directory.
Ls ==
  /\ boot = "ls"
  /\ \/ /\ listed < Len(medium.listing)
        /\ Calls("read", medium.listing[listed + 1])
     \/ AfterCall /\ listed' = listed + 1 /\ UNCHANGED <<boot, next>>
     \/ /\ op.pc = "idle" /\ listed = Len(medium.listing)
        /\ boot' = "sound" /\ UNCHANGED <<op, next, listed>>

\* ls without a volume works on whatever mount has left in boot_sector: it
\* reads any sector, comes to an end or to another one, or divides by a
\* bytes_per_sector of 0.
LsLost ==
  /\ boot = "ls lost"
  /\ \/ \E s \in Sector : Calls("read", s)
     \/ /\ AfterCall /\ boot' \in {"ls lost", "sound", "halted"}
        /\ UNCHANGED <<next, listed>>

MainCalls ==
  /\ PrintSize \/ MountCondition \/ MountSector \/ Ls \/ LsLost
  /\ UNCHANGED <<medium, driveVars, dsp, commands, timedOut>>

SoundSteps(card) ==
  /\ \/ boot = "sound" /\ dsp' \in {-1, 1} /\ boot' = "dsp 1"
     \/ /\ boot = "dsp 1" /\ dsp # 0 /\ (dsp > 0 \/ ~card)
        /\ dsp' = IF dsp > 0 THEN dsp - 1 ELSE dsp
        /\ boot' = "dsp 2"
     \/ boot = "dsp 2" /\ dsp # 0 /\ boot' = "cli" /\ UNCHANGED dsp
  /\ UNCHANGED <<medium, next, listed, op, driveVars, commands, timedOut>>

\* Mutant: the first dsp_read insists on the byte of a card.
SoundInitWithCard == SoundSteps(TRUE)

\* Sound::init resets the card and calls dsp_read twice: a card has one byte,
\* no card answers 0xFF to everything.
SoundInit == SoundSteps(FALSE)

\* CLI::init sets the mode and prints the prompt: at the root, which is where
\* mount leaves the current directory, without the disk.  If mount looked at no
\* sector at all the two clusters are whatever the stack held.
CliInit ==
  /\ boot = "cli"
  /\ \/ boot' = "prompt"
     \/ next = FirstSearched /\ FirstSearched >= medium.size /\ boot' = "halted"
  /\ UNCHANGED <<medium, next, listed, op, driveVars, dsp, commands, timedOut>>

\* A command is typed: the handler reads or writes a sector, and returns.
HandlerCalls ==
  /\ boot = "prompt" /\ commands < MaxCommands
  /\ \E kind \in {"read", "write"}, s \in Sectors :
       Begin(kind, s, 100 + commands)
  /\ commands' = commands + 1
  /\ UNCHANGED <<medium, boot, next, listed, driveVars, dsp, timedOut>>

HandlerReturns ==
  /\ boot = "prompt" /\ AfterCall
  /\ UNCHANGED <<mainVars, driveVars, timedOut>>

Execute ==
  DriveReset \/ MainCalls \/ DriverStep \/ SoundInit \/ CliInit \/ HandlerReturns

DiskNext == Execute \/ HandlerCalls \/ Drive

\* The processor goes on, and so does the drive; nobody has to type.
DiskFairness == WF_diskVars(Execute) /\ WF_diskVars(Drive)

DiskSpec == DiskInit /\ [][DiskNext]_diskVars /\ DiskFairness

-----------------------------------------------------------------------------
DiskTypeOK ==
  /\ medium \in Media /\ next \in Sector /\ listed \in Nat
  /\ op.kind \in {"none", "read", "write", "identify"}
  /\ Len(op.buf) <= WordsPerSector
  /\ op.result \in {0, -1} /\ op.refused \in BOOLEAN
  /\ hi \in 0 .. Base - 1 /\ lo \in 0 .. Base - 1
  /\ drive.status \in {"idle", "error", "busy", "in", "out"}
  /\ drive.status = "in" => Len(drive.words) \in 1 .. WordsPerSector
  /\ DOMAIN disk = 0 .. medium.size - 1
  /\ \A s \in DOMAIN disk : Len(disk[s]) = WordsPerSector
  /\ dsp \in {-1, 0, 1} /\ timedOut \in BOOLEAN

\* Until a write gives up on the drive (its data are then still awaited): a
\* sector is read as it is; a write that reports success has stored its data,
\* unless the drive failed after taking them, and has left every other sector
\* alone in any case; and when an operation is over the drive, failed or not,
\* is ready for the next one.
DiskOpsRight ==
  [][~timedOut' =>
       /\ Running /\ op'.pc = "done" =>
            CASE op.kind = "read" -> op'.buf = disk[op.sector]
              [] op.kind = "write" /\ op'.result = 0 /\ ~op.refused ->
                   /\ op.sector \in DOMAIN disk
                   /\ \A k \in 1 .. WordsPerSector :
                        disk[op.sector][k] = op.data
              [] OTHER -> TRUE
       /\ disk' # disk =>
            /\ Running /\ op.kind = "write"
            /\ \A s \in DOMAIN disk \ {op.sector} : disk'[s] = disk[s]
       /\ ~Running' => Free'
    ]_diskVars

\* Booting comes to its end, with the prompt printed and no key needed, unless
\* the search finds no volume, the drive fails, or a card has no second byte
\* for dsp_read.
PromptReached ==
  boot = "size" ~>
    \/ boot = "prompt"
    \/ medium.volume \notin FirstSearched .. medium.size - 1
    \/ errors > 0 \/ dsp = 0
=============================================================================
