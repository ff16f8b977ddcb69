-------------------------------- MODULE Fat32 --------------------------------
(***************************************************************************)
(* The file system: src/1.2/drivers/storage/fat32.cpp over disk.cpp, as    *)
(* the commands of src/1.2/user_space/cli.cpp call it.                     *)
(*                                                                         *)
(* Commands run one at a time, each inside a keyboard interrupt; power can *)
(* fail between any two sector writes.  A sector is one cluster.  The      *)
(* driver follows chains in the volume's FAT, which it never writes, but   *)
(* looks for free clusters, and marks them, at the same offsets of the     *)
(* reserved sectors in front of it: read_fat_entry and write_fat_entry     *)
(* leave out reserved_sectors.  That second table is "taken" here.         *)
(*                                                                         *)
(* A cluster that the volume does not use has the word 0 in the FAT, and 0 *)
(* is no end of a chain to get_next_cluster: the chain of such a cluster   *)
(* goes on in "cluster 0", which cluster_to_sector finds two sectors       *)
(* before the data, at the end of the last copy of the FAT.                *)
(***************************************************************************)
EXTENDS Naturals, Sequences, FiniteSetsExt

CONSTANTS
  Cluster,        \* the clusters of the volume that matter, and 0
  Root,           \* boot_sector.root_cluster
  Fat,            \* the volume's FAT: the next cluster, 0, or EndOfChain
  Free,           \* clusters whose word in the reserved sectors is 0
  ShippedDisk,    \* the sectors as the image ships them
  Slots,          \* directory entries per sector (16)
  PaddedName,     \* 11-byte names that end in spaces: only directory commands
  TxtName,        \* 11-byte names that a file command can produce too
  Dot, DotDot,    \* the names "." and ".."
  Text,           \* what echo can write
  Image,          \* shipped file data
  NoText,         \* a sector written as a directory
  End, Deleted,   \* first byte 0x00, 0xE5
  Alien,          \* a slot that matches no name: long name, file data
  EndOfChain,
  MaxCalls,       \* bound: commands that change something, and crashes
  MaxTimeouts     \* bound: sector writes that fail

Name == PaddedName \cup TxtName \cup {Dot, DotDot}
Slot == 1 .. Slots
EchoSize == 226        \* sizeof(arg2): echo always writes the whole buffer
SectorSize == 512

Entry == [name : Name \cup {End, Deleted, Alien}, dir : BOOLEAN,
          cluster : Cluster, size : Nat]
Sector == [text : Text \cup {Image, NoText}, slot : [Slot -> Entry]]

EndEntry == [name |-> End, dir |-> FALSE, cluster |-> 0, size |-> 0]
AlienEntry == [EndEntry EXCEPT !.name = Alien]

\* Word 0 of the FAT is the media type, which reads as an end of chain; the
\* sector that stands for cluster 0 is zeros, and word 0 of the boot sector,
\* where find_free_cluster would look it up, is not 0.
ASSUME VolumeAssumption ==
  /\ Cluster \subseteq Nat /\ IsFiniteSet(Cluster) /\ 0 \in Cluster
  /\ Root \in Cluster \ {0} /\ Free \subseteq Cluster \ {0}
  /\ Fat[0] = EndOfChain
  /\ \A i \in Slot : ShippedDisk[0].slot[i] = EndEntry
  /\ Fat \in [Cluster -> Cluster \cup {EndOfChain}]
  /\ EndOfChain \notin Cluster
  /\ Slots \in Nat /\ Slots >= 2
  /\ ShippedDisk \in [Cluster -> Sector]
  /\ {End, Deleted, Alien} \cap Name = {} /\ {Dot, DotDot} \cap TxtName = {}
  /\ Alien \notin {End, Deleted}
  /\ MaxCalls \in Nat /\ MaxTimeouts \in Nat

VARIABLES
  taken,       \* clusters whose word in the reserved sectors is not 0
  disk,        \* the data sectors
  cwd,         \* current_directory_cluster
  pc,          \* how far the running command has come
  op,          \* its local variables
  lost,        \* history: clusters for which create_entry lost a write
  calls,       \* commands so far (bounded by MaxCalls)
  timeouts     \* writes that failed so far (bounded by MaxTimeouts)

vars == <<taken, disk, cwd, pc, op, lost, calls, timeouts>>

NoOp == [sector |-> Root, buffer |-> ShippedDisk[Root], cluster |-> 0,
         dir |-> FALSE, name |-> Dot]

Live(e) == e.name \in Name

\* The slots of a disk that link a file or a directory into the tree.
LinksOn(sectors) ==
  {x \in Cluster \X Slot :
     LET e == sectors[x[1]].slot[x[2]] IN Live(e) /\ e.name \notin {Dot, DotDot}}

\* What mkfs and its like leave behind: every file and directory has clusters
\* of its own, which do not read as free, and only ".." can say 0.
ASSUME ShippedAssumption ==
  LET At0(x) == ShippedDisk[x[1]].slot[x[2]]
  IN  /\ \A x \in LinksOn(ShippedDisk) : At0(x).cluster \in Cluster \ Free
      /\ \A x, y \in LinksOn(ShippedDisk) :
           At0(x).cluster = At0(y).cluster => x = y
      /\ \A x \in Cluster \X Slot :
           Live(At0(x)) /\ At0(x).name # DotDot => At0(x).cluster # 0

\* No directory begins or continues in a cluster that reads as free: such a
\* cluster holds no entries, and if a chain comes by it, a file's data.
ASSUME FreeAssumption ==
  /\ Root \notin Free
  /\ \A c \in Cluster, i \in Slot :
       LET e == ShippedDisk[c].slot[i]
       IN  Live(e) => {c, e.cluster} \cap Free = {}
  /\ \A c \in Cluster, i \in Slot :
       Fat[c] \in Free => ShippedDisk[Fat[c]].slot[i].name = Alien

Init ==
  /\ taken = Cluster \ Free
  /\ disk = ShippedDisk
  /\ cwd = Root
  /\ pc = "idle" /\ op = NoOp
  /\ lost = {} /\ calls = 0 /\ timeouts = 0

-----------------------------------------------------------------------------
(* Disk::write_sector: the sector is on the disk when it returns, or the   *)
(* call timed out and nothing was written.  When the drive refuses the     *)
(* data nothing is written either, but the call reports success.           *)

WriteSector(c, sector) ==
  disk' = [disk EXCEPT ![c] = sector] /\ UNCHANGED timeouts
WriteTimesOut ==
  /\ timeouts < MaxTimeouts /\ timeouts' = timeouts + 1
  /\ UNCHANGED disk

\* A write of create_entry, which does not look at what write_sector returns.
WriteUnchecked(c, sector) ==
  \/ WriteSector(c, sector) /\ UNCHANGED lost
  \/ WriteTimesOut /\ lost' = lost \cup {op.cluster}

-----------------------------------------------------------------------------
(* Scanning a directory.  Every lookup walks the slots of a chain in order *)
(* and gives up at the first End.                                          *)

\* get_next_cluster, up to the end of the chain.
Chain[c \in Cluster \cup {EndOfChain}] ==
  IF c = EndOfChain THEN <<>> ELSE <<c>> \o Chain[Fat[c]]

\* No chain of the FAT loops, so each is what its definition says.
ASSUME ChainAssumption ==
  /\ Chain \in [Cluster \cup {EndOfChain} -> Seq(Cluster)]
  /\ Chain[EndOfChain] = <<>>
  /\ \A c \in Cluster : Chain[c] = <<c>> \o Chain[Fat[c]]

\* The FAT of a volume whose files were copied to it one after another: chains
\* run upwards and never meet, and entries lead to where chains begin.  A
\* directory was made before what is in it, and no chain that begins in a free
\* cluster comes by a directory.
Continued == {Fat[c] : c \in Cluster} \ {0}
ASSUME CopiedAssumption ==
  /\ \A c \in Cluster : Fat[c] \in Cluster \ {0} => c < Fat[c]
  /\ \A b, c \in Cluster : Fat[b] = Fat[c] /\ Fat[c] \in Cluster \ {0} => b = c
  /\ Root \notin Continued
  /\ \A c \in Cluster, i \in Slot :
       LET e == ShippedDisk[c].slot[i] IN Live(e) => e.cluster \notin Continued
  /\ \A x \in LinksOn(ShippedDisk), c \in Cluster :
       (\E i \in DOMAIN Chain[c] : Chain[c][i] = x[1])
         => c \notin Free /\ c < ShippedDisk[x[1]].slot[x[2]].cluster

\* A cell <<s, i>> is slot i of sector s; a scan of a directory visits the
\* cells of its chain in order.
At(x) == disk[x[1]].slot[x[2]]
Scan(c) ==
  LET chain == Chain[c]
  IN  [k \in 1 .. Slots * Len(chain) |->
         <<chain[(k - 1) \div Slots + 1], ((k - 1) % Slots) + 1>>]

\* The first cell of directory c whose entry satisfies P, as a set.
First(c, P(_)) ==
  LET scan == Scan(c)
      stops == {k \in DOMAIN scan : At(scan[k]).name = End \/ P(At(scan[k]))}
  IN  {x \in {scan[k] : k \in {j \in stops : \A i \in stops : j <= i}} : P(At(x))}

Find(c, n) == LET Named(e) == e.name = n IN First(c, Named)
FindDir(c, n) == LET NamedDir(e) == e.name = n /\ e.dir IN First(c, NamedDir)

\* find_free_directory_entry.
\* Mutant of FreeSlots: the search starts at the end of the sector.
FreeSlotsLast(sector) ==
  LET free == {i \in Slot : sector.slot[i].name \in {End, Deleted}}
  IN  {i \in free : \A j \in free : j <= i}
FreeSlots(sector) == {i \in Slot : sector.slot[i].name \in {End, Deleted}}

-----------------------------------------------------------------------------
(* create_entry (touch, mkdir): the slot, then the cluster, are chosen     *)
(* from what is on the disk; the writes follow one by one.  The slot's     *)
(* file_size is not touched.                                               *)

Filled(sector, i, n, isDir, c) ==
  [sector EXCEPT !.text = NoText,
                 !.slot[i] = [@ EXCEPT !.name = n, !.dir = isDir, !.cluster = c]]

\* Mutant of CreateIn: the cluster is not marked as taken.
CreateUnmarked(s, n, isDir) ==
  /\ Cluster \ taken # {}
  /\ LET c == Min(Cluster \ taken)
         i == Min(FreeSlots(disk[s]))
     IN  op' = [sector |-> s, buffer |-> Filled(disk[s], i, n, isDir, c),
                cluster |-> c, dir |-> isDir, name |-> n]
  /\ pc' = IF isDir THEN "dots" ELSE "link"

CreateIn(s, n, isDir) ==
  /\ Cluster \ taken # {}
  /\ LET c == Min(Cluster \ taken)
         i == Min(FreeSlots(disk[s]))
     IN  op' = [sector |-> s, buffer |-> Filled(disk[s], i, n, isDir, c),
                cluster |-> c, dir |-> isDir, name |-> n]
  /\ pc' = "fat"

\* When the first sector is full only the one after it is tried; the loop
\* comes back to that one for ever.
Create(n, isDir) ==
  /\ pc = "idle" /\ calls < MaxCalls
  /\ IF FreeSlots(disk[cwd]) # {} THEN CreateIn(cwd, n, isDir)
     ELSE /\ Fat[cwd] # EndOfChain
          /\ IF FreeSlots(disk[Fat[cwd]]) # {}
             THEN CreateIn(Fat[cwd], n, isDir)
             ELSE pc' = "hung" /\ UNCHANGED op
  /\ calls' = calls + 1
  /\ UNCHANGED <<taken, disk, cwd, lost, timeouts>>

Touch(n) == n \in TxtName /\ Create(n, FALSE)
Mkdir(n) == Create(n, TRUE)

\* Mutants of MarkCluster: the word after the cluster's own is set; a new
\* directory is linked without its own sector.
MarkNext ==
  /\ pc = "fat"
  /\ taken' = taken \cup ({op.cluster + 1} \cap Cluster)
  /\ pc' = IF op.dir THEN "dots" ELSE "link"
  /\ UNCHANGED <<disk, cwd, op, lost, calls, timeouts>>
MarkAndLink ==
  /\ pc = "fat"
  /\ taken' = taken \cup {op.cluster}
  /\ pc' = "link"
  /\ UNCHANGED <<disk, cwd, op, lost, calls, timeouts>>

\* write_fat_entry ignores what write_sector returns.
MarkCluster ==
  /\ pc = "fat"
  /\ \/ taken' = taken \cup {op.cluster} /\ UNCHANGED <<disk, lost, timeouts>>
     \/ WriteTimesOut /\ lost' = lost \cup {op.cluster} /\ UNCHANGED taken
  /\ pc' = IF op.dir THEN "dots" ELSE "link"
  /\ UNCHANGED <<cwd, op, calls>>

\* The new directory's own sector.
DotsSector ==
  LET dot == [name |-> Dot, dir |-> TRUE, cluster |-> op.cluster, size |-> 0]
      dotdot == [dot EXCEPT !.name = DotDot, !.cluster = cwd]
  IN  [text |-> NoText,
       slot |-> [i \in Slot |-> IF i = 1 THEN dot
                                ELSE IF i = 2 THEN dotdot ELSE EndEntry]]

WriteDots ==
  /\ pc = "dots"
  /\ WriteUnchecked(op.cluster, DotsSector)
  /\ pc' = "link"
  /\ UNCHANGED <<taken, cwd, op, calls>>

LinkEntry ==
  /\ pc = "link"
  /\ WriteUnchecked(op.sector, op.buffer)
  /\ pc' = "idle" /\ op' = NoOp
  /\ UNCHANGED <<taken, cwd, calls>>

-----------------------------------------------------------------------------
(* delete_entry (rm, rmdir) marks the first entry of that name, whatever   *)
(* it is.  Its clusters stay taken.                                        *)

Delete(n) ==
  /\ pc = "idle" /\ calls < MaxCalls
  /\ \E x \in Find(cwd, n) :
       \/ WriteSector(x[1], [disk[x[1]] EXCEPT !.slot[x[2]].name = Deleted])
       \/ WriteTimesOut
  /\ calls' = calls + 1
  /\ UNCHANGED <<taken, cwd, pc, op, lost>>

-----------------------------------------------------------------------------
(* overwrite_file (echo): the data goes to the first cluster of the first  *)
(* entry of that name, whatever it is; then update_file_size looks the     *)
(* name up again.                                                          *)

TextSector(t) ==
  [text |-> t, slot |-> [i \in Slot |-> IF i = 1 THEN AlienEntry ELSE EndEntry]]

Echo(n, t) ==
  /\ pc = "idle" /\ calls < MaxCalls
  /\ \E x \in Find(cwd, n) :
       LET c == At(x).cluster
           GoOn == pc' = "size" /\ op' = [NoOp EXCEPT !.cluster = c, !.name = n]
       IN  \/ WriteSector(c, TextSector(t)) /\ GoOn
           \/ WriteTimesOut /\ (UNCHANGED <<pc, op>> \/ GoOn)
  /\ calls' = calls + 1
  /\ UNCHANGED <<taken, cwd, lost>>

UpdateFileSize ==
  /\ pc = "size"
  /\ \/ \E x \in Find(cwd, op.name) :
          WriteSector(x[1], [disk[x[1]] EXCEPT !.slot[x[2]].size = EchoSize])
     \/ WriteTimesOut
     \/ Find(cwd, op.name) = {} /\ UNCHANGED <<disk, timeouts>>
  /\ pc' = "idle" /\ op' = NoOp
  /\ UNCHANGED <<taken, cwd, lost, calls>>

-----------------------------------------------------------------------------
(* cd and cd_up; "cd .." is always cd_up.                                  *)

Cd(n) ==
  /\ pc = "idle" /\ calls < MaxCalls
  /\ n # DotDot
  /\ \E x \in FindDir(cwd, n) : cwd' = At(x).cluster
  /\ cwd' # cwd
  /\ calls' = calls + 1
  /\ UNCHANGED <<taken, disk, pc, op, lost, timeouts>>

\* Mutant of CdUp: cluster 0 is not taken for the root directory.
CdUpZero ==
  /\ pc = "idle" /\ calls < MaxCalls
  /\ cwd # Root
  /\ \E x \in Find(cwd, DotDot) : cwd' = At(x).cluster
  /\ calls' = calls + 1
  /\ UNCHANGED <<taken, disk, pc, op, lost, timeouts>>

CdUp ==
  /\ pc = "idle" /\ calls < MaxCalls
  /\ cwd # Root
  /\ \E x \in Find(cwd, DotDot) :
       cwd' = IF At(x).cluster = 0 THEN Root ELSE At(x).cluster
  /\ calls' = calls + 1
  /\ UNCHANGED <<taken, disk, pc, op, lost, timeouts>>

\* Power failure or reset, also of a machine that hangs; then mount.
Crash ==
  /\ calls < MaxCalls
  /\ pc # "idle" \/ cwd # Root
  /\ pc' = "idle" /\ op' = NoOp
  /\ cwd' = Root
  /\ calls' = calls + 1
  /\ UNCHANGED <<taken, disk, lost, timeouts>>

-----------------------------------------------------------------------------
(* The commands that only read: what ls, cat and the prompt show.          *)

\* The cells a scan of directory c comes by, up to the first End.
Seen(c) ==
  LET scan == Scan(c)
      ends == {k \in DOMAIN scan : At(scan[k]).name = End}
  IN  {scan[k] : k \in {j \in DOMAIN scan : \A e \in ends : j < e}}

\* ls
Listed == {At(x).name : x \in {y \in Seen(cwd) : Live(At(y))}}

\* read_file (cat): the sectors of the chain, as many as the size asks for.
Shown(n) ==
  UNION {LET chain == Chain[At(x).cluster]
             sectors == (At(x).size + SectorSize - 1) \div SectorSize
         IN  {disk[chain[k]].text : k \in 1 .. Min({sectors, Len(chain)})}
           : x \in Find(cwd, n)}

\* Mutant of SubEntries: "." and ".." are looked at too.
SubEntriesAll(c) ==
  {k \in DOMAIN Scan(c) : LET x == Scan(c)[k]
     IN  /\ Live(At(x))
         /\ \A i \in 1 .. x[2] : disk[x[1]].slot[i].name # End}
\* Where in its scan find_directory_name looks at entries of directory c.  An
\* End ends the sector here, not the directory.
SubEntries(c) ==
  {k \in DOMAIN Scan(c) : LET x == Scan(c)[k]
     IN  /\ Live(At(x)) /\ At(x).name \notin {Dot, DotDot}
         /\ \A i \in 1 .. x[2] : disk[x[1]].slot[i].name # End}

\* find_directory_name, to a depth of n: the name of the first entry that leads
\* to the current directory, in the order of the recursion; "none"; or
\* "endless".  A recursion deeper than there are clusters is in one of them for
\* the second time and never ends.
NameBelow[n \in 0 .. Cardinality(Cluster) + 1] ==
  [c \in Cluster |->
    IF n = 0 THEN "endless"
    ELSE LET Leads(e) == e.dir /\ e.cluster = cwd
             Below(e) == IF e.dir /\ e.cluster # 0 THEN NameBelow[n - 1][e.cluster]
                                                  ELSE "none"
             EntryAt(k) == At(Scan(c)[k])
             hits == {k \in SubEntries(c) :
                        Leads(EntryAt(k)) \/ Below(EntryAt(k)) # "none"}
         IN  IF hits = {} THEN "none"
             ELSE LET e == EntryAt(Min(hits))
                  IN  IF Leads(e) THEN "found" ELSE Below(e)]

\* get_current_directory, printed after every command.
Prompt == IF cwd = Root THEN "found"
                        ELSE NameBelow[Cardinality(Cluster) + 1][Root]

-----------------------------------------------------------------------------
Next ==
  \/ \E n \in TxtName : Touch(n)
  \/ \E n \in Name : Mkdir(n) \/ Delete(n) \/ Cd(n)
  \/ \E n \in TxtName, t \in Text : Echo(n, t)
  \/ MarkCluster \/ WriteDots \/ LinkEntry \/ UpdateFileSize
  \/ CdUp \/ Crash

Spec == Init /\ [][Next]_vars

-----------------------------------------------------------------------------
(* Properties.                                                             *)

\* Types.
TypeOK ==
  /\ taken \subseteq Cluster
  /\ disk \in [Cluster -> Sector]
  /\ cwd \in Cluster \ {0}
  /\ pc \in {"idle", "fat", "dots", "link", "size", "hung"}
  /\ op \in [sector : Cluster, buffer : Sector, cluster : Cluster,
             dir : BOOLEAN, name : Name]
  /\ lost \subseteq Cluster
  /\ calls \in 0 .. MaxCalls /\ timeouts \in 0 .. MaxTimeouts

\* The slots that link a file or a directory into the tree.
Links == LinksOn(disk)

\* No two entries share a cluster, whatever was created, deleted and created
\* again, with power failures between any two writes.  The one way to share a
\* cluster is a write of create_entry that timed out for it.
OneEntryPerCluster ==
  \A x, y \in Links : x # y /\ At(x).cluster = At(y).cluster
                        => At(x).cluster \in lost

\* Crash consistency of create_entry: an entry that is on the disk has a
\* cluster that find_free_cluster will not give to another one.
LinkedClustersTaken ==
  \A x \in Links : At(x).cluster \in taken \cup lost

\* Nothing was ever created in cluster 0.
ZeroUnused == \A i \in Slot : disk[0].slot[i].name = End

\* The prompt ends: the search for the current directory, through the whole
\* tree and past the End of its directories, never comes back to a directory
\* it is in.  No mix of mkdir, rmdir, rm, echo and power failures makes one
\* lead back to another above it, unless a write of create_entry failed and
\* two of them got the same cluster, or a full directory has gone on in
\* cluster 0: a directory created there, whose own chain goes on there too,
\* contains itself, and find_directory_name need not end.
PromptEnds == pc = "idle" /\ lost = {} /\ ZeroUnused => Prompt # "endless"

\* Crash consistency of mkdir: when an entry for a directory appears, the
\* directory's own sector is on the disk already.
DirWrittenBeforeLink ==
  [][\A x \in Links' \ Links :
       At(x).dir' => \/ disk[At(x).cluster'].slot[1].name = Dot
                     \/ At(x).cluster' \in lost]_vars

\* What a command has written is what the reading ones show next: the entry
\* just created is in the list, also when it fills a deleted slot or the last
\* one or one in cluster 0, and cat shows a file that was written to as the
\* one sector that echo writes and nothing else.  Writes that fail are excepted,
\* and for cat, names in cluster 0: an echo to a directory that contains itself
\* there overwrites the way to its own entry.
CommandsShow ==
  [][timeouts' = timeouts /\ lost = {} =>
       /\ pc = "link" /\ calls' = calls => \A n \in {op.name} : n \in Listed'
       /\ pc = "size" /\ calls' = calls /\ ZeroUnused =>
            \A n \in {op.name}, c \in {op.cluster} :
              Shown(n)' = {disk[c].text}]_vars

\* README.md says "a fully functioning FAT32 filesytem", and find_free_cluster
\* answers "Found free cluster": data that the image ships is never written
\* over except by an echo to its file.
ShippedDataSurvives ==
  [][\A c \in Cluster : disk[c].text = Image /\ disk'[c].text # Image
       => pc' = "size"]_vars

\* The text of a file changes only by echo: creating entries leaves the data
\* of other files alone.
TextSurvives ==
  [][\A x \in Links : LET c == At(x).cluster
     IN  ~At(x).dir /\ disk[c].text \in Text /\ disk'[c].text # disk[c].text
           => pc' = "size"]_vars
=============================================================================
