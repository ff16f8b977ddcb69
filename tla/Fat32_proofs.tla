---------------------------- MODULE Fat32_proofs ----------------------------
(***************************************************************************)
(* Theorems about Fat32, for every volume, every number of slots, commands *)
(* and crashes, and any writes that fail.                                  *)
(***************************************************************************)
EXTENDS Fat32, FiniteSetTheorems, SequenceTheorems, WellFoundedInduction, TLAPS

Cells == Cluster \X Slot
EntryOn(d, x) == d[x[1]].slot[x[2]]
ClusterOn(d, x) == EntryOn(d, x).cluster

\* The slots of d link clusters that are marked; two slots that link the same
\* cluster share one that lost a write; only ".." leads to cluster 0.
SoundDisk(d, marked, shared) ==
  /\ \A x \in LinksOn(d) : ClusterOn(d, x) \in marked
  /\ \A x, y \in LinksOn(d) : x # y /\ ClusterOn(d, x) = ClusterOn(d, y)
                                => ClusterOn(d, x) \in shared
  /\ \A x \in Cells : LET e == EntryOn(d, x)
                      IN  Live(e) /\ e.name # DotDot => e.cluster # 0

\* What create_entry is going to write is as sound as what it leaves behind
\* when the power fails first.  Only the mark of the new cluster may be
\* missing, as long as it is not yet written.
Creating == pc \in {"fat", "dots", "link"}
Planned == [disk EXCEPT ![op.sector] = op.buffer]

Taken == taken \cup lost
TakenNext == taken \cup lost \cup {op.cluster}

DiskInv ==
  /\ TypeOK
  /\ SoundDisk(disk, Taken, lost)
  /\ pc = "fat" => SoundDisk(Planned, TakenNext, lost)
  /\ pc \in {"dots", "link"} => SoundDisk(Planned, Taken, lost)
  /\ 0 \in taken
  /\ Creating => op.cluster \in Cluster \ {0}

-----------------------------------------------------------------------------
(* The least free cluster and the first free slot.                         *)

LEMMA Least ==
  ASSUME NEW S, S \subseteq Nat, S # {}
  PROVE  Min(S) \in S
<1> DEFINE R == OpToRel(<, Nat)
<1>1. IsWellFoundedOn(R, Nat)
  BY NatLessThanWellFounded
<1>2. \A m, n \in Nat : m < n => <<m, n>> \in R
  BY DEF OpToRel
<1> HIDE DEF R
<1>3. PICK m \in S : \A n \in S : ~ (<<n, m>> \in R)
  BY <1>1, WFMin
<1>4. \A n \in S : m =< n
  <2> TAKE n \in S
  <2>1. m \in Nat /\ n \in Nat
    OBVIOUS
  <2>2. ~ (n < m)
    BY <1>2, <1>3, <2>1
  <2> QED
    BY <2>1, <2>2
<1> QED
  BY <1>3, <1>4 DEF Min

\* A scan of a directory stays on the volume.
LEMMA ScanCells ==
  ASSUME NEW c \in Cluster, NEW k \in DOMAIN Scan(c)
  PROVE  Scan(c)[k] \in Cells
<1> DEFINE chain == Chain[c]
           q == (k - 1) \div Slots
<1>1. chain \in Seq(Cluster)
  BY ChainAssumption
<1>2. Slots \in Nat /\ Slots >= 2
  BY VolumeAssumption
<1>3. Len(chain) \in Nat
  BY <1>1
<1> HIDE DEF chain
<1>4. k \in 1 .. Slots * Len(chain)
  BY DEF Scan, chain
<1>5. q \in Nat /\ q * Slots <= k - 1
  BY <1>2, <1>3, <1>4
<1>6. q < Len(chain)
  <2>1. ASSUME q >= Len(chain) PROVE FALSE
    <3>1. q * Slots >= Len(chain) * Slots
      BY <1>2, <1>3, <1>5, <2>1
    <3> QED
      BY <3>1, <1>2, <1>3, <1>4, <1>5
  <2> QED
    BY <2>1, <1>3, <1>5
<1>7. (k - 1) % Slots \in 0 .. Slots - 1
  BY <1>2, <1>3, <1>4
<1>8. ((k - 1) % Slots) + 1 \in Slot
  BY <1>2, <1>7 DEF Slot
<1>9. chain[q + 1] \in Cluster
  BY <1>1, <1>3, <1>5, <1>6
<1>10. Scan(c)[k] = <<chain[q + 1], ((k - 1) % Slots) + 1>>
  BY <1>4 DEF Scan, chain
<1> QED
  BY <1>8, <1>9, <1>10 DEF Cells

LEMMA FindCells ==
  ASSUME NEW c \in Cluster, NEW n
  PROVE  /\ \A x \in Find(c, n) : x \in Cells /\ At(x).name = n
         /\ \A x \in FindDir(c, n) : x \in Cells /\ At(x).name = n /\ At(x).dir
<1>1. \A x \in Find(c, n) : x \in Cells /\ At(x).name = n
  BY ScanCells DEF Find, First
<1>2. \A x \in FindDir(c, n) : x \in Cells /\ At(x).name = n /\ At(x).dir
  BY ScanCells DEF FindDir, First
<1> QED
  BY <1>1, <1>2

-----------------------------------------------------------------------------
(* How a write changes the soundness of a disk.                            *)

\* A disk with fewer links.
LEMMA FewerLinks ==
  ASSUME NEW d, NEW e, NEW m, NEW s, NEW m2, NEW s2,
         SoundDisk(d, m, s), m \subseteq m2, s \subseteq s2,
         \A x \in LinksOn(e) : x \in LinksOn(d) /\ ClusterOn(e, x) = ClusterOn(d, x),
         \A x \in Cells : LET f == EntryOn(e, x)
                          IN  Live(f) /\ f.name # DotDot => f.cluster # 0
  PROVE  SoundDisk(e, m2, s2)
BY DEF SoundDisk

\* A disk with one more link, to a cluster that is not marked or shared already.
LEMMA OneMoreLink ==
  ASSUME NEW d, NEW e, NEW m, NEW s, NEW z, NEW c,
         SoundDisk(d, m, s), c \in m => c \in s,
         \A x \in LinksOn(e) : \/ x = z /\ ClusterOn(e, x) = c
                               \/ x \in LinksOn(d) /\ ClusterOn(e, x) = ClusterOn(d, x),
         \A x \in Cells : LET f == EntryOn(e, x)
                          IN  Live(f) /\ f.name # DotDot => f.cluster # 0
  PROVE  SoundDisk(e, m \cup {c}, s)
<1>1. \A x \in LinksOn(e) : ClusterOn(e, x) \in m \cup {c}
  BY DEF SoundDisk
<1>2. ASSUME NEW x \in LinksOn(e), NEW y \in LinksOn(e), x # y,
             ClusterOn(e, x) = ClusterOn(e, y)
      PROVE  ClusterOn(e, x) \in s
  <2>1. CASE x = z \/ y = z
    BY <1>2, <2>1 DEF SoundDisk
  <2>2. CASE x # z /\ y # z
    BY <1>2, <2>2 DEF SoundDisk
  <2> QED
    BY <2>1, <2>2
<1> QED
  BY <1>1, <1>2 DEF SoundDisk

\* A sector whose slots link nothing is written.
LEMMA BlankSector ==
  ASSUME NEW d \in [Cluster -> Sector], NEW c, NEW v, NEW m, NEW s,
         NEW m2, NEW s2, SoundDisk(d, m, s), m \subseteq m2, s \subseteq s2,
         \A i \in Slot : LET f == v.slot[i]
                         IN  /\ Live(f) => f.name \in {Dot, DotDot}
                             /\ Live(f) /\ f.name # DotDot => f.cluster # 0
  PROVE  SoundDisk([d EXCEPT ![c] = v], m2, s2)
<1> DEFINE e == [d EXCEPT ![c] = v]
<1>1. \A x \in Cells : \/ x[1] = c /\ EntryOn(e, x) = v.slot[x[2]]
                       \/ x[1] # c /\ EntryOn(e, x) = EntryOn(d, x)
  BY DEF Cells, EntryOn
<1>2. \A x \in LinksOn(e) : x \in LinksOn(d) /\ ClusterOn(e, x) = ClusterOn(d, x)
  BY <1>1 DEF LinksOn, ClusterOn, EntryOn, Cells
<1>3. \A x \in Cells : LET f == EntryOn(e, x)
                       IN  Live(f) /\ f.name # DotDot => f.cluster # 0
  BY <1>1 DEF SoundDisk, Cells
<1> HIDE DEF e
<1>4. SoundDisk(e, m2, s2)
  BY <1>2, <1>3, FewerLinks
<1> QED
  BY <1>4 DEF e

-----------------------------------------------------------------------------
(* The sectors and entries that commands write.                            *)

LEMMA Entries ==
  /\ EndEntry \in Entry /\ ~Live(EndEntry)
  /\ AlienEntry \in Entry /\ ~Live(AlienEntry)
BY VolumeAssumption DEF Entry, EndEntry, AlienEntry, Live, Name

LEMMA FilledSector ==
  ASSUME NEW v \in Sector, NEW i \in Slot, NEW n \in Name, NEW b \in BOOLEAN,
         NEW c \in Cluster
  PROVE  LET f == Filled(v, i, n, b, c)
         IN  /\ f \in Sector
             /\ \A j \in Slot : j # i => f.slot[j] = v.slot[j]
             /\ f.slot[i].name = n /\ f.slot[i].dir = b /\ f.slot[i].cluster = c
<1> DEFINE new == [v.slot[i] EXCEPT !.name = n, !.dir = b, !.cluster = c]
<1>1. v.slot \in [Slot -> Entry] /\ v.slot[i] \in Entry
  BY DEF Sector
<1>2. new \in Entry /\ new.name = n /\ new.dir = b /\ new.cluster = c
  BY <1>1 DEF Entry
<1>3. Filled(v, i, n, b, c) = [v EXCEPT !.text = NoText, !.slot = [@ EXCEPT ![i] = new]]
  BY DEF Filled
<1>4. [v.slot EXCEPT ![i] = new] \in [Slot -> Entry]
  BY <1>1, <1>2
<1> HIDE DEF new
<1>5. Filled(v, i, n, b, c).slot = [v.slot EXCEPT ![i] = new]
  BY <1>3 DEF Sector
<1>6. Filled(v, i, n, b, c) \in Sector
  BY <1>3, <1>4 DEF Sector
<1> QED
  BY <1>1, <1>2, <1>5, <1>6

LEMMA DotsType ==
  ASSUME TypeOK, op.cluster \in Cluster \ {0}
  PROVE  /\ DotsSector \in Sector
         /\ \A i \in Slot : LET f == DotsSector.slot[i]
                            IN  /\ Live(f) => f.name \in {Dot, DotDot}
                                /\ Live(f) /\ f.name # DotDot => f.cluster # 0
<1> DEFINE dot == [name |-> Dot, dir |-> TRUE, cluster |-> op.cluster, size |-> 0]
           dotdot == [dot EXCEPT !.name = DotDot, !.cluster = cwd]
<1>1. op.cluster # 0
  OBVIOUS
<1>2. dot \in Entry /\ dotdot \in Entry
  BY DEF Entry, TypeOK, Name
<1>3. dot.name = Dot /\ dot.cluster # 0 /\ dotdot.name = DotDot
  BY <1>1
<1>4. DotsSector = [text |-> NoText,
                    slot |-> [i \in Slot |-> IF i = 1 THEN dot
                                             ELSE IF i = 2 THEN dotdot ELSE EndEntry]]
  BY DEF DotsSector
<1> HIDE DEF dot, dotdot
<1>5. DotsSector \in Sector
  BY <1>2, <1>4, Entries DEF Sector
<1>6. \A i \in Slot : DotsSector.slot[i] \in {dot, dotdot, EndEntry}
  BY <1>4
<1> QED
  BY <1>3, <1>5, <1>6, Entries

LEMMA TextType ==
  ASSUME NEW t \in Text
  PROVE  TextSector(t) \in Sector /\ \A i \in Slot : ~Live(TextSector(t).slot[i])
<1>1. \A i \in Slot : TextSector(t).slot[i] \in {AlienEntry, EndEntry}
  BY DEF TextSector
<1> QED
  BY <1>1, Entries DEF TextSector, Sector

LEMMA NoOpType ==
  NoOp \in [sector : Cluster, buffer : Sector, cluster : Cluster,
            dir : BOOLEAN, name : Name]
BY VolumeAssumption DEF NoOp, Name

-----------------------------------------------------------------------------
LEMMA DiskInit == Init => DiskInv
<1> SUFFICES ASSUME Init PROVE DiskInv
  OBVIOUS
<1>1. TypeOK
  BY VolumeAssumption, NoOpType DEF Init, TypeOK
<1>2. SoundDisk(disk, Taken, lost)
  BY ShippedAssumption DEF Init, SoundDisk, Taken, ClusterOn, EntryOn, LinksOn, Cells
<1>3. 0 \in taken
  BY VolumeAssumption DEF Init
<1> QED
  BY <1>1, <1>2, <1>3 DEF Init, DiskInv, Creating

-----------------------------------------------------------------------------
(* create_entry chooses the slot and the cluster.                          *)

LEMMA CreateInKeeps ==
  ASSUME DiskInv, NEW c \in Cluster, NEW n \in Name, NEW b \in BOOLEAN,
         FreeSlots(disk[c]) # {}, CreateIn(c, n, b),
         UNCHANGED <<taken, disk, cwd, lost, timeouts>>, calls' \in 0 .. MaxCalls
  PROVE  DiskInv'
<1> DEFINE new == Min(Cluster \ taken)
           i == Min(FreeSlots(disk[c]))
           z == <<c, i>>
<1>1. new \in Cluster /\ new \notin taken
  <2>1. Cluster \ taken # {} /\ Cluster \ taken \subseteq Nat
    BY VolumeAssumption DEF CreateIn
  <2>2. Min(Cluster \ taken) \in Cluster \ taken
    BY <2>1, Least
  <2> QED
    BY <2>2
<1>2. i \in Slot
  BY Least DEF FreeSlots, Slot
<1>3. op' = [sector |-> c, buffer |-> Filled(disk[c], i, n, b, new),
             cluster |-> new, dir |-> b, name |-> n] /\ pc' = "fat"
  BY DEF CreateIn
<1>4. disk \in [Cluster -> Sector] /\ disk[c] \in Sector
  BY DEF DiskInv, TypeOK
<1> HIDE DEF new, i
<1> DEFINE f == Filled(disk[c], i, n, b, new)
<1>5. /\ f \in Sector
      /\ \A j \in Slot : j # i => f.slot[j] = disk[c].slot[j]
      /\ f.slot[i].name = n /\ f.slot[i].dir = b /\ f.slot[i].cluster = new
  BY <1>1, <1>2, <1>4, FilledSector
<1> HIDE DEF f
<1>6. op'.sector = c /\ op'.buffer = f /\ op'.cluster = new
  BY <1>3 DEF f
<1>7. TypeOK'
  BY <1>1, <1>3, <1>5, <1>6 DEF DiskInv, TypeOK, f
<1>8. Planned' = [disk EXCEPT ![c] = f]
  BY <1>6 DEF Planned
<1> DEFINE e == [disk EXCEPT ![c] = f]
<1>9. \A x \in Cells : \/ x = z /\ EntryOn(e, x) = f.slot[i]
                       \/ x # z /\ EntryOn(e, x) = EntryOn(disk, x)
  BY <1>4, <1>5 DEF Cells, EntryOn
<1>10. SoundDisk(e, Taken \cup {new}, lost)
  <2>1. \A x \in LinksOn(e) :
          \/ x = z /\ ClusterOn(e, x) = new
          \/ x \in LinksOn(disk) /\ ClusterOn(e, x) = ClusterOn(disk, x)
    BY <1>5, <1>9 DEF LinksOn, ClusterOn, EntryOn, Cells
  <2>2. new # 0
    BY <1>1 DEF DiskInv
  <2>3. \A x \in Cells : LET g == EntryOn(e, x)
                         IN  Live(g) /\ g.name # DotDot => g.cluster # 0
    BY <1>5, <1>9, <2>2 DEF DiskInv, SoundDisk
  <2>4. SoundDisk(disk, Taken, lost) /\ (new \in Taken => new \in lost)
    BY <1>1 DEF DiskInv, Taken
  <2> HIDE DEF e, z
  <2> QED
    BY <2>1, <2>3, <2>4, OneMoreLink
<1>11. TakenNext' = Taken \cup {new} /\ Taken' = Taken
  BY <1>6 DEF TakenNext, Taken
<1>12. 0 \in taken' /\ op'.cluster \in Cluster \ {0}
  BY <1>1, <1>6 DEF DiskInv
<1> QED
  BY <1>3, <1>7, <1>8, <1>10, <1>11, <1>12 DEF DiskInv, Creating

-----------------------------------------------------------------------------
(* delete_entry and update_file_size write one entry.                      *)

LEMMA EntryWritten ==
  ASSUME NEW d \in [Cluster -> Sector], NEW x \in Cells, NEW w \in Entry,
         NEW m, NEW s, SoundDisk(d, m, s),
         Live(w) => w.name = EntryOn(d, x).name,
         w.dir = EntryOn(d, x).dir, w.cluster = EntryOn(d, x).cluster
  PROVE  LET e == [d EXCEPT ![x[1]] =
                     [d[x[1]] EXCEPT !.slot = [d[x[1]].slot EXCEPT ![x[2]] = w]]]
         IN  e \in [Cluster -> Sector] /\ SoundDisk(e, m, s)
<1> DEFINE slots == [d[x[1]].slot EXCEPT ![x[2]] = w]
           v == [d[x[1]] EXCEPT !.slot = slots]
           e == [d EXCEPT ![x[1]] = v]
<1>1. x[1] \in Cluster /\ x[2] \in Slot /\ d[x[1]] \in Sector
  BY DEF Cells
<1>2. slots \in [Slot -> Entry] /\ slots[x[2]] = w
      /\ \A j \in Slot : j # x[2] => slots[j] = d[x[1]].slot[j]
  BY <1>1 DEF Sector
<1> HIDE DEF slots
<1>3. v \in Sector /\ v.slot = slots
  BY <1>1, <1>2 DEF Sector
<1> HIDE DEF v
<1>4. e \in [Cluster -> Sector]
  BY <1>3
<1>5. \A y \in Cells : \/ y = x /\ EntryOn(e, y) = w
                       \/ y # x /\ EntryOn(e, y) = EntryOn(d, y)
  BY <1>1, <1>2, <1>3 DEF Cells, EntryOn
<1> HIDE DEF e
<1>6. ASSUME NEW y \in LinksOn(e)
      PROVE  y \in LinksOn(d) /\ ClusterOn(e, y) = ClusterOn(d, y)
  <2>1. y \in Cells /\ Live(EntryOn(e, y)) /\ EntryOn(e, y).name \notin {Dot, DotDot}
    BY DEF LinksOn, EntryOn, Cells
  <2>2. /\ Live(EntryOn(e, y)) <=> Live(EntryOn(d, y))
        /\ EntryOn(e, y).name = EntryOn(d, y).name
        /\ EntryOn(e, y).cluster = EntryOn(d, y).cluster
    BY <1>5, <2>1 DEF Live
  <2> QED
    BY <2>1, <2>2 DEF LinksOn, ClusterOn, EntryOn, Cells
<1>7. ASSUME NEW y \in Cells
      PROVE  LET g == EntryOn(e, y)
             IN  Live(g) /\ g.name # DotDot => g.cluster # 0
  <2>1. CASE y = x
    BY <1>5, <2>1 DEF SoundDisk, Live
  <2>2. CASE y # x
    BY <1>5, <2>2 DEF SoundDisk
  <2> QED
    BY <2>1, <2>2
<1>8. SoundDisk(e, m, s)
  BY <1>6, <1>7, FewerLinks
<1> QED
  BY <1>4, <1>8 DEF e, v, slots

\* A step that writes, or does not, while no entry is being created.
LEMMA IdleWrite ==
  ASSUME DiskInv, TypeOK', SoundDisk(disk', Taken, lost), ~Creating',
         UNCHANGED <<taken, lost>>
  PROVE  DiskInv'
BY DEF DiskInv, Taken, Creating

LEMMA DeleteKeeps ==
  ASSUME DiskInv, NEW n \in Name, Delete(n)
  PROVE  DiskInv'
<1>1. PICK x \in Find(cwd, n) :
        \/ WriteSector(x[1], [disk[x[1]] EXCEPT !.slot[x[2]].name = Deleted])
        \/ WriteTimesOut
  BY DEF Delete
<1>2. x \in Cells
  BY FindCells DEF DiskInv, TypeOK
<1>3. TypeOK /\ SoundDisk(disk, Taken, lost)
  BY DEF DiskInv
<1>4. calls' \in 0 .. MaxCalls /\ timeouts' \in 0 .. MaxTimeouts
  BY <1>1, <1>3, VolumeAssumption DEF Delete, TypeOK, WriteSector, WriteTimesOut
<1>5. disk' \in [Cluster -> Sector] /\ SoundDisk(disk', Taken, lost)
  <2>1. CASE WriteSector(x[1], [disk[x[1]] EXCEPT !.slot[x[2]].name = Deleted])
    <3> DEFINE w == [disk[x[1]].slot[x[2]] EXCEPT !.name = Deleted]
    <3>1. disk \in [Cluster -> Sector] /\ disk[x[1]].slot[x[2]] \in Entry
      BY <1>2, <1>3 DEF TypeOK, Cells, Sector
    <3>2. /\ w \in Entry /\ ~Live(w)
          /\ w.dir = EntryOn(disk, x).dir /\ w.cluster = EntryOn(disk, x).cluster
      BY <3>1, VolumeAssumption DEF Entry, Live, EntryOn
    <3>3. disk' = [disk EXCEPT ![x[1]] =
                     [disk[x[1]] EXCEPT !.slot = [disk[x[1]].slot EXCEPT ![x[2]] = w]]]
      BY <2>1 DEF WriteSector
    <3> HIDE DEF w
    <3> QED
      BY <1>2, <1>3, <3>1, <3>2, <3>3, EntryWritten
  <2>2. CASE WriteTimesOut
    BY <2>2, <1>3 DEF WriteTimesOut, TypeOK
  <2> QED
    BY <1>1, <2>1, <2>2
<1>6. TypeOK'
  BY <1>3, <1>4, <1>5 DEF TypeOK, Delete
<1> QED
  BY <1>5, <1>6, IdleWrite DEF Delete, Creating

LEMMA UpdateFileSizeKeeps ==
  ASSUME DiskInv, UpdateFileSize
  PROVE  DiskInv'
<1>1. TypeOK /\ SoundDisk(disk, Taken, lost)
  BY DEF DiskInv
<1>2. timeouts' \in 0 .. MaxTimeouts
  <2>1. timeouts' = timeouts \/ (timeouts < MaxTimeouts /\ timeouts' = timeouts + 1)
    BY DEF UpdateFileSize, WriteSector, WriteTimesOut
  <2> QED
    BY <1>1, <2>1, VolumeAssumption DEF TypeOK
<1>3. disk' \in [Cluster -> Sector] /\ SoundDisk(disk', Taken, lost)
  <2>1. ASSUME NEW x \in Find(cwd, op.name),
               WriteSector(x[1], [disk[x[1]] EXCEPT !.slot[x[2]].size = EchoSize])
        PROVE  disk' \in [Cluster -> Sector] /\ SoundDisk(disk', Taken, lost)
    <3> DEFINE w == [disk[x[1]].slot[x[2]] EXCEPT !.size = EchoSize]
    <3>1. x \in Cells
      BY <1>1, FindCells DEF TypeOK
    <3>2. disk \in [Cluster -> Sector] /\ disk[x[1]].slot[x[2]] \in Entry
      BY <1>1, <3>1 DEF TypeOK, Cells, Sector
    <3>3. /\ w \in Entry /\ w.name = EntryOn(disk, x).name
          /\ w.dir = EntryOn(disk, x).dir /\ w.cluster = EntryOn(disk, x).cluster
      BY <3>2 DEF Entry, EntryOn, EchoSize
    <3>4. disk' = [disk EXCEPT ![x[1]] =
                     [disk[x[1]] EXCEPT !.slot = [disk[x[1]].slot EXCEPT ![x[2]] = w]]]
      BY <2>1 DEF WriteSector
    <3> HIDE DEF w
    <3> QED
      BY <1>1, <3>1, <3>2, <3>3, <3>4, EntryWritten
  <2>2. CASE UNCHANGED disk
    BY <2>2, <1>1 DEF TypeOK
  <2> QED
    BY <2>1, <2>2 DEF UpdateFileSize, WriteTimesOut
<1>4. TypeOK'
  BY <1>1, <1>2, <1>3, NoOpType DEF TypeOK, UpdateFileSize
<1> QED
  BY <1>3, <1>4, IdleWrite DEF UpdateFileSize, Creating

\* echo goes on to update_file_size.
EchoGoesOn(n, c) == pc' = "size" /\ op' = [NoOp EXCEPT !.cluster = c, !.name = n]

LEMMA EchoKeeps ==
  ASSUME DiskInv, NEW n \in TxtName, NEW t \in Text, Echo(n, t)
  PROVE  DiskInv'
<1>1. TypeOK /\ SoundDisk(disk, Taken, lost)
  BY DEF DiskInv
<1>2. n \in Name
  BY DEF Name
<1>3. PICK x \in Find(cwd, n) :
        \/ WriteSector(At(x).cluster, TextSector(t)) /\ EchoGoesOn(n, At(x).cluster)
        \/ WriteTimesOut /\ (UNCHANGED <<pc, op>> \/ EchoGoesOn(n, At(x).cluster))
  BY DEF Echo, EchoGoesOn
<1>4. At(x).cluster \in Cluster
  <2>1. x \in Cells
    BY <1>1, FindCells DEF TypeOK
  <2> QED
    BY <1>1, <2>1 DEF TypeOK, Cells, Sector, Entry, At
<1>5. calls' \in 0 .. MaxCalls /\ timeouts' \in 0 .. MaxTimeouts
  BY <1>1, <1>3, VolumeAssumption DEF Echo, TypeOK, WriteSector, WriteTimesOut
<1>6. CASE WriteSector(At(x).cluster, TextSector(t)) /\ EchoGoesOn(n, At(x).cluster)
  <2>1. TextSector(t) \in Sector /\ \A i \in Slot : ~Live(TextSector(t).slot[i])
    BY TextType
  <2>2. disk' = [disk EXCEPT ![At(x).cluster] = TextSector(t)]
    BY <1>6 DEF WriteSector
  <2>3. disk' \in [Cluster -> Sector]
    BY <1>1, <2>1, <2>2 DEF TypeOK
  <2>4. SoundDisk(disk', Taken, lost)
    BY <1>1, <2>1, <2>2, BlankSector DEF TypeOK
  <2>5. op' \in [sector : Cluster, buffer : Sector, cluster : Cluster,
                 dir : BOOLEAN, name : Name]
    BY <1>2, <1>4, <1>6, NoOpType DEF EchoGoesOn
  <2>6. TypeOK'
    BY <1>1, <1>5, <1>6, <2>3, <2>5 DEF TypeOK, Echo, EchoGoesOn
  <2> QED
    BY <1>6, <2>4, <2>6, IdleWrite DEF Echo, Creating, EchoGoesOn
<1>7. CASE WriteTimesOut /\ (UNCHANGED <<pc, op>> \/ EchoGoesOn(n, At(x).cluster))
  <2>1. op' \in [sector : Cluster, buffer : Sector, cluster : Cluster,
                 dir : BOOLEAN, name : Name]
    BY <1>1, <1>2, <1>4, <1>7, NoOpType DEF EchoGoesOn, TypeOK
  <2>2. TypeOK'
    BY <1>1, <1>5, <1>7, <2>1 DEF TypeOK, Echo, WriteTimesOut, EchoGoesOn
  <2> QED
    BY <1>1, <1>7, <2>2, IdleWrite DEF Echo, Creating, WriteTimesOut, EchoGoesOn
<1> QED
  BY <1>3, <1>6, <1>7

-----------------------------------------------------------------------------
(* create_entry's three writes.                                            *)

LEMMA CreateKeeps ==
  ASSUME DiskInv, NEW n \in Name, NEW b \in BOOLEAN, Create(n, b)
  PROVE  DiskInv'
<1>1. TypeOK
  BY DEF DiskInv
<1>2. calls' \in 0 .. MaxCalls
  BY <1>1, VolumeAssumption DEF Create, TypeOK
<1>3. UNCHANGED <<taken, disk, cwd, lost, timeouts>>
  BY DEF Create
<1>4. CASE FreeSlots(disk[cwd]) # {}
  <2>1. CreateIn(cwd, n, b)
    BY <1>4 DEF Create
  <2> QED
    BY <1>1, <1>2, <1>3, <1>4, <2>1, CreateInKeeps DEF TypeOK
<1>5. CASE FreeSlots(disk[cwd]) = {}
  <2>1. Fat[cwd] \in Cluster
    BY <1>1, <1>5, VolumeAssumption DEF Create, TypeOK
  <2>2. CASE FreeSlots(disk[Fat[cwd]]) # {}
    <3>1. CreateIn(Fat[cwd], n, b)
      BY <1>5, <2>2 DEF Create
    <3> QED
      BY <1>2, <1>3, <2>1, <2>2, <3>1, CreateInKeeps
  <2>3. CASE FreeSlots(disk[Fat[cwd]]) = {}
    <3>1. pc' = "hung" /\ UNCHANGED op
      BY <1>5, <2>3 DEF Create
    <3> QED
      BY <1>1, <1>2, <1>3, <3>1, IdleWrite DEF DiskInv, TypeOK, Creating
  <2> QED
    BY <2>2, <2>3
<1> QED
  BY <1>4, <1>5

LEMMA MarkClusterKeeps ==
  ASSUME DiskInv, MarkCluster
  PROVE  DiskInv'
<1>1. TypeOK /\ SoundDisk(disk, Taken, lost) /\ SoundDisk(Planned, TakenNext, lost)
      /\ op.cluster \in Cluster \ {0} /\ 0 \in taken
  BY DEF DiskInv, MarkCluster, Creating
<1>2. Taken' = TakenNext /\ lost \subseteq lost' /\ Taken \subseteq Taken'
  BY DEF MarkCluster, Taken, TakenNext, WriteTimesOut
<1>3. UNCHANGED <<disk, op>> /\ pc' \in {"dots", "link"}
  BY DEF MarkCluster, WriteTimesOut
<1>4. timeouts' = timeouts \/ (timeouts < MaxTimeouts /\ timeouts' = timeouts + 1)
  BY DEF MarkCluster, WriteTimesOut
<1>5. TypeOK'
  <2>1. timeouts' \in 0 .. MaxTimeouts
    BY <1>1, <1>4, VolumeAssumption DEF TypeOK
  <2>2. taken' \subseteq Cluster /\ lost' \subseteq Cluster
    BY <1>1 DEF MarkCluster, WriteTimesOut, TypeOK
  <2> QED
    BY <1>1, <1>3, <2>1, <2>2 DEF TypeOK, MarkCluster
<1>6. SoundDisk(disk, Taken', lost')
  BY <1>1, <1>2, FewerLinks DEF SoundDisk
<1>7. SoundDisk(Planned, Taken', lost')
  BY <1>1, <1>2, FewerLinks DEF SoundDisk
<1>8. Planned' = Planned
  BY <1>3 DEF Planned
<1>9. 0 \in taken'
  BY <1>1 DEF MarkCluster
<1> QED
  BY <1>1, <1>3, <1>5, <1>6, <1>7, <1>8, <1>9 DEF DiskInv, Creating

LEMMA WriteDotsKeeps ==
  ASSUME DiskInv, WriteDots
  PROVE  DiskInv'
<1>1. TypeOK /\ SoundDisk(disk, Taken, lost) /\ SoundDisk(Planned, Taken, lost)
      /\ op.cluster \in Cluster \ {0} /\ 0 \in taken
  BY DEF DiskInv, WriteDots, Creating
<1>2. UNCHANGED <<taken, cwd, op, calls>> /\ pc' = "link"
  BY DEF WriteDots
<1>3. CASE WriteSector(op.cluster, DotsSector) /\ UNCHANGED lost
  <2>1. disk' = [disk EXCEPT ![op.cluster] = DotsSector] /\ UNCHANGED timeouts
    BY <1>3 DEF WriteSector
  <2>2. disk \in [Cluster -> Sector] /\ Planned \in [Cluster -> Sector]
    BY <1>1 DEF TypeOK, Planned
  <2>3. disk' \in [Cluster -> Sector]
    BY <1>1, <2>1, <2>2, DotsType
  <2>4. TypeOK'
    BY <1>1, <1>2, <1>3, <2>1, <2>3 DEF TypeOK
  <2>5. SoundDisk(disk', Taken, lost)
    BY <1>1, <2>1, <2>2, DotsType, BlankSector
  <2>6. SoundDisk(Planned', Taken, lost)
    <3>1. CASE op.cluster = op.sector
      <4>1. Planned' = Planned
        BY <1>1, <1>2, <2>1, <2>2, <3>1 DEF Planned, TypeOK
      <4> QED
        BY <1>1, <4>1
    <3>2. CASE op.cluster # op.sector
      <4>1. Planned' = [Planned EXCEPT ![op.cluster] = DotsSector]
        BY <1>1, <1>2, <2>1, <2>2, <3>2 DEF Planned, TypeOK
      <4> QED
        BY <1>1, <2>2, <4>1, DotsType, BlankSector
    <3> QED
      BY <3>1, <3>2
  <2> QED
    BY <1>1, <1>2, <1>3, <2>4, <2>5, <2>6 DEF DiskInv, Taken, Creating
<1>4. CASE WriteTimesOut /\ lost' = lost \cup {op.cluster}
  <2>1. TypeOK'
    <3>1. timeouts' \in 0 .. MaxTimeouts
      BY <1>1, <1>4, VolumeAssumption DEF TypeOK, WriteTimesOut
    <3> QED
      BY <1>1, <1>2, <1>4, <3>1 DEF TypeOK, WriteTimesOut
  <2>2. Taken \subseteq Taken' /\ lost \subseteq lost'
    BY <1>2, <1>4 DEF Taken
  <2>3. disk' = disk /\ Planned' = Planned
    BY <1>2, <1>4 DEF WriteTimesOut, Planned
  <2>4. SoundDisk(disk, Taken', lost') /\ SoundDisk(Planned, Taken', lost')
    BY <1>1, <2>2, FewerLinks DEF SoundDisk
  <2> QED
    BY <1>1, <1>2, <2>1, <2>3, <2>4 DEF DiskInv, Creating
<1> QED
  BY <1>3, <1>4 DEF WriteDots, WriteUnchecked

LEMMA LinkEntryKeeps ==
  ASSUME DiskInv, LinkEntry
  PROVE  DiskInv'
<1>1. TypeOK /\ SoundDisk(disk, Taken, lost) /\ SoundDisk(Planned, Taken, lost)
      /\ op.cluster \in Cluster \ {0} /\ 0 \in taken
  BY DEF DiskInv, LinkEntry, Creating
<1>2. UNCHANGED <<taken, cwd, calls>> /\ pc' = "idle" /\ op' = NoOp
  BY DEF LinkEntry
<1>3. CASE WriteSector(op.sector, op.buffer) /\ UNCHANGED lost
  <2>1. disk' = Planned /\ UNCHANGED timeouts
    BY <1>3 DEF WriteSector, Planned
  <2>2. Planned \in [Cluster -> Sector]
    BY <1>1 DEF TypeOK, Planned
  <2>3. TypeOK'
    BY <1>1, <1>2, <1>3, <2>1, <2>2, NoOpType DEF TypeOK
  <2> QED
    BY <1>1, <1>2, <1>3, <2>1, <2>3, IdleWrite DEF Creating
<1>4. CASE WriteTimesOut /\ lost' = lost \cup {op.cluster}
  <2>1. TypeOK'
    <3>1. timeouts' \in 0 .. MaxTimeouts
      BY <1>1, <1>4, VolumeAssumption DEF TypeOK, WriteTimesOut
    <3> QED
      BY <1>1, <1>2, <1>4, <3>1, NoOpType DEF TypeOK, WriteTimesOut
  <2>2. Taken \subseteq Taken' /\ lost \subseteq lost'
    BY <1>2, <1>4 DEF Taken
  <2>3. SoundDisk(disk', Taken', lost')
    BY <1>1, <1>4, <2>2, FewerLinks DEF SoundDisk, WriteTimesOut
  <2> QED
    BY <1>2, <2>1, <2>3 DEF DiskInv, Creating
<1> QED
  BY <1>3, <1>4 DEF LinkEntry, WriteUnchecked

-----------------------------------------------------------------------------
(* Moving around, and the power failing.                                   *)

LEMMA CdKeeps ==
  ASSUME DiskInv, NEW n \in Name, Cd(n)
  PROVE  DiskInv'
<1>1. TypeOK /\ SoundDisk(disk, Taken, lost)
  BY DEF DiskInv
<1>2. PICK x \in FindDir(cwd, n) : cwd' = At(x).cluster
  BY DEF Cd
<1>3. x \in Cells /\ At(x).name = n /\ At(x).dir
  BY <1>1, FindCells DEF TypeOK
<1>4. At(x).cluster \in Cluster \ {0}
  <2>1. At(x).cluster \in Cluster
    BY <1>1, <1>3 DEF TypeOK, Cells, Sector, Entry, At
  <2>2. At(x).cluster # 0
    BY <1>1, <1>3 DEF SoundDisk, EntryOn, At, Live, Cd
  <2> QED
    BY <2>1, <2>2
<1>5. calls' \in 0 .. MaxCalls
  BY <1>1, VolumeAssumption DEF Cd, TypeOK
<1>6. TypeOK'
  BY <1>1, <1>2, <1>4, <1>5 DEF TypeOK, Cd
<1> QED
  BY <1>1, <1>6, IdleWrite DEF Cd, Creating

LEMMA CdUpKeeps ==
  ASSUME DiskInv, CdUp
  PROVE  DiskInv'
<1>1. TypeOK /\ SoundDisk(disk, Taken, lost)
  BY DEF DiskInv
<1>2. PICK x \in Find(cwd, DotDot) :
        cwd' = IF At(x).cluster = 0 THEN Root ELSE At(x).cluster
  BY DEF CdUp
<1>3. At(x).cluster \in Cluster
  <2>1. x \in Cells
    BY <1>1, FindCells DEF TypeOK
  <2> QED
    BY <1>1, <2>1 DEF TypeOK, Cells, Sector, Entry, At
<1>4. cwd' \in Cluster \ {0}
  BY <1>2, <1>3, VolumeAssumption
<1>5. calls' \in 0 .. MaxCalls
  BY <1>1, VolumeAssumption DEF CdUp, TypeOK
<1>6. TypeOK'
  BY <1>1, <1>4, <1>5 DEF TypeOK, CdUp
<1> QED
  BY <1>1, <1>6, IdleWrite DEF CdUp, Creating

LEMMA CrashKeeps ==
  ASSUME DiskInv, Crash
  PROVE  DiskInv'
<1>1. TypeOK /\ SoundDisk(disk, Taken, lost)
  BY DEF DiskInv
<1>2. calls' \in 0 .. MaxCalls
  BY <1>1, VolumeAssumption DEF Crash, TypeOK
<1>3. TypeOK'
  BY <1>1, <1>2, NoOpType, VolumeAssumption DEF TypeOK, Crash
<1> QED
  BY <1>1, <1>3, IdleWrite DEF Crash, Creating

LEMMA DiskStep == DiskInv /\ [Next]_vars => DiskInv'
<1> SUFFICES ASSUME DiskInv, [Next]_vars PROVE DiskInv'
  OBVIOUS
<1>1. ASSUME NEW n \in TxtName, Touch(n) PROVE DiskInv'
  BY <1>1, CreateKeeps DEF Touch, Name
<1>2. ASSUME NEW n \in Name, Mkdir(n) PROVE DiskInv'
  BY <1>2, CreateKeeps DEF Mkdir
<1>3. ASSUME NEW n \in Name, Delete(n) \/ Cd(n) PROVE DiskInv'
  BY <1>3, DeleteKeeps, CdKeeps
<1>4. ASSUME NEW n \in TxtName, NEW t \in Text, Echo(n, t) PROVE DiskInv'
  BY <1>4, EchoKeeps
<1>5. CASE MarkCluster \/ WriteDots \/ LinkEntry \/ UpdateFileSize
  BY <1>5, MarkClusterKeeps, WriteDotsKeeps, LinkEntryKeeps, UpdateFileSizeKeeps
<1>6. CASE CdUp \/ Crash
  BY <1>6, CdUpKeeps, CrashKeeps
<1>7. CASE UNCHANGED vars
  <2>1. UNCHANGED <<taken, disk, cwd, pc, op, lost, calls, timeouts>>
    BY <1>7 DEF vars
  <2>2. TypeOK'
    BY <2>1 DEF DiskInv, TypeOK
  <2>3. Taken' = Taken /\ TakenNext' = TakenNext /\ Planned' = Planned
    BY <2>1 DEF Taken, TakenNext, Planned
  <2> QED
    BY <2>1, <2>2, <2>3 DEF DiskInv, Creating
<1> QED
  BY <1>1, <1>2, <1>3, <1>4, <1>5, <1>6, <1>7 DEF Next

-----------------------------------------------------------------------------
LEMMA DiskInvariant == Spec => []DiskInv
BY DiskInit, DiskStep, PTL DEF Spec

\* The state of the driver and of the disk has its types; in particular cd
\* never makes cluster 0 the current directory.
THEOREM FatTypes == Spec => []TypeOK
<1>1. DiskInv => TypeOK
  BY DEF DiskInv
<1> QED
  BY <1>1, DiskInvariant, PTL

\* No two entries share a cluster, whatever is created, deleted or written and
\* whenever the power fails, unless create_entry lost a write for it.
THEOREM ClustersNotShared == Spec => []OneEntryPerCluster
<1>1. DiskInv => OneEntryPerCluster
  BY DEF DiskInv, SoundDisk, OneEntryPerCluster, Links, ClusterOn, EntryOn, At
<1> QED
  BY <1>1, DiskInvariant, PTL

\* create_entry marks the cluster before it links it, so a power failure
\* between any two of its writes leaves no link to a cluster that is free.
THEOREM LinksAreTaken == Spec => []LinkedClustersTaken
<1>1. DiskInv => LinkedClustersTaken
  BY DEF DiskInv, SoundDisk, LinkedClustersTaken, Links, ClusterOn, EntryOn, At, Taken
<1> QED
  BY <1>1, DiskInvariant, PTL

-----------------------------------------------------------------------------
(***************************************************************************)
(* A new directory's own sector is written before the entry that links it. *)
(***************************************************************************)
IsLink(e) == Live(e) /\ e.name \notin {Dot, DotDot}

\* What sector c may hold, with the clusters of t marked and the marks of l
\* lost: entries for clusters of either; no entry at all while c itself is in
\* neither, nor a free slot if a chain comes by it; and if its own mark was
\* lost, links to c only.
SectorOK(c, v, t, l) ==
  /\ \A i \in Slot : Live(v.slot[i]) => v.slot[i].cluster \in t \cup l \cup {0}
  /\ c \notin t \cup l => \A i \in Slot : ~Live(v.slot[i])
  /\ c \notin t \cup l /\ c \in Continued =>
       \A i \in Slot : v.slot[i].name \notin {End, Deleted}
  /\ c \in l \ t => \A i \in Slot : IsLink(v.slot[i]) => v.slot[i].cluster = c

SectorsOK(d, t, l) == \A c \in Cluster : SectorOK(c, d[c], t, l)

\* A cluster whose mark was lost is the next one create_entry chooses.
LostIsNext == \A c \in lost \ taken : \A b \in Cluster \ taken : c <= b

\* The sector create_entry is going to write is the one on the disk with one
\* more entry; only if it is the new cluster itself, because its mark was lost,
\* the new directory's sector may have replaced it in between.
BufferOK ==
  /\ \A i \in Slot : Live(op.buffer.slot[i]) =>
       op.buffer.slot[i].cluster \in Taken \cup {0, op.cluster}
  /\ op.sector = op.cluster =>
       /\ op.cluster \in lost
       /\ \A i \in Slot : IsLink(op.buffer.slot[i]) =>
            op.buffer.slot[i].cluster = op.cluster
  /\ op.sector # op.cluster =>
       /\ op.sector \in taken
       /\ \A i \in Slot :
            \/ op.buffer.slot[i] = disk[op.sector].slot[i]
            \/ /\ op.buffer.slot[i].cluster = op.cluster
               /\ op.buffer.slot[i].dir = op.dir

CreateInv ==
  /\ SectorsOK(disk, taken, lost)
  /\ Root \in Taken /\ cwd \in Taken /\ LostIsNext
  /\ Creating => BufferOK
  /\ pc = "fat" => op.cluster \notin taken /\ \A b \in Cluster \ taken : op.cluster <= b
  /\ pc \in {"dots", "link"} => op.cluster \in Taken
  /\ pc = "link" /\ op.dir =>
       disk[op.cluster].slot[1].name = Dot \/ op.cluster \in lost

LEMMA LeastOfAll ==
  ASSUME NEW S, S \subseteq Nat, S # {}
  PROVE  \A n \in S : Min(S) <= n
<1> DEFINE R == OpToRel(<, Nat)
<1>1. IsWellFoundedOn(R, Nat)
  BY NatLessThanWellFounded
<1>2. \A m, n \in Nat : m < n => <<m, n>> \in R
  BY DEF OpToRel
<1> HIDE DEF R
<1>3. PICK m \in S : \A n \in S : ~ (<<n, m>> \in R)
  BY <1>1, WFMin
<1>4. \A n \in S : m =< n
  <2> TAKE n \in S
  <2>1. m \in Nat /\ n \in Nat
    OBVIOUS
  <2>2. ~ (n < m)
    BY <1>2, <1>3, <2>1
  <2> QED
    BY <2>1, <2>2
<1> QED
  BY <1>3, <1>4 DEF Min

\* More marks, and more lost ones, change nothing about a sector.
LEMMA SectorLater ==
  ASSUME NEW c, NEW v, NEW t, NEW l, NEW t2, NEW l2,
         SectorOK(c, v, t, l), t \subseteq t2, l \subseteq l2
  PROVE  SectorOK(c, v, t2, l2)
<1>1. ASSUME c \in l2 \ t2, NEW i \in Slot, IsLink(v.slot[i])
      PROVE  v.slot[i].cluster = c
  <2>1. c \in l
    BY <1>1 DEF SectorOK, IsLink
  <2> QED BY <1>1, <2>1 DEF SectorOK
<1> QED BY <1>1 DEF SectorOK

LEMMA SectorsLater ==
  ASSUME NEW d, NEW t, NEW l, NEW t2, NEW l2,
         SectorsOK(d, t, l), t \subseteq t2, l \subseteq l2
  PROVE  SectorsOK(d, t2, l2)
BY SectorLater DEF SectorsOK

\* One sector is written.
LEMMA SectorWritten ==
  ASSUME NEW d \in [Cluster -> Sector], NEW b, NEW v, NEW t, NEW l,
         SectorsOK(d, t, l), b \in Cluster => SectorOK(b, v, t, l)
  PROVE  SectorsOK([d EXCEPT ![b] = v], t, l)
<1> SUFFICES ASSUME NEW c \in Cluster
             PROVE  SectorOK(c, [d EXCEPT ![b] = v][c], t, l)
  BY DEF SectorsOK
<1>1. CASE c = b
  <2>1. [d EXCEPT ![b] = v][c] = v
    BY <1>1
  <2> QED BY <1>1, <2>1
<1>2. CASE c # b
  <2>1. [d EXCEPT ![b] = v][c] = d[c]
    BY <1>2
  <2> QED BY <2>1 DEF SectorsOK
<1> QED BY <1>1, <1>2

\* A sector without links, for a cluster that is marked or lost its mark.
LEMMA SectorWithoutLinks ==
  ASSUME NEW c, NEW v, NEW t, NEW l, c \in t \cup l,
         \A i \in Slot : /\ ~IsLink(v.slot[i])
                         /\ Live(v.slot[i]) => v.slot[i].cluster \in t \cup l \cup {0}
  PROVE  SectorOK(c, v, t, l)
BY DEF SectorOK

\* One entry changes, but neither its name, unless it goes, nor its cluster.
LEMMA SectorsEntry ==
  ASSUME NEW c, NEW v \in Sector, NEW i \in Slot, NEW w \in Entry, NEW t, NEW l,
         SectorOK(c, v, t, l), c \in t \cup l,
         Live(w) => w.name = v.slot[i].name, w.cluster = v.slot[i].cluster
  PROVE  LET u == [v EXCEPT !.slot = [v.slot EXCEPT ![i] = w]]
         IN  /\ SectorOK(c, u, t, l)
             /\ \A j \in Slot : IsLink(u.slot[j]) => IsLink(v.slot[j])
<1> DEFINE slots == [v.slot EXCEPT ![i] = w]
           u == [v EXCEPT !.slot = slots]
<1>1. v.slot \in [Slot -> Entry]
  BY DEF Sector
<1>2. slots[i] = w /\ \A j \in Slot : j # i => slots[j] = v.slot[j]
  BY <1>1
<1> HIDE DEF slots
<1>3. u.slot = slots
  BY DEF Sector
<1> HIDE DEF u
<1>4. ASSUME NEW j \in Slot, Live(u.slot[j])
      PROVE  Live(v.slot[j]) /\ u.slot[j].name = v.slot[j].name
             /\ u.slot[j].cluster = v.slot[j].cluster
  <2>1. CASE j = i
    BY <1>2, <1>3, <1>4, <2>1 DEF Live
  <2>2. CASE j # i
    BY <1>2, <1>3, <1>4, <2>2
  <2> QED BY <2>1, <2>2
<1>5. \A j \in Slot : IsLink(u.slot[j]) =>
        IsLink(v.slot[j]) /\ u.slot[j].cluster = v.slot[j].cluster
  BY <1>4 DEF IsLink
<1>6. SectorOK(c, u, t, l)
  BY <1>4, <1>5 DEF SectorOK
<1> QED BY <1>5, <1>6 DEF u, slots

\* What is found in a directory is in a sector that is taken.
LEMMA FoundTaken ==
  ASSUME CreateInv, NEW x \in Cells, Live(At(x))
  PROVE  x[1] \in Taken /\ At(x).cluster \in Taken \cup {0}
BY DEF CreateInv, SectorsOK, SectorOK, Cells, At, Taken

LEMMA CreateStarts == Init => CreateInv
<1> SUFFICES ASSUME Init PROVE CreateInv
  OBVIOUS
<1>1. taken = Cluster \ Free /\ disk = ShippedDisk /\ lost = {} /\ pc = "idle"
      /\ cwd = Root
  BY DEF Init
<1>2. ASSUME NEW c \in Cluster PROVE SectorOK(c, ShippedDisk[c], taken, {})
  <2>1. ASSUME NEW i \in Slot, Live(ShippedDisk[c].slot[i])
        PROVE  ShippedDisk[c].slot[i].cluster \in taken \cup {0} /\ c \in taken
    <3>1. ShippedDisk[c].slot[i].cluster \in Cluster
      BY VolumeAssumption DEF Sector, Entry
    <3> QED BY <1>1, <2>1, <3>1, FreeAssumption
  <2>2. ASSUME c \notin taken, c \in Continued, NEW i \in Slot
        PROVE  ShippedDisk[c].slot[i].name \notin {End, Deleted}
    <3>1. PICK b \in Cluster : Fat[b] = c
      BY <2>2 DEF Continued
    <3>2. ShippedDisk[c].slot[i].name = Alien
      BY <1>1, <2>2, <3>1, FreeAssumption
    <3> QED BY <3>2, VolumeAssumption
  <2> QED BY <2>1, <2>2 DEF SectorOK
<1>3. Root \in Taken /\ cwd \in Taken
  BY <1>1, FreeAssumption, VolumeAssumption DEF Taken
<1> QED BY <1>1, <1>2, <1>3 DEF CreateInv, SectorsOK, LostIsNext, Creating

\* A step of a command that creates nothing.
LEMMA OtherKeeps ==
  ASSUME CreateInv, SectorsOK(disk', taken, lost), cwd' \in Taken, ~Creating',
         UNCHANGED <<taken, lost>>
  PROVE  CreateInv'
BY DEF CreateInv, Taken, LostIsNext, Creating

LEMMA CreateInCreates ==
  ASSUME DiskInv, CreateInv, NEW s \in Cluster, NEW n \in Name, NEW b \in BOOLEAN,
         s \in Taken, FreeSlots(disk[s]) # {}, CreateIn(s, n, b),
         UNCHANGED <<taken, disk, cwd, lost>>
  PROVE  CreateInv'
<1> DEFINE new == Min(Cluster \ taken)
           i == Min(FreeSlots(disk[s]))
           f == Filled(disk[s], i, n, b, new)
<1>1. new \in Cluster \ taken /\ \A c \in Cluster \ taken : new <= c
  <2>1. Cluster \ taken # {} /\ Cluster \ taken \subseteq Nat
    BY VolumeAssumption DEF CreateIn
  <2> QED BY <2>1, Least, LeastOfAll
<1>2. i \in Slot
  BY Least DEF FreeSlots, Slot
<1>3. /\ op'.sector = s /\ op'.buffer = f /\ op'.cluster = new /\ op'.dir = b
      /\ pc' = "fat"
  BY DEF CreateIn
<1>4. disk[s] \in Sector
  BY DEF DiskInv, TypeOK
<1> HIDE DEF new, i
<1>5. /\ \A j \in Slot : j # i => f.slot[j] = disk[s].slot[j]
      /\ f.slot[i].name = n /\ f.slot[i].dir = b /\ f.slot[i].cluster = new
  BY <1>1, <1>2, <1>4, FilledSector
<1> HIDE DEF f
<1>6. SectorOK(s, disk[s], taken, lost)
  BY DEF CreateInv, SectorsOK
<1>7. \A j \in Slot : Live(f.slot[j]) => f.slot[j].cluster \in Taken \cup {0, new}
  BY <1>5, <1>6 DEF SectorOK, Taken
<1>8. ASSUME s = new
      PROVE  /\ new \in lost
             /\ \A j \in Slot : IsLink(f.slot[j]) => f.slot[j].cluster = new
  <2>1. s \in lost \ taken
    BY <1>1, <1>8 DEF Taken
  <2> QED BY <1>5, <1>6, <1>8, <2>1 DEF SectorOK
<1>9. ASSUME s # new
      PROVE  /\ s \in taken
             /\ \A j \in Slot : \/ f.slot[j] = disk[s].slot[j]
                                \/ f.slot[j].cluster = new /\ f.slot[j].dir = b
  <2>1. ASSUME s \notin taken PROVE FALSE
    <3>1. s <= new /\ new <= s
      BY <1>1, <2>1 DEF CreateInv, LostIsNext, Taken
    <3>2. s \in Nat /\ new \in Nat
      BY <1>1, VolumeAssumption
    <3> QED BY <1>9, <3>1, <3>2
  <2> QED BY <1>5, <2>1
<1>10. BufferOK'
  BY <1>3, <1>7, <1>8, <1>9 DEF BufferOK, Taken
<1> QED BY <1>1, <1>3, <1>10 DEF CreateInv, Taken, LostIsNext

LEMMA CreateCreates ==
  ASSUME DiskInv, CreateInv, NEW n \in Name, NEW b \in BOOLEAN, Create(n, b)
  PROVE  CreateInv'
<1>1. UNCHANGED <<taken, disk, cwd, lost>> /\ cwd \in Cluster /\ cwd \in Taken
  BY DEF Create, DiskInv, TypeOK, CreateInv
<1>2. CASE FreeSlots(disk[cwd]) # {}
  <2>1. CreateIn(cwd, n, b)
    BY <1>2 DEF Create
  <2> QED BY <1>1, <1>2, <2>1, CreateInCreates
<1>3. CASE FreeSlots(disk[cwd]) = {}
  <2>1. Fat[cwd] \in Cluster
    BY <1>1, <1>3, VolumeAssumption DEF Create
  <2>2. CASE FreeSlots(disk[Fat[cwd]]) # {}
    <3>1. CreateIn(Fat[cwd], n, b)
      BY <1>3, <2>2 DEF Create
    <3>2. Fat[cwd] \in Taken
      <4>1. SectorOK(Fat[cwd], disk[Fat[cwd]], taken, lost)
        BY <2>1 DEF CreateInv, SectorsOK
      <4>2. Fat[cwd] # 0 => Fat[cwd] \in Continued
        BY <1>1 DEF Continued
      <4>3. 0 \in Taken
        BY DEF DiskInv, Taken
      <4> QED BY <2>2, <4>1, <4>2, <4>3 DEF SectorOK, FreeSlots, Taken
    <3> QED BY <1>1, <2>1, <2>2, <3>1, <3>2, CreateInCreates
  <2>3. CASE FreeSlots(disk[Fat[cwd]]) = {}
    <3>1. pc' = "hung" /\ UNCHANGED op
      BY <1>3, <2>3 DEF Create
    <3> QED BY <1>1, <3>1, OtherKeeps DEF CreateInv, Creating
  <2> QED BY <2>2, <2>3
<1> QED BY <1>2, <1>3

LEMMA MarkCreates ==
  ASSUME DiskInv, CreateInv, MarkCluster
  PROVE  CreateInv'
<1>1. /\ UNCHANGED <<disk, cwd, op>> /\ pc = "fat" /\ op.cluster \in Cluster
      /\ pc' = IF op.dir THEN "dots" ELSE "link"
      /\ \/ taken' = taken \cup {op.cluster} /\ lost' = lost
         \/ lost' = lost \cup {op.cluster} /\ taken' = taken
  BY DEF MarkCluster, WriteTimesOut, DiskInv, Creating
<1>2. /\ taken \subseteq taken' /\ lost \subseteq lost'
      /\ op.cluster \in taken' \cup lost'
  BY <1>1
<1>3. SectorsOK(disk, taken', lost')
  BY <1>2, SectorsLater DEF CreateInv
<1>4. \A b \in Cluster \ taken : op.cluster <= b
  BY <1>1 DEF CreateInv
<1>5. LostIsNext'
  <2> SUFFICES ASSUME NEW c \in lost' \ taken', NEW b \in Cluster \ taken'
               PROVE  c <= b
    BY DEF LostIsNext
  <2>1. c \notin taken /\ b \notin taken /\ (c \in lost \/ c = op.cluster)
    BY <1>1
  <2> QED BY <1>4, <2>1 DEF CreateInv, LostIsNext
<1>6. BufferOK /\ Creating
  BY <1>1 DEF CreateInv, Creating
<1>7. BufferOK'
  BY <1>1, <1>2, <1>6 DEF BufferOK, Taken
<1>8. cwd' \in Taken'
  BY <1>1, <1>2 DEF CreateInv, Taken
<1> QED BY <1>1, <1>2, <1>3, <1>5, <1>7, <1>8 DEF CreateInv, Taken

LEMMA DotsCreates ==
  ASSUME DiskInv, CreateInv, WriteDots
  PROVE  CreateInv'
<1>1. /\ UNCHANGED <<taken, cwd, op>> /\ pc = "dots" /\ pc' = "link"
      /\ op.cluster \in Cluster \ {0} /\ op.cluster \in Taken /\ TypeOK /\ BufferOK
      /\ disk \in [Cluster -> Sector] /\ SectorsOK(disk, taken, lost)
      /\ cwd \in Taken /\ LostIsNext
  BY DEF WriteDots, DiskInv, TypeOK, Creating, CreateInv
<1>2. CASE WriteSector(op.cluster, DotsSector) /\ UNCHANGED lost
  <2>1. disk' = [disk EXCEPT ![op.cluster] = DotsSector] /\ DotsSector \in Sector
    BY <1>1, <1>2, DotsType DEF WriteSector
  <2>2. \A i \in Slot : /\ ~IsLink(DotsSector.slot[i])
                        /\ Live(DotsSector.slot[i]) =>
                             DotsSector.slot[i].cluster \in {op.cluster, cwd}
    <3> DEFINE dot == [name |-> Dot, dir |-> TRUE, cluster |-> op.cluster, size |-> 0]
               dotdot == [dot EXCEPT !.name = DotDot, !.cluster = cwd]
    <3>1. \A i \in Slot : DotsSector.slot[i] \in {dot, dotdot, EndEntry}
      BY DEF DotsSector
    <3>2. /\ dot.name = Dot /\ dot.cluster = op.cluster
          /\ dotdot.name = DotDot /\ dotdot.cluster = cwd
      OBVIOUS
    <3> HIDE DEF dot, dotdot
    <3> QED BY <3>1, <3>2, Entries DEF IsLink
  <2>3. DotsSector.slot[1].name = Dot
    BY VolumeAssumption DEF DotsSector, Slot
  <2> HIDE DEF DotsSector
  <2>4. SectorOK(op.cluster, DotsSector, taken, lost)
    BY <1>1, <2>2, SectorWithoutLinks DEF Taken
  <2>5. SectorsOK(disk', taken, lost)
    BY <1>1, <2>1, <2>4, SectorWritten
  <2>6. disk'[op.cluster].slot[1].name = Dot
    BY <1>1, <2>1, <2>3
  <2>7. op.sector # op.cluster => disk'[op.sector] = disk[op.sector]
    BY <1>1, <2>1
  <2>8. BufferOK'
    BY <1>1, <1>2, <2>7 DEF BufferOK, Taken
  <2> QED BY <1>1, <1>2, <2>5, <2>6, <2>8 DEF CreateInv, Taken, LostIsNext
<1>3. CASE WriteTimesOut /\ lost' = lost \cup {op.cluster}
  <2>1. disk' = disk /\ lost \subseteq lost' /\ op.cluster \in lost'
    BY <1>3 DEF WriteTimesOut
  <2>2. SectorsOK(disk', taken', lost')
    BY <1>1, <2>1, SectorsLater
  <2>3. LostIsNext'
    <3>1. lost' \ taken' = lost \ taken
      BY <1>1, <1>3 DEF Taken
    <3> QED BY <1>1, <3>1 DEF LostIsNext
  <2>4. BufferOK'
    BY <1>1, <2>1 DEF BufferOK, Taken
  <2> QED BY <1>1, <2>1, <2>2, <2>3, <2>4 DEF CreateInv, Taken
<1> QED BY <1>2, <1>3 DEF WriteDots, WriteUnchecked

LEMMA LinkCreates ==
  ASSUME DiskInv, CreateInv, LinkEntry
  PROVE  CreateInv'
<1>1. /\ UNCHANGED <<taken, cwd>> /\ pc = "link" /\ pc' = "idle"
      /\ op.cluster \in Cluster /\ op.cluster \in Taken /\ BufferOK
      /\ disk \in [Cluster -> Sector] /\ SectorsOK(disk, taken, lost)
      /\ Root \in Taken /\ cwd \in Taken /\ LostIsNext
  BY DEF LinkEntry, DiskInv, TypeOK, Creating, CreateInv
<1>2. CASE WriteSector(op.sector, op.buffer) /\ UNCHANGED lost
  <2>1. disk' = [disk EXCEPT ![op.sector] = op.buffer]
    BY <1>2 DEF WriteSector
  <2>2. SectorOK(op.sector, op.buffer, taken, lost)
    <3>1. \A i \in Slot : Live(op.buffer.slot[i]) =>
            op.buffer.slot[i].cluster \in taken \cup lost \cup {0}
      BY <1>1 DEF BufferOK, Taken
    <3>2. op.sector \in taken \cup lost
      BY <1>1 DEF BufferOK
    <3>3. op.sector \in lost \ taken =>
            \A i \in Slot : IsLink(op.buffer.slot[i]) =>
              op.buffer.slot[i].cluster = op.sector
      BY <1>1 DEF BufferOK
    <3> QED BY <3>1, <3>2, <3>3 DEF SectorOK
  <2>3. SectorsOK(disk', taken, lost)
    BY <1>1, <2>1, <2>2, SectorWritten
  <2> QED BY <1>1, <1>2, <2>3, OtherKeeps DEF Creating
<1>3. CASE WriteTimesOut /\ lost' = lost \cup {op.cluster}
  <2>1. disk' = disk /\ lost \subseteq lost'
    BY <1>3 DEF WriteTimesOut
  <2>2. SectorsOK(disk', taken', lost')
    BY <1>1, <2>1, SectorsLater
  <2>3. LostIsNext'
    <3>1. lost' \ taken' = lost \ taken
      BY <1>1, <1>3 DEF Taken
    <3> QED BY <1>1, <3>1 DEF LostIsNext
  <2>4. Root \in Taken' /\ cwd' \in Taken'
    BY <1>1, <2>1 DEF Taken
  <2> QED BY <1>1, <2>2, <2>3, <2>4 DEF CreateInv, Creating
<1> QED BY <1>2, <1>3 DEF LinkEntry, WriteUnchecked

LEMMA DeleteCreates ==
  ASSUME DiskInv, CreateInv, NEW n \in Name, Delete(n)
  PROVE  CreateInv' /\ Links' \subseteq Links
<1>1. TypeOK /\ disk \in [Cluster -> Sector] /\ SectorsOK(disk, taken, lost)
  BY DEF DiskInv, TypeOK, CreateInv
<1>2. PICK x \in Find(cwd, n) :
        \/ WriteSector(x[1], [disk[x[1]] EXCEPT !.slot[x[2]].name = Deleted])
        \/ WriteTimesOut
  BY DEF Delete
<1>3. x \in Cells /\ Live(At(x))
  BY <1>1, FindCells DEF TypeOK, Live
<1>4. SectorsOK(disk', taken, lost) /\ Links' \subseteq Links
  <2>1. CASE WriteSector(x[1], [disk[x[1]] EXCEPT !.slot[x[2]].name = Deleted])
    <3> DEFINE v == disk[x[1]]
               w == [v.slot[x[2]] EXCEPT !.name = Deleted]
               u == [v EXCEPT !.slot = [v.slot EXCEPT ![x[2]] = w]]
    <3>1. v \in Sector /\ x[1] \in Cluster /\ x[2] \in Slot /\ v.slot[x[2]] \in Entry
      BY <1>1, <1>3 DEF Cells, Sector
    <3>2. w \in Entry /\ ~Live(w) /\ w.cluster = v.slot[x[2]].cluster
      BY <3>1, VolumeAssumption DEF Entry, Live
    <3>3. disk' = [disk EXCEPT ![x[1]] = u]
      BY <2>1 DEF WriteSector
    <3>4. SectorOK(x[1], v, taken, lost) /\ x[1] \in taken \cup lost
      BY <1>1, <1>3, <3>1, FoundTaken DEF SectorsOK, Taken
    <3> HIDE DEF w, v
    <3>5. SectorOK(x[1], u, taken, lost) /\ \A j \in Slot : IsLink(u.slot[j]) => IsLink(v.slot[j])
      BY <3>1, <3>2, <3>4, SectorsEntry
    <3> HIDE DEF u
    <3>6. SectorsOK(disk', taken, lost)
      BY <1>1, <3>3, <3>5, SectorWritten
    <3>7. \A c \in Cluster, j \in Slot : IsLink(disk'[c].slot[j]) => IsLink(disk[c].slot[j])
      BY <1>1, <3>3, <3>5 DEF v
    <3> QED BY <3>6, <3>7 DEF Links, LinksOn, IsLink
  <2>2. CASE WriteTimesOut
    BY <1>1, <2>2 DEF WriteTimesOut, Links
  <2> QED BY <1>2, <2>1, <2>2
<1>5. UNCHANGED <<taken, lost, cwd, pc>> /\ ~Creating'
  BY DEF Delete, Creating
<1> QED BY <1>4, <1>5, OtherKeeps DEF CreateInv

LEMMA SizeCreates ==
  ASSUME DiskInv, CreateInv, UpdateFileSize
  PROVE  CreateInv' /\ Links' \subseteq Links
<1>1. TypeOK /\ disk \in [Cluster -> Sector] /\ SectorsOK(disk, taken, lost)
  BY DEF DiskInv, TypeOK, CreateInv
<1>2. SectorsOK(disk', taken, lost) /\ Links' \subseteq Links
  <2>1. ASSUME NEW x \in Find(cwd, op.name),
               WriteSector(x[1], [disk[x[1]] EXCEPT !.slot[x[2]].size = EchoSize])
        PROVE  SectorsOK(disk', taken, lost) /\ Links' \subseteq Links
    <3> DEFINE v == disk[x[1]]
               w == [v.slot[x[2]] EXCEPT !.size = EchoSize]
               u == [v EXCEPT !.slot = [v.slot EXCEPT ![x[2]] = w]]
    <3>1. x \in Cells /\ Live(At(x))
      BY <1>1, FindCells DEF TypeOK, Live
    <3>2. v \in Sector /\ x[1] \in Cluster /\ x[2] \in Slot /\ v.slot[x[2]] \in Entry
      BY <1>1, <3>1 DEF Cells, Sector
    <3>3. /\ w \in Entry /\ w.name = v.slot[x[2]].name
          /\ w.cluster = v.slot[x[2]].cluster
      BY <3>2 DEF Entry, EchoSize
    <3>4. disk' = [disk EXCEPT ![x[1]] = u]
      BY <2>1 DEF WriteSector
    <3>5. SectorOK(x[1], v, taken, lost) /\ x[1] \in taken \cup lost
      BY <1>1, <3>1, <3>2, FoundTaken DEF SectorsOK, Taken
    <3> HIDE DEF w, v
    <3>6. SectorOK(x[1], u, taken, lost) /\ \A j \in Slot : IsLink(u.slot[j]) => IsLink(v.slot[j])
      BY <3>2, <3>3, <3>5, SectorsEntry
    <3> HIDE DEF u
    <3>7. SectorsOK(disk', taken, lost)
      BY <1>1, <3>4, <3>6, SectorWritten
    <3>8. \A c \in Cluster, j \in Slot : IsLink(disk'[c].slot[j]) => IsLink(disk[c].slot[j])
      BY <1>1, <3>4, <3>6 DEF v
    <3> QED BY <3>7, <3>8 DEF Links, LinksOn, IsLink
  <2>2. CASE disk' = disk
    BY <1>1, <2>2 DEF Links
  <2> QED BY <2>1, <2>2 DEF UpdateFileSize, WriteTimesOut
<1>3. UNCHANGED <<taken, lost, cwd>> /\ ~Creating'
  BY DEF UpdateFileSize, Creating
<1> QED BY <1>2, <1>3, OtherKeeps DEF CreateInv

LEMMA EchoCreates ==
  ASSUME DiskInv, CreateInv, NEW n \in TxtName, NEW t \in Text, Echo(n, t)
  PROVE  CreateInv' /\ Links' \subseteq Links
<1>1. TypeOK /\ disk \in [Cluster -> Sector] /\ SectorsOK(disk, taken, lost)
  BY DEF DiskInv, TypeOK, CreateInv
<1>2. PICK x \in Find(cwd, n) :
        \/ WriteSector(At(x).cluster, TextSector(t)) /\ pc' = "size"
        \/ WriteTimesOut /\ pc' \in {pc, "size"}
  BY DEF Echo
<1>3. x \in Cells /\ Live(At(x))
  BY <1>1, FindCells DEF TypeOK, Live, Name
<1>4. SectorsOK(disk', taken, lost) /\ Links' \subseteq Links
  <2>1. CASE WriteSector(At(x).cluster, TextSector(t))
    <3> DEFINE v == TextSector(t)
               c == At(x).cluster
    <3>1. disk' = [disk EXCEPT ![c] = v]
      BY <2>1 DEF WriteSector
    <3>2. \A i \in Slot : ~Live(v.slot[i])
      BY TextType
    <3>3. c \in Cluster => SectorOK(c, v, taken, lost)
      <4>1. c \in taken \cup lost \cup {0}
        BY <1>3, FoundTaken DEF Taken
      <4>2. 0 \in taken
        BY DEF DiskInv
      <4> HIDE DEF c, v
      <4> QED BY <3>2, <4>1, <4>2, SectorWithoutLinks DEF IsLink
    <3> HIDE DEF c, v
    <3>4. SectorsOK(disk', taken, lost)
      BY <1>1, <3>1, <3>3, SectorWritten
    <3>5. \A b \in Cluster, j \in Slot : IsLink(disk'[b].slot[j]) => IsLink(disk[b].slot[j])
      <4> SUFFICES ASSUME NEW b \in Cluster, NEW j \in Slot, IsLink(disk'[b].slot[j])
                   PROVE  IsLink(disk[b].slot[j])
        OBVIOUS
      <4>1. CASE b = c
        BY <1>1, <3>1, <3>2, <4>1 DEF IsLink
      <4>2. CASE b # c
        BY <1>1, <3>1, <4>2
      <4> QED BY <4>1, <4>2
    <3> QED BY <3>4, <3>5 DEF Links, LinksOn, IsLink
  <2>2. CASE WriteTimesOut
    BY <1>1, <2>2 DEF WriteTimesOut, Links
  <2> QED BY <1>2, <2>1, <2>2
<1>5. UNCHANGED <<taken, lost, cwd>> /\ ~Creating'
  BY <1>2 DEF Echo, Creating
<1> QED BY <1>4, <1>5, OtherKeeps DEF CreateInv

\* The directory changes to one that is taken, whatever its entry's name is.
LEMMA MovingCreates ==
  ASSUME DiskInv, CreateInv, (\E n \in Name : Cd(n)) \/ CdUp \/ Crash
  PROVE  CreateInv'
<1>1. TypeOK /\ SectorsOK(disk, taken, lost) /\ Root \in Taken
  <2>1. Root \in Taken
    BY DEF CreateInv
  <2> QED BY <2>1 DEF DiskInv, CreateInv
<1>2. UNCHANGED <<taken, lost, disk>> /\ ~Creating'
  BY DEF Cd, CdUp, Crash, Creating
<1>3. ASSUME NEW n \in Name, Cd(n) PROVE cwd' \in Taken
  <2>1. PICK x \in FindDir(cwd, n) : cwd' = At(x).cluster
    BY <1>3 DEF Cd
  <2>2. x \in Cells /\ Live(At(x))
    BY <1>1, FindCells DEF TypeOK, Live
  <2>3. cwd' # 0
    <3>1. TypeOK'
      BY <1>3, CdKeeps DEF DiskInv
    <3> QED BY <3>1, VolumeAssumption DEF TypeOK
  <2> QED BY <2>1, <2>2, <2>3, FoundTaken
<1>4. ASSUME CdUp PROVE cwd' \in Taken
  <2>1. PICK x \in Find(cwd, DotDot) :
          cwd' = IF At(x).cluster = 0 THEN Root ELSE At(x).cluster
    BY <1>4 DEF CdUp
  <2>2. x \in Cells /\ Live(At(x))
    BY <1>1, FindCells DEF TypeOK, Live, Name
  <2> QED BY <1>1, <2>1, <2>2, FoundTaken
<1>5. ASSUME Crash PROVE cwd' \in Taken
  BY <1>1, <1>5 DEF Crash
<1>6. cwd' \in Taken
  BY <1>3, <1>4, <1>5
<1> QED BY <1>1, <1>2, <1>6, OtherKeeps

LEMMA CreateStep == DiskInv /\ CreateInv /\ [Next]_vars => CreateInv'
<1> SUFFICES ASSUME DiskInv, CreateInv, [Next]_vars PROVE CreateInv'
  OBVIOUS
<1>1. ASSUME NEW n \in TxtName, Touch(n) PROVE CreateInv'
  BY <1>1, CreateCreates DEF Touch, Name
<1>2. ASSUME NEW n \in Name, Mkdir(n) PROVE CreateInv'
  BY <1>2, CreateCreates DEF Mkdir
<1>3. ASSUME NEW n \in Name, Delete(n) PROVE CreateInv'
  BY <1>3, DeleteCreates
<1>4. CASE (\E n \in Name : Cd(n)) \/ CdUp \/ Crash
  BY <1>4, MovingCreates
<1>5. ASSUME NEW n \in TxtName, NEW t \in Text, Echo(n, t) PROVE CreateInv'
  BY <1>5, EchoCreates
<1>6. CASE MarkCluster
  BY <1>6, MarkCreates
<1>7. CASE WriteDots
  BY <1>7, DotsCreates
<1>8. CASE LinkEntry
  BY <1>8, LinkCreates
<1>9. CASE UpdateFileSize
  BY <1>9, SizeCreates
<1>10. CASE UNCHANGED vars
  <2>1. UNCHANGED <<taken, disk, cwd, pc, op, lost>>
    BY <1>10 DEF vars
  <2> QED
    BY <2>1 DEF CreateInv, Taken, LostIsNext, BufferOK, Creating
<1> QED
  BY <1>1, <1>2, <1>3, <1>4, <1>5, <1>6, <1>7, <1>8, <1>9, <1>10 DEF Next

LEMMA CreateInvariant == Spec => [](DiskInv /\ CreateInv)
<1>1. Init => DiskInv /\ CreateInv
  BY DiskInit, CreateStarts
<1>2. DiskInv /\ CreateInv /\ [Next]_vars => (DiskInv /\ CreateInv)'
  BY DiskStep, CreateStep
<1> QED
  BY <1>1, <1>2, PTL DEF Spec

\* create_entry's last write is the only step that brings a new link.
LEMMA OthersLinkNothing ==
  ASSUME DiskInv, CreateInv, [Next]_vars, ~LinkEntry
  PROVE  Links' \subseteq Links
<1>1. CASE disk' = disk
  BY <1>1 DEF Links
<1>2. ASSUME NEW n \in Name, Delete(n) PROVE Links' \subseteq Links
  BY <1>2, DeleteCreates
<1>3. ASSUME NEW n \in TxtName, NEW t \in Text, Echo(n, t)
      PROVE  Links' \subseteq Links
  BY <1>3, EchoCreates
<1>4. CASE UpdateFileSize
  BY <1>4, SizeCreates
<1>5. ASSUME WriteDots, disk' # disk PROVE Links' \subseteq Links
  <2>1. disk' = [disk EXCEPT ![op.cluster] = DotsSector]
    BY <1>5 DEF WriteDots, WriteUnchecked, WriteSector, WriteTimesOut
  <2>2. \A i \in Slot : ~IsLink(DotsSector.slot[i])
    BY VolumeAssumption DEF DotsSector, IsLink, Live, Name, EndEntry
  <2>3. disk \in [Cluster -> Sector]
    BY DEF DiskInv, TypeOK
  <2> HIDE DEF DotsSector
  <2>4. \A c \in Cluster, i \in Slot : IsLink(disk'[c].slot[i]) => IsLink(disk[c].slot[i])
    <3> SUFFICES ASSUME NEW c \in Cluster, NEW i \in Slot, IsLink(disk'[c].slot[i])
                 PROVE  IsLink(disk[c].slot[i])
      OBVIOUS
    <3>1. CASE c = op.cluster
      BY <2>1, <2>2, <2>3, <3>1
    <3>2. CASE c # op.cluster
      BY <2>1, <2>3, <3>2
    <3> QED BY <3>1, <3>2
  <2> QED BY <2>4 DEF Links, LinksOn, IsLink
<1>6. CASE disk' # disk
  <2>1. \/ \E n \in Name : Delete(n)
        \/ \E n \in TxtName, t \in Text : Echo(n, t)
        \/ UpdateFileSize
        \/ WriteDots
    BY <1>6 DEF Next, vars, Touch, Mkdir, Create, CreateIn, Cd, CdUp, Crash,
                MarkCluster, WriteTimesOut
  <2> QED BY <1>2, <1>3, <1>4, <1>5, <1>6, <2>1
<1> QED BY <1>1, <1>6

\* The entry it brings is the one create_entry was asked for.
LEMMA NewLink ==
  ASSUME DiskInv, CreateInv, LinkEntry, NEW x \in Links' \ Links, At(x)'.dir
  PROVE  \/ disk[At(x)'.cluster].slot[1].name = Dot
         \/ At(x)'.cluster \in lost
<1>1. /\ pc = "link" /\ BufferOK /\ disk \in [Cluster -> Sector]
      /\ op.dir => \/ disk[op.cluster].slot[1].name = Dot
                   \/ op.cluster \in lost
  BY DEF LinkEntry, DiskInv, TypeOK, Creating, CreateInv
<1>2. /\ x \in Cluster \X Slot
      /\ IsLink(disk'[x[1]].slot[x[2]]) /\ ~IsLink(disk[x[1]].slot[x[2]])
  BY DEF Links, LinksOn, IsLink
<1>3. disk' = [disk EXCEPT ![op.sector] = op.buffer]
  <2>1. disk' # disk
    BY <1>2
  <2> QED BY <2>1 DEF LinkEntry, WriteUnchecked, WriteSector, WriteTimesOut
<1> DEFINE e == op.buffer.slot[x[2]]
<1>4. x[1] = op.sector /\ x[2] \in Slot /\ At(x)' = e /\ IsLink(e)
  <2>1. x[1] \in Cluster /\ x[2] \in Slot
    BY <1>2
  <2>2. x[1] = op.sector
    BY <1>1, <1>2, <1>3, <2>1
  <2>3. At(x)' = e
    BY <1>1, <1>3, <2>1, <2>2 DEF At
  <2> QED BY <1>2, <2>1, <2>2, <2>3 DEF At
<1>5. CASE op.sector = op.cluster
  BY <1>1, <1>4, <1>5 DEF BufferOK
<1>6. CASE op.sector # op.cluster
  <2>1. e # disk[op.sector].slot[x[2]]
    BY <1>2, <1>4
  <2>2. e.cluster = op.cluster /\ e.dir = op.dir
    BY <1>1, <1>4, <1>6, <2>1 DEF BufferOK
  <2> QED BY <1>1, <1>4, <2>2
<1> QED BY <1>5, <1>6

\* Crash consistency of mkdir: create_entry writes the new directory's own
\* sector before the entry that leads to it, so whenever the power fails, the
\* tree never has a directory without its "." and "..", unless create_entry
\* lost a write for it.
THEOREM DirectoryBeforeEntry == Spec => DirWrittenBeforeLink
<1> DEFINE Written == \A x \in Links' \ Links :
             At(x).dir' => \/ disk[At(x).cluster'].slot[1].name = Dot
                           \/ At(x).cluster' \in lost
<1>1. DiskInv /\ CreateInv /\ [Next]_vars => Written
  <2> SUFFICES ASSUME DiskInv, CreateInv, [Next]_vars,
                      NEW x \in Links' \ Links, At(x).dir'
               PROVE  \/ disk[At(x).cluster'].slot[1].name = Dot
                      \/ At(x).cluster' \in lost
    OBVIOUS
  <2>1. LinkEntry
    BY OthersLinkNothing
  <2> QED BY <2>1, NewLink
<1>2. DiskInv /\ CreateInv /\ [Next]_vars => [Written]_vars
  BY <1>1
<1> QED
  BY <1>2, CreateInvariant, PTL DEF Spec, DirWrittenBeforeLink

-----------------------------------------------------------------------------
(***************************************************************************)
(* What a command has written is what ls and cat show next.                *)
(***************************************************************************)

\* A chain begins with its cluster and goes on with the one behind it.
LEMMA ChainParts ==
  ASSUME NEW c \in Cluster
  PROVE  /\ Chain[c] \in Seq(Cluster) /\ Len(Chain[c]) \in Nat /\ Len(Chain[c]) >= 1
         /\ Chain[c][1] = c
         /\ Fat[c] \notin Cluster => Len(Chain[c]) = 1
         /\ Fat[c] \in Cluster =>
              /\ Len(Chain[c]) = Len(Chain[Fat[c]]) + 1
              /\ \A k \in 1 .. Len(Chain[Fat[c]]) : Chain[c][k + 1] = Chain[Fat[c]][k]
<1>1. Fat[c] \in Cluster \cup {EndOfChain} /\ Chain[c] = <<c>> \o Chain[Fat[c]]
  BY VolumeAssumption, ChainAssumption
<1> DEFINE rest == Chain[Fat[c]]
<1>2. rest \in Seq(Cluster) /\ Chain[c] \in Seq(Cluster)
  BY <1>1, ChainAssumption
<1>3. Fat[c] \notin Cluster => Len(rest) = 0
  BY <1>1, ChainAssumption
<1> HIDE DEF rest
<1>4. /\ Len(<<c>> \o rest) = 1 + Len(rest) /\ (<<c>> \o rest)[1] = c
      /\ \A k \in 1 .. Len(rest) : (<<c>> \o rest)[k + 1] = rest[k]
  <2>1. <<c>> \in Seq(Cluster) /\ Len(<<c>>) = 1 /\ <<c>>[1] = c
    OBVIOUS
  <2> DEFINE one == <<c>>
  <2> HIDE DEF one
  <2>2. one \in Seq(Cluster) /\ Len(one) = 1 /\ one[1] = c
    BY <2>1 DEF one
  <2>3. /\ Len(one \o rest) = 1 + Len(rest) /\ (one \o rest)[1] = c
        /\ \A k \in 1 .. Len(rest) : (one \o rest)[k + 1] = rest[k]
    <3>0. Len(rest) \in Nat
      BY <1>2
    <3>1. /\ Len(one \o rest) = Len(one) + Len(rest)
          /\ \A k \in 1 .. Len(one) + Len(rest) : (one \o rest)[k] =
               IF k <= Len(one) THEN one[k] ELSE rest[k - Len(one)]
      BY <1>2, <2>2, ConcatProperties, Zenon
    <3>2. \A k \in 1 .. 1 + Len(rest) : (one \o rest)[k] =
            IF k <= 1 THEN one[k] ELSE rest[k - 1]
      BY <2>2, <3>1
    <3>3. (one \o rest)[1] = c
      BY <2>2, <3>0, <3>2
    <3>4. ASSUME NEW k \in 1 .. Len(rest) PROVE (one \o rest)[k + 1] = rest[k]
      <4>1. k + 1 \in 1 .. 1 + Len(rest) /\ ~(k + 1 <= 1) /\ (k + 1) - 1 = k
        BY <3>0
      <4> QED BY <3>2, <4>1
    <3> QED BY <2>2, <3>1, <3>3, <3>4
  <2> QED BY <2>3 DEF one
<1>5. Chain[c] = <<c>> \o rest /\ Len(rest) \in Nat
  BY <1>1, <1>2 DEF rest
<1> HIDE DEF rest
<1>6. /\ Len(Chain[c]) = Len(rest) + 1 /\ Chain[c][1] = c
      /\ \A k \in 1 .. Len(rest) : Chain[c][k + 1] = rest[k]
  BY <1>4, <1>5
<1> QED BY <1>2, <1>3, <1>5, <1>6 DEF rest

LEMMA ChainNext ==
  ASSUME NEW c \in Cluster, NEW i \in Nat \ {0}, i < Len(Chain[c])
  PROVE  Chain[c][i] \in Cluster /\ Chain[c][i + 1] = Fat[Chain[c][i]]
<1> DEFINE Holds(a, k) == k < Len(Chain[a]) => Chain[a][k + 1] = Fat[Chain[a][k]]
           Bad == {k \in Nat \ {0} : \E a \in Cluster : ~Holds(a, k)}
<1>1. ASSUME Bad # {} PROVE FALSE
  <2> DEFINE k == Min(Bad)
  <2>1. Bad \subseteq Nat
    OBVIOUS
  <2> HIDE DEF Bad
  <2>2. k \in Bad /\ \A m \in Bad : k <= m
    BY <1>1, <2>1, Least, LeastOfAll
  <2> HIDE DEF k
  <2> USE DEF Bad
  <2>3. PICK a \in Cluster : ~Holds(a, k)
    BY <2>2
  <2>4. k \in Nat \ {0} /\ k < Len(Chain[a]) /\ Chain[a][k + 1] # Fat[Chain[a][k]]
    BY <2>2, <2>3
  <2>5. /\ Fat[a] \in Cluster /\ Len(Chain[a]) = Len(Chain[Fat[a]]) + 1
        /\ Len(Chain[Fat[a]]) \in Nat
    BY <2>4, ChainParts
  <2>6. CASE k = 1
    <3>1. Chain[a][1] = a /\ Chain[Fat[a]][1] = Fat[a] /\ 1 \in 1 .. Len(Chain[Fat[a]])
      BY <2>5, ChainParts
    <3>2. Chain[a][1 + 1] = Chain[Fat[a]][1]
      BY <2>5, <3>1, ChainParts
    <3> QED BY <2>4, <2>6, <3>1, <3>2
  <2>7. CASE k # 1
    <3>1. k - 1 \in Nat \ {0} /\ k - 1 < Len(Chain[Fat[a]]) /\ ~(k <= k - 1)
      BY <2>4, <2>5, <2>7
    <3>2. k - 1 \notin Bad
      BY <2>2, <3>1
    <3>3. Chain[Fat[a]][(k - 1) + 1] = Fat[Chain[Fat[a]][k - 1]]
      BY <2>5, <3>1, <3>2
    <3>4. /\ k - 1 \in 1 .. Len(Chain[Fat[a]]) /\ k \in 1 .. Len(Chain[Fat[a]])
          /\ (k - 1) + 1 = k
      BY <2>4, <2>5, <3>1
    <3>5. Chain[a][(k - 1) + 1] = Chain[Fat[a]][k - 1] /\ Chain[a][k + 1] = Chain[Fat[a]][k]
      BY <2>5, <3>4, ChainParts
    <3> QED BY <2>4, <3>3, <3>4, <3>5
  <2> QED BY <2>6, <2>7
<1>2. Holds(c, i)
  BY <1>1
<1>3. Chain[c][i] \in Cluster
  <2>1. i \in 1 .. Len(Chain[c]) /\ Chain[c] \in Seq(Cluster)
    BY ChainParts
  <2> QED BY <2>1
<1> QED BY <1>2, <1>3

\* What comes in a chain comes in the chain of every cluster in front of it.
LEMMA ChainTail ==
  ASSUME NEW c \in Cluster, NEW i \in DOMAIN Chain[c], NEW j \in DOMAIN Chain[c],
         i <= j
  PROVE  \E k \in DOMAIN Chain[Chain[c][i]] : Chain[Chain[c][i]][k] = Chain[c][j]
<1> DEFINE Ends(a, m, n) ==
             \E k \in DOMAIN Chain[Chain[a][m]] : Chain[Chain[a][m]][k] = Chain[a][n]
           Bad == {m \in Nat : \E a \in Cluster : \E n \in DOMAIN Chain[a] :
                     m \in DOMAIN Chain[a] /\ m <= n /\ ~Ends(a, m, n)}
<1>1. ASSUME Bad # {} PROVE FALSE
  <2> DEFINE m == Min(Bad)
  <2>1. Bad \subseteq Nat
    OBVIOUS
  <2> HIDE DEF Bad
  <2>2. m \in Bad /\ \A q \in Bad : m <= q
    BY <1>1, <2>1, Least, LeastOfAll
  <2> HIDE DEF m
  <2>3. PICK a \in Cluster : \E n \in DOMAIN Chain[a] :
          m \in Nat /\ m \in DOMAIN Chain[a] /\ m <= n /\ ~Ends(a, m, n)
    BY <2>2 DEF Bad
  <2>4. PICK n \in DOMAIN Chain[a] :
          m \in Nat /\ m \in DOMAIN Chain[a] /\ m <= n /\ ~Ends(a, m, n)
    BY <2>3
  <2>5. /\ DOMAIN Chain[a] = 1 .. Len(Chain[a]) /\ Len(Chain[a]) \in Nat
        /\ Chain[a][1] = a
    BY ChainParts
  <2>6. m # 1
    BY <2>4, <2>5
  <2>7. /\ Fat[a] \in Cluster /\ Len(Chain[a]) = Len(Chain[Fat[a]]) + 1
        /\ DOMAIN Chain[Fat[a]] = 1 .. Len(Chain[Fat[a]])
        /\ Len(Chain[Fat[a]]) \in Nat
    <3>1. Fat[a] \in Cluster
      <4>1. Fat[a] \notin Cluster => Len(Chain[a]) = 1
        BY ChainParts
      <4>2. m \in 1 .. Len(Chain[a])
        BY <2>4, <2>5
      <4>3. ASSUME Len(Chain[a]) = 1 PROVE FALSE
        <5>1. m \in 1 .. 1
          BY <4>2, <4>3
        <5> QED BY <2>6, <5>1
      <4> QED BY <4>1, <4>3
    <3>2. Chain[Fat[a]] \in Seq(Cluster) /\ Len(Chain[Fat[a]]) \in Nat
      BY <3>1, ChainParts
    <3>3. DOMAIN Chain[Fat[a]] = 1 .. Len(Chain[Fat[a]])
      BY <3>2
    <3>4. Len(Chain[a]) = Len(Chain[Fat[a]]) + 1
      BY <3>1, ChainParts
    <3> QED BY <3>1, <3>2, <3>3, <3>4
  <2>8. /\ m - 1 \in 1 .. Len(Chain[Fat[a]]) /\ n - 1 \in 1 .. Len(Chain[Fat[a]])
        /\ (m - 1) + 1 = m /\ (n - 1) + 1 = n /\ m - 1 <= n - 1
        /\ m - 1 \in Nat /\ ~(m <= m - 1)
    BY <2>4, <2>5, <2>6, <2>7
  <2>9. Chain[a][m] = Chain[Fat[a]][m - 1] /\ Chain[a][n] = Chain[Fat[a]][n - 1]
    <3>1. \A k \in 1 .. Len(Chain[Fat[a]]) : Chain[a][k + 1] = Chain[Fat[a]][k]
      BY <2>7, ChainParts
    <3>2. /\ Chain[a][(m - 1) + 1] = Chain[Fat[a]][m - 1]
          /\ Chain[a][(n - 1) + 1] = Chain[Fat[a]][n - 1]
      BY <2>8, <3>1
    <3> QED BY <2>8, <3>2
  <2>10. ~Ends(Fat[a], m - 1, n - 1)
    BY <2>4, <2>9
  <2> HIDE DEF Ends
  <2>11. m - 1 \in Bad
    BY <2>7, <2>8, <2>10 DEF Bad
  <2> QED BY <2>2, <2>8, <2>11
<1> HIDE DEF Ends
<1>2. ASSUME ~Ends(c, i, j) PROVE i \in Bad
  <2>1. i \in Nat
    BY ChainParts
  <2> QED BY <1>2, <2>1
<1>3. Ends(c, i, j)
  BY <1>1, <1>2
<1> QED BY <1>3 DEF Ends

\* Chains run upwards, up to where one goes on in cluster 0.
LEMMA ChainUp ==
  ASSUME NEW c \in Cluster, NEW i \in DOMAIN Chain[c], NEW j \in DOMAIN Chain[c],
         i <= j, Chain[c][j] # 0
  PROVE  Chain[c][i] <= Chain[c][j]
<1> DEFINE Bad == {k \in Nat : k \in DOMAIN Chain[c] /\ i <= k
                                 /\ Chain[c][k] # 0 /\ ~(Chain[c][i] <= Chain[c][k])}
<1>1. /\ Chain[c] \in Seq(Cluster) /\ DOMAIN Chain[c] = 1 .. Len(Chain[c])
      /\ Len(Chain[c]) \in Nat
  BY ChainParts
<1>2. ASSUME NEW k \in DOMAIN Chain[c] PROVE Chain[c][k] \in Cluster /\ Chain[c][k] \in Nat
  BY <1>1, VolumeAssumption
<1>3. ASSUME Bad # {} PROVE FALSE
  <2> DEFINE k == Min(Bad)
  <2>1. Bad \subseteq Nat
    OBVIOUS
  <2> HIDE DEF Bad
  <2>2. k \in Bad /\ \A m \in Bad : k <= m
    BY <1>3, <2>1, Least, LeastOfAll
  <2> HIDE DEF k
  <2> USE DEF Bad
  <2>3. /\ k \in Nat /\ k \in DOMAIN Chain[c] /\ i <= k /\ Chain[c][k] # 0
        /\ ~(Chain[c][i] <= Chain[c][k])
    BY <2>2
  <2>4. i # k
    BY <1>2, <2>3
  <2>5. /\ k - 1 \in Nat \ {0} /\ k - 1 < Len(Chain[c]) /\ i <= k - 1
        /\ k - 1 \in DOMAIN Chain[c] /\ (k - 1) + 1 = k /\ ~(k <= k - 1)
    BY <1>1, <2>3, <2>4
  <2>6. Chain[c][k] = Fat[Chain[c][k - 1]]
    BY <2>5, ChainNext
  <2>7. Chain[c][i] <= Chain[c][k - 1]
    <3>1. k - 1 \notin Bad
      BY <2>2, <2>5
    <3>2. Chain[c][k - 1] # 0
      BY <1>2, <2>3, <2>6, VolumeAssumption
    <3> QED BY <2>5, <3>1, <3>2
  <2>8. Chain[c][k - 1] < Chain[c][k]
    BY <1>2, <2>3, <2>5, <2>6, CopiedAssumption
  <2> QED BY <1>2, <2>3, <2>5, <2>7, <2>8
<1> QED BY <1>1, <1>3

\* Cell k of a scan lies in a sector of the chain, and a later cell in the same
\* or a later one.
LEMMA ScanOrder ==
  ASSUME NEW c \in Cluster, NEW k \in DOMAIN Scan(c), NEW m \in DOMAIN Scan(c), k <= m
  PROVE  \E i, j \in DOMAIN Chain[c] :
           i <= j /\ Scan(c)[k][1] = Chain[c][i] /\ Scan(c)[m][1] = Chain[c][j]
<1> DEFINE Place(n) == (n - 1) \div Slots + 1
<1>1. /\ Chain[c] \in Seq(Cluster) /\ DOMAIN Chain[c] = 1 .. Len(Chain[c])
      /\ Len(Chain[c]) \in Nat /\ Slots \in Nat /\ Slots >= 2
  BY ChainParts, VolumeAssumption
<1> DEFINE len == Len(Chain[c])
<1>2. DOMAIN Scan(c) = 1 .. Slots * len
  BY DEF Scan
<1>3. \A n \in DOMAIN Scan(c) : Scan(c)[n][1] = Chain[c][Place(n)]
  BY DEF Scan
<1>4. len \in Nat
  BY <1>1
<1> HIDE DEF len
<1>5. \A n \in 1 .. Slots * len : Place(n) \in 1 .. len
  <2> SUFFICES ASSUME NEW n \in 1 .. Slots * len PROVE Place(n) \in 1 .. len
    OBVIOUS
  <2> DEFINE q == (n - 1) \div Slots
  <2>1. q \in Nat /\ q * Slots <= n - 1
    BY <1>1, <1>4
  <2>2. ASSUME q >= len PROVE FALSE
    <3>1. q * Slots >= len * Slots
      BY <1>1, <1>4, <2>1, <2>2
    <3> QED BY <3>1, <1>1, <1>4, <2>1
  <2>3. q < len
    BY <1>4, <2>1, <2>2
  <2> QED BY <1>4, <2>1, <2>3
<1>6. Place(k) <= Place(m)
  <2> DEFINE p == (k - 1) \div Slots
             q == (m - 1) \div Slots
  <2>1. k \in Nat \ {0} /\ m \in Nat \ {0}
    BY <1>1, <1>2, <1>4
  <2>2. p \in Nat /\ q \in Nat /\ p * Slots <= k - 1 /\ m - 1 < q * Slots + Slots
    BY <1>1, <2>1
  <2> HIDE DEF p, q
  <2>3. ASSUME p > q PROVE FALSE
    <3>1. p * Slots >= (q + 1) * Slots
      BY <1>1, <2>2, <2>3
    <3>2. (q + 1) * Slots = q * Slots + Slots
      BY <1>1, <2>2
    <3> QED BY <1>1, <2>1, <2>2, <3>1, <3>2
  <2>4. p <= q
    BY <2>2, <2>3
  <2> QED BY <2>2, <2>4 DEF p, q
<1> HIDE DEF Place
<1>7. Place(k) \in DOMAIN Chain[c] /\ Place(m) \in DOMAIN Chain[c]
  BY <1>1, <1>2, <1>5 DEF len
<1> QED BY <1>3, <1>6, <1>7

\* The slots of a directory's sector are scanned first, then the ones of the
\* next.
LEMMA ScanBegins ==
  ASSUME NEW c \in Cluster, NEW i \in Slot
  PROVE  /\ i \in DOMAIN Scan(c) /\ Scan(c)[i] = <<c, i>>
         /\ Fat[c] \in Cluster =>
              Slots + i \in DOMAIN Scan(c) /\ Scan(c)[Slots + i] = <<Fat[c], i>>
<1>1. Slots \in Nat /\ Slots >= 2 /\ i \in 1 .. Slots
  BY VolumeAssumption DEF Slot
<1> DEFINE len == Len(Chain[c])
<1>2. len \in Nat /\ len >= 1 /\ Chain[c][1] = c
  BY ChainParts
<1>3. Fat[c] \in Cluster => len >= 2 /\ Chain[c][2] = Fat[c]
  <2> SUFFICES ASSUME Fat[c] \in Cluster PROVE len >= 2 /\ Chain[c][2] = Fat[c]
    OBVIOUS
  <2>1. len = Len(Chain[Fat[c]]) + 1 /\ Len(Chain[Fat[c]]) \in Nat /\ Len(Chain[Fat[c]]) >= 1
    BY ChainParts
  <2>2. 1 < len /\ Chain[c][1 + 1] = Fat[Chain[c][1]]
    BY <2>1, ChainNext
  <2> QED BY <1>2, <2>1, <2>2
<1>4. Scan(c) = [k \in 1 .. Slots * len |->
                   <<Chain[c][(k - 1) \div Slots + 1], ((k - 1) % Slots) + 1>>]
  BY DEF Scan
<1> HIDE DEF len
<1>5. /\ (i - 1) \div Slots = 0 /\ (i - 1) % Slots = i - 1
      /\ ((Slots + i) - 1) \div Slots = 1 /\ ((Slots + i) - 1) % Slots = i - 1
  BY <1>1
<1>6. Slots * len >= Slots /\ (len >= 2 => Slots * len >= Slots + Slots)
  BY <1>1, <1>2
<1>7. i \in 1 .. Slots * len /\ (len >= 2 => Slots + i \in 1 .. Slots * len)
  BY <1>1, <1>2, <1>6
<1>8. Scan(c)[i] = <<c, i>>
  <2>1. Scan(c)[i] = <<Chain[c][(i - 1) \div Slots + 1], ((i - 1) % Slots) + 1>>
    BY <1>4, <1>7, Zenon
  <2>2. (i - 1) \div Slots + 1 = 1 /\ ((i - 1) % Slots) + 1 = i
    BY <1>1, <1>5
  <2> QED BY <1>2, <2>1, <2>2, Zenon
<1>9. len >= 2 => Scan(c)[Slots + i] = <<Chain[c][2], i>>
  <2>1. len >= 2 => Scan(c)[Slots + i] =
          <<Chain[c][((Slots + i) - 1) \div Slots + 1], (((Slots + i) - 1) % Slots) + 1>>
    BY <1>4, <1>7, Zenon
  <2>2. ((Slots + i) - 1) \div Slots + 1 = 2 /\ (((Slots + i) - 1) % Slots) + 1 = i
    BY <1>1, <1>5
  <2> QED BY <2>1, <2>2, Zenon
<1> QED BY <1>3, <1>4, <1>7, <1>8, <1>9

\* x is the first cell of directory c on disk d that has name n.
Finds(d, c, n, x) ==
  \E k \in DOMAIN Scan(c) :
    /\ x = Scan(c)[k] /\ EntryOn(d, x).name = n
    /\ \A j \in DOMAIN Scan(c) : j < k => EntryOn(d, Scan(c)[j]).name \notin {End, n}

LEMMA FirstIsFound ==
  ASSUME NEW d, NEW c \in Cluster, NEW n, n # End
  PROVE  LET scan == Scan(c)
             stops == {k \in DOMAIN scan : \/ EntryOn(d, scan[k]).name = End
                                           \/ EntryOn(d, scan[k]).name = n}
             found == {x \in {scan[k] : k \in {j \in stops : \A i \in stops : j <= i}} :
                         EntryOn(d, x).name = n}
         IN  /\ \A x \in found : Finds(d, c, n, x)
             /\ \A x : Finds(d, c, n, x) => found = {x}
<1> DEFINE scan == Scan(c)
           stops == {k \in DOMAIN scan : \/ EntryOn(d, scan[k]).name = End
                                         \/ EntryOn(d, scan[k]).name = n}
           least == {j \in stops : \A i \in stops : j <= i}
           found == {x \in {scan[k] : k \in least} : EntryOn(d, x).name = n}
<1>1. DOMAIN scan \subseteq Int
  BY DEF Scan
<1> HIDE DEF scan
<1>2. ASSUME NEW x \in found PROVE Finds(d, c, n, x)
  <2>1. PICK k \in least : x = scan[k]
    BY <1>2
  <2>2. \A j \in DOMAIN scan : j < k => EntryOn(d, scan[j]).name \notin {End, n}
    <3> SUFFICES ASSUME NEW j \in DOMAIN scan, j < k, j \in stops PROVE FALSE
      OBVIOUS
    <3>1. k <= j /\ j \in Int /\ k \in Int
      BY <1>1, <2>1
    <3> QED BY <3>1
  <2>3. k \in DOMAIN scan /\ EntryOn(d, x).name = n
    BY <1>2, <2>1
  <2> QED BY <2>1, <2>2, <2>3 DEF Finds, scan
<1>3. ASSUME NEW x, Finds(d, c, n, x) PROVE found = {x}
  <2>1. PICK k \in DOMAIN scan :
          /\ x = scan[k] /\ EntryOn(d, x).name = n
          /\ \A j \in DOMAIN scan : j < k => EntryOn(d, scan[j]).name \notin {End, n}
    BY <1>3 DEF Finds, scan
  <2>2. ASSUME NEW i \in stops PROVE k <= i
    <3>1. i \in Int /\ k \in Int /\ i \in DOMAIN scan
      BY <1>1, <2>1
    <3>2. ~(i < k)
      BY <2>1, <2>2
    <3> QED BY <3>1, <3>2
  <2>3. k \in least
    BY <2>1, <2>2
  <2>4. ASSUME NEW j \in least PROVE j = k
    <3>1. j <= k /\ k <= j /\ j \in Int /\ k \in Int
      BY <1>1, <2>3, <2>4
    <3> QED BY <3>1
  <2>5. least = {k}
    BY <2>3, <2>4
  <2> HIDE DEF least
  <2> QED BY <2>1, <2>5
<1> QED BY <1>2, <1>3 DEF scan

LEMMA FindFirst ==
  ASSUME NEW c \in Cluster, NEW n, n # End
  PROVE  /\ \A x \in Find(c, n) : Finds(disk, c, n, x)
         /\ \A x : Finds(disk, c, n, x) => Find(c, n) = {x}
BY FirstIsFound DEF Find, First, At, EntryOn

\* Where an entry may lead: to where a chain begins, or to a cluster that was
\* handed out.
Starts == ((Cluster \ {0}) \ Continued) \cup Free

\* The clusters in the order in which they became directories: those that were
\* shipped, then those that were handed out.
Before(a, b) ==
  \/ a \notin Free /\ b \in Free
  \/ /\ a \in Free <=> b \in Free
     /\ a < b

\* An entry in sector s leads from whatever directory has s to a later one; not
\* so in cluster 0, which many directories may have.
Onward(s, e) ==
  \A a \in Cluster : \A j \in DOMAIN Chain[a] : Chain[a][j] = s => Before(a, e.cluster)

SectorShows(s, v, l) ==
  \A i \in Slot : /\ Live(v.slot[i]) => v.slot[i].cluster \in Starts \cup {0}
                  /\ l = {} /\ s # 0 /\ IsLink(v.slot[i]) => Onward(s, v.slot[i])
DiskShows(d, l) == \A c \in Cluster : SectorShows(c, d[c], l)

\* Clusters are handed out from the first to the last.
UpwardsOnly(t) == \A a \in t \cap Free, b \in Cluster \ t : a < b

\* The new entry is in a sector that a scan of the directory comes to, and no
\* End is in front of it.
EntryInSight ==
  /\ op.cluster # cwd
  /\ \/ op.sector = cwd
     \/ op.sector = Fat[cwd] /\ \A i \in Slot : disk[cwd].slot[i].name # End
  /\ \E i \in Slot : /\ op.buffer.slot[i].name = op.name
                     /\ \A j \in 1 .. i : op.buffer.slot[j].name # End

\* The name that echo is to look up again leads to what it has written.
FileInSight ==
  /\ op.cluster \in Cluster
  /\ \E x \in Cells : Finds(disk, cwd, op.name, x) /\ At(x).cluster = op.cluster

ShowInv ==
  /\ DiskShows(disk, lost)
  /\ cwd \in Starts /\ Cluster \ Free \subseteq taken
  /\ lost = {} => UpwardsOnly(taken)
  /\ Creating => SectorShows(op.sector, op.buffer, lost) /\ op.cluster \in Starts
  /\ Creating /\ lost = {} => EntryInSight
  /\ pc = "size" /\ lost = {} /\ ZeroUnused => FileInSight

LEMMA ShowStarts == Init => ShowInv
<1> SUFFICES ASSUME Init PROVE ShowInv
  OBVIOUS
<1>1. /\ disk = ShippedDisk /\ lost = {} /\ taken = Cluster \ Free /\ cwd = Root
      /\ pc = "idle"
  BY DEF Init
<1>2. DiskShows(disk, lost)
  <2> SUFFICES ASSUME NEW c \in Cluster, NEW k \in Slot
               PROVE  LET e == ShippedDisk[c].slot[k]
                      IN  /\ Live(e) => e.cluster \in Starts \cup {0}
                          /\ c # 0 /\ IsLink(e) => Onward(c, e)
    BY <1>1 DEF DiskShows, SectorShows
  <2> DEFINE e == ShippedDisk[c].slot[k]
  <2>1. e.cluster \in Cluster
    BY VolumeAssumption DEF Sector, Entry
  <2>2. Live(e) => e.cluster \notin Continued
    BY CopiedAssumption
  <2>3. ASSUME IsLink(e) PROVE Onward(c, e)
    <3>1. <<c, k>> \in LinksOn(ShippedDisk)
      BY <2>3 DEF LinksOn, IsLink
    <3>2. e.cluster \in Cluster
      <4>1. ShippedDisk[<<c, k>>[1]].slot[<<c, k>>[2]].cluster \in Cluster \ Free
        BY <3>1, ShippedAssumption
      <4> QED BY <4>1
    <3>3. e.cluster \notin Free
      <4>1. ShippedDisk[<<c, k>>[1]].slot[<<c, k>>[2]].cluster \in Cluster \ Free
        BY <3>1, ShippedAssumption
      <4> QED BY <4>1
    <3>4. ASSUME NEW a \in Cluster, NEW j \in DOMAIN Chain[a], Chain[a][j] = c
          PROVE  a \notin Free /\ a < e.cluster
      <4>1. \E i \in DOMAIN Chain[a] : Chain[a][i] = <<c, k>>[1]
        BY <3>4
      <4>2. a \notin Free /\ a < ShippedDisk[<<c, k>>[1]].slot[<<c, k>>[2]].cluster
        BY <3>1, <4>1, CopiedAssumption
      <4> QED BY <4>2
    <3> QED BY <3>3, <3>4 DEF Onward, Before
  <2> QED BY <2>1, <2>2, <2>3 DEF Starts
<1>3. cwd \in Starts
  BY <1>1, VolumeAssumption, CopiedAssumption DEF Starts
<1>4. UpwardsOnly(taken)
  BY <1>1 DEF UpwardsOnly
<1> QED BY <1>1, <1>2, <1>3, <1>4 DEF ShowInv, Creating

\* The cluster that create_entry chooses is later than any directory that has
\* the sector in which it is linked.
LEMMA FreshOnward ==
  ASSUME NEW t, NEW w \in Cluster, NEW s \in Cluster \ {0}, NEW m \in Cluster,
         w \in t, s \in t, m \notin t, w \in Starts, s \in {w, Fat[w]}, UpwardsOnly(t),
         Cluster \ Free \subseteq t,
         NEW a \in Cluster, NEW j \in DOMAIN Chain[a], Chain[a][j] = s
  PROVE  Before(a, m)
<1>1. m \in Free
  OBVIOUS
<1> SUFFICES ASSUME a \in Free PROVE a < m
  BY <1>1 DEF Before
<1>2. /\ j \in 1 .. Len(Chain[a]) /\ Len(Chain[a]) \in Nat /\ Chain[a][1] = a
      /\ DOMAIN Chain[a] = 1 .. Len(Chain[a])
  BY ChainParts
<1>3. a \in Nat /\ m \in Nat /\ s \in Nat /\ w \in Nat
  BY VolumeAssumption
<1>4. \A b \in t \cap Free : b < m
  BY DEF UpwardsOnly
<1>5. CASE j = 1
  BY <1>2, <1>4, <1>5
<1>6. CASE j # 1
  <2> DEFINE p == Chain[a][j - 1]
  <2>1. /\ j - 1 \in Nat \ {0} /\ j - 1 < Len(Chain[a]) /\ (j - 1) + 1 = j
        /\ j - 1 \in DOMAIN Chain[a] /\ 1 \in DOMAIN Chain[a] /\ 1 <= j - 1 /\ 1 <= j
    BY <1>2, <1>6
  <2>2. p \in Cluster /\ s = Fat[p]
    BY <2>1, ChainNext
  <2>3. a <= p /\ a <= s
    <3>1. p # 0
      BY <2>2, VolumeAssumption
    <3> QED BY <1>2, <2>1, <3>1, ChainUp
  <2>4. CASE s = w
    <3>1. w \in Continued
      BY <2>2, <2>4 DEF Continued
    <3>2. w \in Free
      BY <3>1 DEF Starts
    <3> QED BY <1>3, <1>4, <2>3, <2>4, <3>2
  <2>5. CASE s = Fat[w]
    <3>1. p = w
      BY <2>2, <2>5, CopiedAssumption
    <3>2. CASE w \in Free
      BY <1>3, <1>4, <2>3, <3>1, <3>2
    <3>3. CASE w \notin Free
      <4>1. w \notin Continued
        BY <3>3 DEF Starts
      <4>2. j - 1 = 1
        <5> SUFFICES ASSUME j - 1 # 1 PROVE FALSE
          OBVIOUS
        <5>1. j - 2 \in Nat \ {0} /\ j - 2 < Len(Chain[a]) /\ (j - 2) + 1 = j - 1
          BY <1>2, <2>1
        <5>2. Chain[a][j - 2] \in Cluster /\ p = Fat[Chain[a][j - 2]]
          BY <5>1, ChainNext
        <5>3. w # 0
          BY <3>3 DEF Starts
        <5> QED BY <3>1, <4>1, <5>2, <5>3 DEF Continued
      <4> QED BY <1>2, <3>1, <3>3, <4>2
    <3> QED BY <3>2, <3>3
  <2> QED BY <2>4, <2>5
<1> QED BY <1>5, <1>6

\* One sector is written.
LEMMA ShowsWritten ==
  ASSUME NEW d \in [Cluster -> Sector], NEW b, NEW v, NEW l,
         DiskShows(d, l), b \in Cluster => SectorShows(b, v, l)
  PROVE  DiskShows([d EXCEPT ![b] = v], l)
<1> SUFFICES ASSUME NEW c \in Cluster
             PROVE  SectorShows(c, [d EXCEPT ![b] = v][c], l)
  BY DEF DiskShows
<1>1. CASE c = b
  <2>1. [d EXCEPT ![b] = v][c] = v
    BY <1>1
  <2> QED BY <1>1, <2>1
<1>2. CASE c # b
  <2>1. [d EXCEPT ![b] = v][c] = d[c]
    BY <1>2
  <2> QED BY <2>1 DEF DiskShows
<1> QED BY <1>1, <1>2

\* One entry changes, but neither its name, unless it goes, nor its cluster.
LEMMA ShowsEntry ==
  ASSUME NEW c, NEW v \in Sector, NEW i \in Slot, NEW w \in Entry, NEW l,
         SectorShows(c, v, l), Live(w) => w.name = v.slot[i].name,
         w.cluster = v.slot[i].cluster
  PROVE  SectorShows(c, [v EXCEPT !.slot = [v.slot EXCEPT ![i] = w]], l)
<1> DEFINE u == [v EXCEPT !.slot = [v.slot EXCEPT ![i] = w]]
<1>1. \A j \in Slot : u.slot[j] = IF j = i THEN w ELSE v.slot[j]
  BY DEF Sector
<1> HIDE DEF u
<1>2. SectorShows(c, u, l)
  <2> SUFFICES ASSUME NEW j \in Slot
               PROVE  /\ Live(u.slot[j]) => u.slot[j].cluster \in Starts \cup {0}
                      /\ l = {} /\ c # 0 /\ IsLink(u.slot[j]) => Onward(c, u.slot[j])
    BY DEF SectorShows
  <2>1. CASE j # i
    BY <1>1, <2>1 DEF SectorShows
  <2>2. CASE j = i
    <3>1. u.slot[j] = w
      BY <1>1, <2>2
    <3>2. Onward(c, v.slot[i]) => Onward(c, w)
      BY DEF Onward
    <3> QED BY <3>1, <3>2 DEF SectorShows, IsLink, Live
  <2> QED BY <2>1, <2>2
<1> QED BY <1>2 DEF u

\* Nothing is lost again once it is.
LEMMA ShowsLater ==
  ASSUME NEW d, NEW l, NEW l2, DiskShows(d, l), l2 = {} => l = {}
  PROVE  DiskShows(d, l2)
BY DEF DiskShows, SectorShows

LEMMA CreateInShows ==
  ASSUME DiskInv, CreateInv, ShowInv, NEW s \in Cluster, NEW n \in Name,
         NEW b \in BOOLEAN, s \in Taken, FreeSlots(disk[s]) # {}, CreateIn(s, n, b),
         \/ s = cwd
         \/ s = Fat[cwd] /\ FreeSlots(disk[cwd]) = {},
         UNCHANGED <<taken, disk, cwd, lost>>
  PROVE  ShowInv'
<1> DEFINE new == Min(Cluster \ taken)
           k == Min(FreeSlots(disk[s]))
           f == Filled(disk[s], k, n, b, new)
<1>1. new \in Cluster \ taken
  <2>1. Cluster \ taken # {} /\ Cluster \ taken \subseteq Nat
    BY VolumeAssumption DEF CreateIn
  <2> QED BY <2>1, Least
<1>2. k \in FreeSlots(disk[s]) /\ \A j \in FreeSlots(disk[s]) : k <= j
  <2>1. FreeSlots(disk[s]) \subseteq Nat
    BY DEF FreeSlots, Slot
  <2> QED BY <2>1, Least, LeastOfAll
<1>3. /\ op'.sector = s /\ op'.buffer = f /\ op'.cluster = new /\ op'.name = n
      /\ pc' = "fat"
  BY DEF CreateIn
<1>4. disk[s] \in Sector /\ cwd \in Cluster /\ k \in Slot /\ Slot \subseteq Nat
  BY <1>2 DEF DiskInv, TypeOK, FreeSlots, Slot
<1> HIDE DEF new, k
<1>5. /\ \A j \in Slot : j # k => f.slot[j] = disk[s].slot[j]
      /\ f.slot[k].name = n /\ f.slot[k].cluster = new
  <2>1. disk[s] \in Sector /\ k \in Slot /\ new \in Cluster
    BY <1>1, <1>4
  <2> QED BY ONLY <2>1, n \in Name, b \in BOOLEAN, FilledSector
<1> HIDE DEF f
<1>6. new \in Starts
  BY <1>1 DEF ShowInv, Starts
<1>7. ASSUME lost = {} PROVE (s # 0 => Onward(s, f.slot[k])) /\ new # cwd
  <2>1. /\ s \in taken /\ cwd \in taken /\ cwd \in Starts /\ UpwardsOnly(taken)
        /\ Cluster \ Free \subseteq taken
    BY <1>7 DEF ShowInv, CreateInv, Taken
  <2>2. s \in {cwd, Fat[cwd]}
    OBVIOUS
  <2>3. ASSUME s # 0 PROVE Onward(s, f.slot[k])
    <3> SUFFICES ASSUME NEW a \in Cluster, NEW j \in DOMAIN Chain[a], Chain[a][j] = s
                 PROVE  Before(a, new)
      BY <1>5 DEF Onward
    <3> QED BY <1>1, <1>4, <2>1, <2>2, <2>3, FreshOnward
  <2> QED BY <1>1, <2>1, <2>3
<1>8. SectorShows(s, f, lost)
  <2>1. SectorShows(s, disk[s], lost)
    BY DEF ShowInv, DiskShows
  <2> SUFFICES ASSUME NEW i \in Slot
               PROVE  /\ Live(f.slot[i]) => f.slot[i].cluster \in Starts \cup {0}
                      /\ lost = {} /\ s # 0 /\ IsLink(f.slot[i]) => Onward(s, f.slot[i])
    BY DEF SectorShows
  <2>2. CASE i = k
    BY <1>5, <1>6, <1>7, <2>2
  <2>3. CASE i # k
    BY <1>5, <2>1, <2>3 DEF SectorShows
  <2> QED BY <2>2, <2>3
<1>9. ASSUME lost = {} PROVE EntryInSight'
  <2>1. new # cwd
    BY <1>7, <1>9
  <2>2. ASSUME s = Fat[cwd], FreeSlots(disk[cwd]) = {}
        PROVE  \A i \in Slot : disk[cwd].slot[i].name # End
    BY <2>2 DEF FreeSlots
  <2>3. \A j \in 1 .. k : f.slot[j].name # End
    <3> SUFFICES ASSUME NEW j \in 1 .. k PROVE f.slot[j].name # End
      OBVIOUS
    <3>1. j \in Slot /\ j \in Nat /\ k \in Nat /\ j <= k
      BY <1>4, VolumeAssumption DEF Slot
    <3>2. CASE j = k
      BY <1>5, <3>2, VolumeAssumption
    <3>3. CASE j # k
      <4>1. j \notin FreeSlots(disk[s])
        BY <1>2, <3>1, <3>3
      <4> QED BY <1>5, <3>1, <3>3, <4>1 DEF FreeSlots
    <3> QED BY <3>2, <3>3
  <2> QED BY <1>3, <1>4, <1>5, <2>1, <2>2, <2>3 DEF EntryInSight
<1> QED BY <1>3, <1>6, <1>8, <1>9 DEF ShowInv, Creating

LEMMA CreateShows ==
  ASSUME DiskInv, CreateInv, ShowInv, NEW n \in Name, NEW b \in BOOLEAN, Create(n, b)
  PROVE  ShowInv'
<1>1. UNCHANGED <<taken, disk, cwd, lost>> /\ cwd \in Cluster /\ cwd \in Taken
  BY DEF Create, DiskInv, TypeOK, CreateInv
<1>2. CASE FreeSlots(disk[cwd]) # {}
  <2>1. CreateIn(cwd, n, b)
    BY <1>2 DEF Create
  <2> QED BY <1>1, <1>2, <2>1, CreateInShows
<1>3. CASE FreeSlots(disk[cwd]) = {}
  <2>1. Fat[cwd] \in Cluster
    BY <1>1, <1>3, VolumeAssumption DEF Create
  <2>2. CASE FreeSlots(disk[Fat[cwd]]) # {}
    <3>1. CreateIn(Fat[cwd], n, b)
      BY <1>3, <2>2 DEF Create
    <3>2. Fat[cwd] \in Taken
      <4>1. SectorOK(Fat[cwd], disk[Fat[cwd]], taken, lost)
        BY <2>1 DEF CreateInv, SectorsOK
      <4>2. Fat[cwd] # 0 => Fat[cwd] \in Continued
        BY <1>1 DEF Continued
      <4>3. 0 \in Taken
        BY DEF DiskInv, Taken
      <4> QED BY <2>2, <4>1, <4>2, <4>3 DEF SectorOK, FreeSlots, Taken
    <3> QED BY <1>1, <1>3, <2>1, <2>2, <3>1, <3>2, CreateInShows
  <2>3. CASE FreeSlots(disk[Fat[cwd]]) = {}
    <3>1. pc' = "hung"
      BY <1>3, <2>3 DEF Create
    <3> QED BY <1>1, <3>1 DEF ShowInv, Creating
  <2> QED BY <2>2, <2>3
<1> QED BY <1>2, <1>3

LEMMA MarkShows ==
  ASSUME DiskInv, CreateInv, ShowInv, MarkCluster
  PROVE  ShowInv'
<1>1. /\ UNCHANGED <<cwd, op>> /\ pc = "fat" /\ Creating
      /\ pc' \in {"dots", "link"} /\ disk' = disk
  BY DEF MarkCluster, WriteTimesOut, Creating
<1>2. lost' = {} => lost = {} /\ taken' = taken \cup {op.cluster}
  BY DEF MarkCluster
<1>3. taken \subseteq taken' /\ Cluster \ Free \subseteq taken'
  BY DEF MarkCluster, ShowInv
<1>4. ASSUME lost' = {} PROVE UpwardsOnly(taken')
  <2>1. /\ UpwardsOnly(taken) /\ taken' = taken \cup {op.cluster}
        /\ op.cluster \in Cluster /\ \A b \in Cluster \ taken : op.cluster <= b
    BY <1>1, <1>2, <1>4 DEF ShowInv, CreateInv, DiskInv
  <2> SUFFICES ASSUME NEW a \in taken' \cap Free, NEW b \in Cluster \ taken'
               PROVE  a < b
    BY DEF UpwardsOnly
  <2>2. CASE a = op.cluster
    <3>1. a \in Nat /\ b \in Nat /\ a <= b /\ a # b
      BY <2>1, <2>2, VolumeAssumption
    <3> QED BY <3>1
  <2>3. CASE a # op.cluster
    BY <2>1, <2>3 DEF UpwardsOnly
  <2> QED BY <2>2, <2>3
<1>5. DiskShows(disk', lost')
  BY <1>1, <1>2, ShowsLater DEF ShowInv
<1>6. SectorShows(op.sector, op.buffer, lost')
  BY <1>1, <1>2 DEF ShowInv, SectorShows
<1>7. lost' = {} => EntryInSight'
  BY <1>1, <1>2 DEF ShowInv, EntryInSight
<1> QED BY <1>1, <1>3, <1>4, <1>5, <1>6, <1>7 DEF ShowInv, Creating

LEMMA DotsShows ==
  ASSUME DiskInv, CreateInv, ShowInv, WriteDots
  PROVE  ShowInv'
<1>1. /\ UNCHANGED <<taken, cwd, op>> /\ pc = "dots" /\ pc' = "link" /\ Creating
      /\ op.cluster \in Cluster \ {0} /\ disk \in [Cluster -> Sector] /\ cwd \in Cluster
      /\ TypeOK
  BY DEF WriteDots, DiskInv, TypeOK, Creating
<1>2. CASE WriteSector(op.cluster, DotsSector) /\ UNCHANGED lost
  <2>1. disk' = [disk EXCEPT ![op.cluster] = DotsSector]
    BY <1>2 DEF WriteSector
  <2>2. SectorShows(op.cluster, DotsSector, lost)
    <3>1. \A i \in Slot : ~IsLink(DotsSector.slot[i])
      BY <1>1, DotsType DEF IsLink
    <3>2. \A i \in Slot : DotsSector.slot[i].cluster \in {op.cluster, cwd, 0}
      BY DEF DotsSector, EndEntry
    <3>3. op.cluster \in Starts /\ cwd \in Starts
      BY <1>1 DEF ShowInv
    <3> QED BY <3>1, <3>2, <3>3 DEF SectorShows
  <2>3. DiskShows(disk', lost)
    <3> DEFINE v == DotsSector
    <3> HIDE DEF v
    <3>1. DiskShows([disk EXCEPT ![op.cluster] = v], lost)
      BY <1>1, <2>2, ShowsWritten DEF ShowInv, v
    <3> QED BY <2>1, <3>1 DEF v
  <2>4. lost = {} => EntryInSight'
    <3>1. op.cluster # cwd => disk'[cwd] = disk[cwd]
      BY <1>1, <2>1
    <3> QED BY <1>1, <3>1 DEF ShowInv, EntryInSight
  <2> QED BY <1>1, <1>2, <2>3, <2>4 DEF ShowInv, Creating
<1>3. CASE WriteTimesOut /\ lost' = lost \cup {op.cluster}
  <2>1. disk' = disk /\ lost' # {}
    BY <1>3 DEF WriteTimesOut
  <2>2. DiskShows(disk', lost')
    BY <2>1, ShowsLater DEF ShowInv
  <2>3. SectorShows(op.sector, op.buffer, lost')
    BY <1>1, <2>1 DEF ShowInv, SectorShows
  <2> QED BY <1>1, <2>1, <2>2, <2>3 DEF ShowInv, Creating
<1> QED BY <1>2, <1>3 DEF WriteDots, WriteUnchecked

LEMMA LinkShows ==
  ASSUME DiskInv, CreateInv, ShowInv, LinkEntry
  PROVE  ShowInv'
<1>1. /\ UNCHANGED <<taken, cwd>> /\ pc = "link" /\ pc' = "idle" /\ Creating
      /\ disk \in [Cluster -> Sector]
  BY DEF LinkEntry, DiskInv, TypeOK, Creating
<1>2. CASE WriteSector(op.sector, op.buffer) /\ UNCHANGED lost
  <2>1. disk' = [disk EXCEPT ![op.sector] = op.buffer]
    BY <1>2 DEF WriteSector
  <2>2. DiskShows(disk', lost)
    BY <1>1, <2>1, ShowsWritten DEF ShowInv
  <2> QED BY <1>1, <1>2, <2>2 DEF ShowInv, Creating
<1>3. CASE WriteTimesOut /\ lost' = lost \cup {op.cluster}
  <2>1. disk' = disk /\ lost' # {}
    BY <1>3 DEF WriteTimesOut
  <2>2. DiskShows(disk', lost')
    BY <2>1, ShowsLater DEF ShowInv
  <2> QED BY <1>1, <2>1, <2>2 DEF ShowInv, Creating
<1> QED BY <1>2, <1>3 DEF LinkEntry, WriteUnchecked

LEMMA DeleteShows ==
  ASSUME DiskInv, ShowInv, NEW n \in Name, Delete(n)
  PROVE  ShowInv'
<1>1. /\ TypeOK /\ disk \in [Cluster -> Sector] /\ DiskShows(disk, lost)
      /\ UNCHANGED <<taken, lost, cwd, pc>> /\ pc = "idle"
  BY DEF DiskInv, TypeOK, ShowInv, Delete
<1>2. PICK x \in Find(cwd, n) :
        \/ WriteSector(x[1], [disk[x[1]] EXCEPT !.slot[x[2]].name = Deleted])
        \/ WriteTimesOut
  BY DEF Delete
<1>3. x \in Cells
  BY <1>1, FindCells DEF TypeOK
<1>4. DiskShows(disk', lost)
  <2>1. CASE WriteSector(x[1], [disk[x[1]] EXCEPT !.slot[x[2]].name = Deleted])
    <3> DEFINE v == disk[x[1]]
               w == [v.slot[x[2]] EXCEPT !.name = Deleted]
               u == [v EXCEPT !.slot = [v.slot EXCEPT ![x[2]] = w]]
    <3>1. v \in Sector /\ x[1] \in Cluster /\ x[2] \in Slot /\ v.slot[x[2]] \in Entry
      BY <1>1, <1>3 DEF Cells, Sector
    <3>2. w \in Entry /\ ~Live(w) /\ w.cluster = v.slot[x[2]].cluster
      BY <3>1, VolumeAssumption DEF Entry, Live
    <3>3. disk' = [disk EXCEPT ![x[1]] = u]
      BY <2>1 DEF WriteSector
    <3>4. SectorShows(x[1], v, lost)
      BY <1>1, <3>1 DEF DiskShows
    <3> HIDE DEF w, v
    <3>5. SectorShows(x[1], u, lost)
      BY <3>1, <3>2, <3>4, ShowsEntry
    <3> HIDE DEF u
    <3> QED BY <1>1, <3>3, <3>5, ShowsWritten
  <2>2. CASE WriteTimesOut
    BY <1>1, <2>2 DEF WriteTimesOut
  <2> QED BY <1>2, <2>1, <2>2
<1> QED BY <1>1, <1>4 DEF ShowInv, Creating

\* update_file_size; the entry it writes to has the size of what was written.
LEMMA SizeShows ==
  ASSUME DiskInv, ShowInv, UpdateFileSize
  PROVE  ShowInv'
<1>1. /\ TypeOK /\ disk \in [Cluster -> Sector] /\ DiskShows(disk, lost)
      /\ UNCHANGED <<taken, lost, cwd>> /\ pc' = "idle"
  BY DEF DiskInv, TypeOK, ShowInv, UpdateFileSize
<1>2. DiskShows(disk', lost)
  <2>1. ASSUME NEW x \in Find(cwd, op.name),
               WriteSector(x[1], [disk[x[1]] EXCEPT !.slot[x[2]].size = EchoSize])
        PROVE  DiskShows(disk', lost)
    <3> DEFINE v == disk[x[1]]
               w == [v.slot[x[2]] EXCEPT !.size = EchoSize]
               u == [v EXCEPT !.slot = [v.slot EXCEPT ![x[2]] = w]]
    <3>1. x \in Cells
      BY <1>1, FindCells DEF TypeOK
    <3>2. v \in Sector /\ x[1] \in Cluster /\ x[2] \in Slot /\ v.slot[x[2]] \in Entry
      BY <1>1, <3>1 DEF Cells, Sector
    <3>3. /\ w \in Entry /\ w.name = v.slot[x[2]].name
          /\ w.cluster = v.slot[x[2]].cluster
      BY <3>2 DEF Entry, EchoSize
    <3>4. disk' = [disk EXCEPT ![x[1]] = u]
      BY <2>1 DEF WriteSector
    <3>5. SectorShows(x[1], v, lost)
      BY <1>1, <3>2 DEF DiskShows
    <3> HIDE DEF w, v
    <3>6. SectorShows(x[1], u, lost)
      BY <3>2, <3>3, <3>5, ShowsEntry
    <3> HIDE DEF u
    <3> QED BY <1>1, <3>4, <3>6, ShowsWritten
  <2>2. CASE disk' = disk
    BY <1>1, <2>2
  <2> QED BY <2>1, <2>2 DEF UpdateFileSize, WriteTimesOut
<1> QED BY <1>1, <1>2 DEF ShowInv, Creating

\* The sector that echo writes is none of those a scan comes by on its way to
\* the file's entry.
LEMMA EchoShows ==
  ASSUME DiskInv, ShowInv, NEW n \in TxtName, NEW t \in Text, Echo(n, t)
  PROVE  ShowInv'
<1>1. /\ TypeOK /\ disk \in [Cluster -> Sector] /\ DiskShows(disk, lost)
      /\ UNCHANGED <<taken, lost, cwd>> /\ pc = "idle" /\ cwd \in Cluster
  BY DEF DiskInv, TypeOK, ShowInv, Echo
<1>2. PICK x \in Find(cwd, n) :
        \/ WriteSector(At(x).cluster, TextSector(t)) /\ EchoGoesOn(n, At(x).cluster)
        \/ WriteTimesOut /\ (UNCHANGED <<pc, op>> \/ EchoGoesOn(n, At(x).cluster))
  BY DEF Echo, EchoGoesOn
<1>3. n # End /\ n \notin {Dot, DotDot} /\ n \in Name
  BY VolumeAssumption DEF Name
<1>4. x \in Cells /\ At(x).name = n /\ Finds(disk, cwd, n, x)
  BY <1>1, <1>3, FindCells, FindFirst
<1> DEFINE v == TextSector(t)
           c == At(x).cluster
<1>5. /\ IsLink(At(x)) /\ x[1] \in Cluster /\ x[2] \in Slot
      /\ At(x) = disk[x[1]].slot[x[2]]
  BY <1>3, <1>4 DEF IsLink, Live, At, Cells
<1>6. c \in Cluster \ {0}
  <2>1. x \in LinksOn(disk)
    BY <1>4, <1>5 DEF LinksOn, IsLink, At, Cells
  <2>2. c \in Taken
    BY <2>1 DEF DiskInv, SoundDisk, ClusterOn, EntryOn, At
  <2>3. c # 0
    BY <1>4, <1>5 DEF DiskInv, SoundDisk, EntryOn, At, IsLink
  <2> QED BY <1>1, <2>2, <2>3 DEF TypeOK, Taken
<1>7. EchoGoesOn(n, c) => op'.cluster = c /\ op'.name = n /\ pc' = "size"
  BY DEF EchoGoesOn, NoOp
<1>8. CASE WriteTimesOut /\ (UNCHANGED <<pc, op>> \/ EchoGoesOn(n, c))
  <2>1. disk' = disk
    BY <1>8 DEF WriteTimesOut
  <2>2. CASE EchoGoesOn(n, c)
    <3>1. FileInSight'
      BY <1>1, <1>4, <1>6, <1>7, <2>1, <2>2 DEF FileInSight, At
    <3> QED BY <1>1, <1>7, <2>1, <2>2, <3>1 DEF ShowInv, Creating
  <2>3. CASE UNCHANGED <<pc, op>>
    BY <1>1, <2>1, <2>3 DEF ShowInv, Creating
  <2> QED BY <1>8, <2>2, <2>3
<1>9. CASE WriteSector(c, v) /\ EchoGoesOn(n, c)
  <2>1. disk' = [disk EXCEPT ![c] = v] /\ op'.cluster = c /\ op'.name = n
    BY <1>7, <1>9 DEF WriteSector
  <2>2. \A i \in Slot : ~Live(v.slot[i])
    BY TextType
  <2> HIDE DEF v
  <2>3. DiskShows(disk', lost)
    <3>1. SectorShows(c, v, lost)
      BY <2>2 DEF SectorShows, IsLink
    <3> QED BY <1>1, <2>1, <3>1, ShowsWritten
  <2>4. ASSUME lost = {}, ZeroUnused' PROVE FileInSight'
    <3>1. x[1] # 0
      <4>1. disk'[0] = disk[0]
        BY <1>1, <1>6, <2>1
      <4> QED BY <1>3, <1>4, <1>5, <2>4, <4>1 DEF ZeroUnused
    <3>2. Onward(x[1], At(x))
      BY <1>1, <1>5, <2>4, <3>1 DEF DiskShows, SectorShows
    <3>3. c \in Cluster
      BY <1>6
    <3> HIDE DEF c
    <3>4. PICK k \in DOMAIN Scan(cwd) :
            /\ x = Scan(cwd)[k] /\ EntryOn(disk, x).name = n
            /\ \A j \in DOMAIN Scan(cwd) :
                 j < k => EntryOn(disk, Scan(cwd)[j]).name \notin {End, n}
      BY <1>4 DEF Finds
    <3>5. ASSUME NEW j \in DOMAIN Scan(cwd), j <= k
          PROVE  EntryOn(disk', Scan(cwd)[j]) = EntryOn(disk, Scan(cwd)[j])
      <4>1. PICK a, b \in DOMAIN Chain[cwd] :
              a <= b /\ Scan(cwd)[j][1] = Chain[cwd][a] /\ Scan(cwd)[k][1] = Chain[cwd][b]
        BY <1>1, <3>5, ScanOrder
      <4>2. Scan(cwd)[j][1] # c
        <5> SUFFICES ASSUME Chain[cwd][a] = c PROVE FALSE
          BY <4>1
        <5>1. \E i \in DOMAIN Chain[c] : Chain[c][i] = x[1]
          BY <1>1, <3>4, <4>1, ChainTail
        <5>2. Before(c, c)
          BY <3>2, <3>3, <5>1 DEF Onward, c
        <5> QED BY <3>3, <5>2, VolumeAssumption DEF Before
      <4>3. Scan(cwd)[j][1] \in Cluster
        BY <1>1, ScanCells DEF Cells
      <4> QED BY <1>1, <2>1, <4>2, <4>3 DEF EntryOn
    <3>6. k <= k /\ \A j \in DOMAIN Scan(cwd) : j < k => j <= k
      BY DEF Scan
    <3>7. Finds(disk', cwd, n, x) /\ EntryOn(disk', x) = EntryOn(disk, x)
      BY <3>4, <3>5, <3>6 DEF Finds
    <3>8. At(x)' = EntryOn(disk', x) /\ At(x) = EntryOn(disk, x)
      BY DEF At, EntryOn
    <3> QED BY <1>1, <1>4, <2>1, <3>3, <3>7, <3>8 DEF FileInSight, c
  <2> QED BY <1>1, <1>7, <1>9, <2>3, <2>4 DEF ShowInv, Creating
<1> QED BY <1>2, <1>8, <1>9

LEMMA MovingShows ==
  ASSUME DiskInv, ShowInv, (\E n \in Name : Cd(n)) \/ CdUp \/ Crash
  PROVE  ShowInv'
<1>1. /\ UNCHANGED <<taken, lost, disk>> /\ ~Creating' /\ pc' = "idle"
      /\ TypeOK /\ DiskShows(disk, lost)
  BY DEF Cd, CdUp, Crash, Creating, DiskInv, ShowInv
<1>2. Root \in Starts
  BY VolumeAssumption, CopiedAssumption DEF Starts
<1>3. ASSUME NEW x \in Cells, Live(At(x)) PROVE At(x).cluster \in Starts \cup {0}
  BY <1>1, <1>3 DEF DiskShows, SectorShows, Cells, At
<1>4. ASSUME NEW n \in Name, Cd(n) PROVE cwd' \in Starts
  <2>1. PICK x \in FindDir(cwd, n) : cwd' = At(x).cluster
    BY <1>4 DEF Cd
  <2>2. x \in Cells /\ Live(At(x))
    BY <1>1, FindCells DEF TypeOK, Live
  <2>3. cwd' # 0
    <3>1. TypeOK'
      BY <1>4, CdKeeps DEF DiskInv
    <3> QED BY <3>1, VolumeAssumption DEF TypeOK
  <2> QED BY <1>3, <2>1, <2>2, <2>3
<1>5. ASSUME CdUp PROVE cwd' \in Starts
  <2>1. PICK x \in Find(cwd, DotDot) :
          cwd' = IF At(x).cluster = 0 THEN Root ELSE At(x).cluster
    BY <1>5 DEF CdUp
  <2>2. x \in Cells /\ Live(At(x))
    BY <1>1, FindCells DEF TypeOK, Live, Name
  <2> QED BY <1>2, <1>3, <2>1, <2>2
<1>6. ASSUME Crash PROVE cwd' \in Starts
  BY <1>2, <1>6 DEF Crash
<1>7. cwd' \in Starts
  BY <1>4, <1>5, <1>6
<1> QED BY <1>1, <1>7 DEF ShowInv

LEMMA ShowStep == DiskInv /\ CreateInv /\ ShowInv /\ [Next]_vars => ShowInv'
<1> SUFFICES ASSUME DiskInv, CreateInv, ShowInv, [Next]_vars PROVE ShowInv'
  OBVIOUS
<1>1. ASSUME NEW n \in TxtName, Touch(n) PROVE ShowInv'
  BY <1>1, CreateShows DEF Touch, Name
<1>2. ASSUME NEW n \in Name, Mkdir(n) PROVE ShowInv'
  BY <1>2, CreateShows DEF Mkdir
<1>3. ASSUME NEW n \in Name, Delete(n) PROVE ShowInv'
  BY <1>3, DeleteShows
<1>4. CASE (\E n \in Name : Cd(n)) \/ CdUp \/ Crash
  BY <1>4, MovingShows
<1>5. ASSUME NEW n \in TxtName, NEW t \in Text, Echo(n, t) PROVE ShowInv'
  BY <1>5, EchoShows
<1>6. CASE MarkCluster
  BY <1>6, MarkShows
<1>7. CASE WriteDots
  BY <1>7, DotsShows
<1>8. CASE LinkEntry
  BY <1>8, LinkShows
<1>9. CASE UpdateFileSize
  BY <1>9, SizeShows
<1>10. CASE UNCHANGED vars
  <2>1. UNCHANGED <<taken, disk, cwd, pc, op, lost>>
    BY <1>10 DEF vars
  <2> QED
    BY <2>1 DEF ShowInv, EntryInSight, FileInSight, At, Creating, ZeroUnused
<1> QED
  BY <1>1, <1>2, <1>3, <1>4, <1>5, <1>6, <1>7, <1>8, <1>9, <1>10 DEF Next

LEMMA ShowInvariant == Spec => [](DiskInv /\ CreateInv /\ ShowInv)
<1>1. Init => DiskInv /\ CreateInv /\ ShowInv
  BY DiskInit, CreateStarts, ShowStarts
<1>2. DiskInv /\ CreateInv /\ ShowInv /\ [Next]_vars => (DiskInv /\ CreateInv /\ ShowInv)'
  BY DiskStep, CreateStep, ShowStep
<1> QED
  BY <1>1, <1>2, PTL DEF Spec

\* ls lists a live cell that no End is in front of.
LEMMA InSightIsListed ==
  ASSUME cwd' \in Cluster, NEW k \in DOMAIN Scan(cwd'),
         Live(EntryOn(disk', Scan(cwd')[k])),
         \A j \in DOMAIN Scan(cwd') :
           j <= k => EntryOn(disk', Scan(cwd')[j]).name # End
  PROVE  EntryOn(disk', Scan(cwd')[k]).name \in Listed'
<1> DEFINE scan == Scan(cwd')
           ends == {j \in DOMAIN scan : EntryOn(disk', scan[j]).name = End}
           seen == {scan[j] : j \in {i \in DOMAIN scan : \A e \in ends : i < e}}
<1>1. DOMAIN scan \subseteq Int
  BY DEF Scan
<1> HIDE DEF scan
<1>2. \A e \in ends : k < e
  <2> SUFFICES ASSUME NEW e \in ends PROVE k < e
    OBVIOUS
  <2>1. e \in Int /\ k \in Int /\ ~(e <= k)
    BY <1>1 DEF scan
  <2> QED BY <2>1
<1>3. scan[k] \in seen
  BY <1>2 DEF scan
<1>4. Listed' = {EntryOn(disk', x).name : x \in {y \in seen : Live(EntryOn(disk', y))}}
  BY DEF Listed, Seen, At, EntryOn, Live, scan
<1> HIDE DEF seen
<1> QED BY <1>3, <1>4 DEF scan

\* create_entry's last write.
LEMMA LinkIsListed ==
  ASSUME DiskInv, ShowInv, LinkEntry, timeouts' = timeouts, lost = {}
  PROVE  op.name \in Listed'
<1>1. /\ EntryInSight /\ cwd \in Cluster /\ cwd' = cwd /\ op.name \in Name
      /\ disk \in [Cluster -> Sector] /\ op.sector \in Cluster
  BY DEF LinkEntry, ShowInv, DiskInv, TypeOK, Creating
<1>2. disk' = [disk EXCEPT ![op.sector] = op.buffer]
  <2>1. ~WriteTimesOut
    BY DEF WriteTimesOut, DiskInv, TypeOK
  <2> QED BY <2>1 DEF LinkEntry, WriteUnchecked, WriteSector
<1>3. disk'[op.sector] = op.buffer /\ \A c \in Cluster \ {op.sector} : disk'[c] = disk[c]
  BY <1>1, <1>2
<1>4. PICK i \in Slot : /\ op.buffer.slot[i].name = op.name
                        /\ \A j \in 1 .. i : op.buffer.slot[j].name # End
  BY <1>1 DEF EntryInSight
<1>5. Slots \in Nat /\ i \in 1 .. Slots
  BY VolumeAssumption DEF Slot
<1>6. DOMAIN Scan(cwd) \subseteq Nat \ {0}
  BY DEF Scan
<1>7. \A j \in 1 .. i : j \in Slot
  BY <1>5 DEF Slot
<1>8. CASE op.sector = cwd
  <2>1. i \in DOMAIN Scan(cwd) /\ \A j \in 1 .. i : Scan(cwd)[j] = <<cwd, j>>
    BY <1>1, <1>7, ScanBegins
  <2>2. \A j \in 1 .. i : EntryOn(disk', Scan(cwd)[j]) = op.buffer.slot[j]
    BY <1>3, <1>8, <2>1 DEF EntryOn
  <2>3. \A j \in DOMAIN Scan(cwd) : j <= i => j \in 1 .. i
    BY <1>5, <1>6
  <2>4. i \in 1 .. i
    BY <1>5
  <2>5. /\ EntryOn(disk', Scan(cwd)[i]).name = op.name
        /\ Live(EntryOn(disk', Scan(cwd)[i]))
        /\ \A j \in DOMAIN Scan(cwd) : j <= i => EntryOn(disk', Scan(cwd)[j]).name # End
    BY <1>1, <1>4, <2>2, <2>3, <2>4 DEF Live
  <2> QED BY <1>1, <2>1, <2>5, InSightIsListed
<1>9. CASE op.sector # cwd
  <2>1. /\ op.sector = Fat[cwd] /\ Fat[cwd] \in Cluster
        /\ \A j \in Slot : disk'[cwd].slot[j].name # End
    BY <1>1, <1>3, <1>9 DEF EntryInSight
  <2> DEFINE k == Slots + i
  <2>2. k \in DOMAIN Scan(cwd) /\ \A j \in 1 .. i : Scan(cwd)[Slots + j] = <<Fat[cwd], j>>
    BY <1>1, <1>7, <2>1, ScanBegins
  <2>3. \A j \in 1 .. i : EntryOn(disk', Scan(cwd)[Slots + j]) = op.buffer.slot[j]
    BY <1>3, <2>1, <2>2 DEF EntryOn
  <2>4. \A j \in Slot : EntryOn(disk', Scan(cwd)[j]).name # End
    <3>1. \A j \in Slot : Scan(cwd)[j] = <<cwd, j>>
      BY <1>1, ScanBegins
    <3> QED BY <2>1, <3>1 DEF EntryOn
  <2>5. ASSUME NEW j \in DOMAIN Scan(cwd), j <= k
        PROVE  EntryOn(disk', Scan(cwd)[j]).name # End
    <3>1. j \in Nat \ {0}
      BY <1>6
    <3>2. CASE j <= Slots
      <4>1. j \in Slot
        BY <1>5, <3>1, <3>2 DEF Slot
      <4> QED BY <2>4, <4>1
    <3>3. CASE ~(j <= Slots)
      <4>1. j - Slots \in 1 .. i /\ Slots + (j - Slots) = j
        BY <1>5, <2>5, <3>1, <3>3
      <4>2. EntryOn(disk', Scan(cwd)[Slots + (j - Slots)]) = op.buffer.slot[j - Slots]
        BY <2>3, <4>1
      <4> QED BY <1>4, <4>1, <4>2
    <3> QED BY <3>2, <3>3
  <2>6. EntryOn(disk', Scan(cwd)[k]) = op.buffer.slot[i] /\ k \in Nat
    <3>1. i \in 1 .. i
      BY <1>5
    <3> QED BY <1>5, <2>3, <3>1
  <2> HIDE DEF k
  <2>7. Live(EntryOn(disk', Scan(cwd)[k])) /\ EntryOn(disk', Scan(cwd)[k]).name = op.name
    BY <1>1, <1>4, <2>6 DEF Live
  <2>8. EntryOn(disk', Scan(cwd')[k]).name \in Listed'
    BY <1>1, <2>2, <2>5, <2>7, InSightIsListed DEF k
  <2> QED BY <1>1, <2>7, <2>8
<1> QED BY <1>8, <1>9

\* cat shows one sector of a file with the size echo gives it, the first one.
LEMMA OneSectorShown ==
  ASSUME NEW n \in Name, NEW x \in Cells, cwd' \in Cluster, Finds(disk', cwd', n, x),
         EntryOn(disk', x).cluster \in Cluster, EntryOn(disk', x).size = EchoSize
  PROVE  Shown(n)' = {disk'[EntryOn(disk', x).cluster].text}
<1> DEFINE c == EntryOn(disk', x).cluster
           chain == Chain[c]
           read == (EntryOn(disk', x).size + SectorSize - 1) \div SectorSize
<1>1. n # End
  BY VolumeAssumption
<1>2. Find(cwd, n)' = {x}
  BY <1>1, FirstIsFound DEF Find, First, At, EntryOn
<1>3. read = 1
  BY DEF EchoSize, SectorSize
<1>4. Len(chain) \in Nat /\ Len(chain) >= 1 /\ chain[1] = c
  BY ChainParts
<1> DEFINE Of(y) == {disk'[Chain[EntryOn(disk', y).cluster][k]].text :
          k \in 1 .. Min({(EntryOn(disk', y).size + SectorSize - 1) \div SectorSize,
                          Len(Chain[EntryOn(disk', y).cluster])})}
<1>5. Shown(n)' = UNION {Of(y) : y \in Find(cwd, n)'}
  BY DEF Shown, At, EntryOn
<1> HIDE DEF read, chain, c
<1>6. Min({read, Len(chain)}) = 1
  <2> DEFINE S == {read, Len(chain)}
  <2>1. S \subseteq Nat /\ S # {}
    BY <1>3, <1>4
  <2>2. 1 \in S /\ \A m \in S : 1 <= m
    BY <1>3, <1>4
  <2> HIDE DEF S
  <2>3. Min(S) \in S /\ Min(S) <= 1
    BY <2>1, <2>2, Least, LeastOfAll
  <2>4. Min(S) = 1
    <3> DEFINE m == Min(S)
    <3> HIDE DEF m
    <3>1. m \in Nat /\ m <= 1 /\ 1 <= m
      BY <2>1, <2>2, <2>3 DEF m
    <3>2. m = 1
      BY <3>1
    <3> QED BY <3>2 DEF m
  <2> QED BY <2>4 DEF S
<1>7. Shown(n)' = {disk'[chain[k]].text : k \in 1 .. Min({read, Len(chain)})}
  <2>1. Of(x) = {disk'[chain[k]].text : k \in 1 .. Min({read, Len(chain)})}
    BY DEF read, chain, c
  <2> HIDE DEF Of
  <2>2. Shown(n)' = Of(x)
    BY <1>2, <1>5
  <2> QED BY <2>1, <2>2
<1>8. 1 .. 1 = {1}
  OBVIOUS
<1>9. Shown(n)' = {disk'[chain[1]].text}
  BY <1>6, <1>7, <1>8
<1> QED BY <1>4, <1>9 DEF c

\* update_file_size writes the size of the entry that echo found.
LEMMA SizeIsShown ==
  ASSUME DiskInv, ShowInv, UpdateFileSize, timeouts' = timeouts, lost = {}, ZeroUnused,
         NEW n, NEW c, n = op.name, c = op.cluster
  PROVE  Shown(n)' = {disk[c].text}
<1>1. /\ FileInSight /\ cwd \in Cluster /\ cwd' = cwd /\ n \in Name
      /\ disk \in [Cluster -> Sector] /\ c \in Cluster
  BY DEF UpdateFileSize, ShowInv, DiskInv, TypeOK, FileInSight
<1>2. PICK x \in Cells : Finds(disk, cwd, n, x) /\ At(x).cluster = c
  BY <1>1 DEF FileInSight
<1>3. n # End
  BY <1>1, VolumeAssumption
<1>4. Find(cwd, n) = {x}
  BY <1>1, <1>2, <1>3, FindFirst
<1>5. WriteSector(x[1], [disk[x[1]] EXCEPT !.slot[x[2]].size = EchoSize])
  <2>1. ~WriteTimesOut
    BY DEF WriteTimesOut, DiskInv, TypeOK
  <2> QED BY <1>4, <2>1 DEF UpdateFileSize
<1> DEFINE v == disk[x[1]]
           w == [v.slot[x[2]] EXCEPT !.size = EchoSize]
           u == [v EXCEPT !.slot = [v.slot EXCEPT ![x[2]] = w]]
<1>6. v \in Sector /\ x[1] \in Cluster /\ x[2] \in Slot /\ v.slot[x[2]] \in Entry
  BY <1>1 DEF Cells, Sector
<1>7. /\ w.name = v.slot[x[2]].name /\ w.cluster = v.slot[x[2]].cluster
      /\ w.size = EchoSize
  BY <1>6 DEF Entry
<1>8. disk' = [disk EXCEPT ![x[1]] = u]
  BY <1>5 DEF WriteSector
<1> HIDE DEF w
<1>9. u.text = v.text /\ \A j \in Slot : u.slot[j] = IF j = x[2] THEN w ELSE v.slot[j]
  BY <1>6 DEF Sector
<1> HIDE DEF u
<1>10. /\ \A y \in Cells : EntryOn(disk', y).name = EntryOn(disk, y).name
       /\ \A b \in Cluster : disk'[b].text = disk[b].text
       /\ EntryOn(disk', x) = w
  <2>1. ASSUME NEW y \in Cells PROVE EntryOn(disk', y).name = EntryOn(disk, y).name
    <3>1. y[1] \in Cluster /\ y[2] \in Slot
      BY DEF Cells
    <3>2. CASE y[1] = x[1]
      BY <1>1, <1>7, <1>8, <1>9, <3>1, <3>2 DEF EntryOn
    <3>3. CASE y[1] # x[1]
      BY <1>1, <1>8, <3>1, <3>3 DEF EntryOn
    <3> QED BY <3>2, <3>3
  <2>2. \A b \in Cluster : disk'[b].text = disk[b].text
    BY <1>1, <1>8, <1>9
  <2>3. EntryOn(disk', x) = w
    BY <1>1, <1>6, <1>8, <1>9 DEF EntryOn
  <2> QED BY <2>1, <2>2, <2>3
<1>11. Finds(disk', cwd, n, x)
  <2>1. \A k \in DOMAIN Scan(cwd) : Scan(cwd)[k] \in Cells
    BY <1>1, ScanCells
  <2> QED BY <1>2, <1>10, <2>1 DEF Finds
<1>12. EntryOn(disk', x).cluster = c /\ EntryOn(disk', x).size = EchoSize
  BY <1>2, <1>7, <1>10 DEF At
<1>13. Shown(n)' = {disk'[c].text}
  BY <1>1, <1>11, <1>12, OneSectorShown
<1> QED BY <1>1, <1>10, <1>13

\* ls lists what touch and mkdir have just created, and cat shows what echo has
\* just written to a file and nothing else, in whatever state deleted and new
\* entries have left the directory; unless a write failed, now or earlier for
\* create_entry, or for cat, something was ever created in cluster 0.
THEOREM CommandsAreShown == Spec => CommandsShow
<1> DEFINE Shows ==
      timeouts' = timeouts /\ lost = {} =>
        /\ pc = "link" /\ calls' = calls => \A n \in {op.name} : n \in Listed'
        /\ pc = "size" /\ calls' = calls /\ ZeroUnused =>
             \A n \in {op.name}, c \in {op.cluster} : Shown(n)' = {disk[c].text}
<1>1. DiskInv /\ ShowInv /\ Next => Shows
  <2> SUFFICES ASSUME DiskInv, ShowInv, Next, timeouts' = timeouts, lost = {},
                      calls' = calls
               PROVE  /\ pc = "link" => \A n \in {op.name} : n \in Listed'
                      /\ pc = "size" /\ ZeroUnused =>
                           \A n \in {op.name}, c \in {op.cluster} :
                             Shown(n)' = {disk[c].text}
    OBVIOUS
  <2>1. ~CdUp /\ ~Crash
    BY DEF CdUp, Crash, DiskInv, TypeOK
  <2>2. pc = "link" => LinkEntry
    BY <2>1 DEF Next, Touch, Mkdir, Create, Delete, Cd, Echo, MarkCluster, WriteDots,
                UpdateFileSize
  <2>3. pc = "size" => UpdateFileSize
    BY <2>1 DEF Next, Touch, Mkdir, Create, Delete, Cd, Echo, MarkCluster, WriteDots,
                LinkEntry
  <2>4. ASSUME pc = "link", NEW n \in {op.name} PROVE n \in Listed'
    BY <2>2, <2>4, LinkIsListed
  <2>5. ASSUME pc = "size", ZeroUnused, NEW n \in {op.name}, NEW c \in {op.cluster}
        PROVE  Shown(n)' = {disk[c].text}
    BY <2>3, <2>5, SizeIsShown
  <2> QED BY <2>4, <2>5
<1>2. DiskInv /\ ShowInv /\ [Next]_vars => [Shows]_vars
  BY <1>1
<1> QED
  BY <1>2, ShowInvariant, PTL DEF Spec, CommandsShow

-----------------------------------------------------------------------------
(***************************************************************************)
(* The prompt ends.                                                        *)
(***************************************************************************)

\* find_directory_name in directory c, when r says what it answers one level
\* deeper (n is the depth it may still go).
Row(n, r) ==
  [c \in Cluster |->
    IF n = 0 THEN "endless"
    ELSE LET Leads(e) == e.dir /\ e.cluster = cwd
             Below(e) == IF e.dir /\ e.cluster # 0 THEN r[e.cluster] ELSE "none"
             EntryAt(k) == At(Scan(c)[k])
             hits == {k \in SubEntries(c) :
                        Leads(EntryAt(k)) \/ Below(EntryAt(k)) # "none"}
         IN  IF hits = {} THEN "none"
             ELSE LET e == EntryAt(Min(hits))
                  IN  IF Leads(e) THEN "found" ELSE Below(e)]

\* The recursion defines a function.
LEMMA NameBelowIs ==
  NameBelow = [n \in 0 .. Cardinality(Cluster) + 1 |-> Row(n, NameBelow[n - 1])]
<1> DEFINE Is(f, m) == f = [n \in 0 .. m |-> Row(n, f[n - 1])]
           Bad == {m \in Nat : \A f : ~Is(f, m)}
<1>1. ASSUME Bad # {} PROVE FALSE
  <2> DEFINE m == Min(Bad)
  <2>1. Bad \subseteq Nat
    OBVIOUS
  <2> HIDE DEF Bad
  <2>2. m \in Bad /\ \A q \in Bad : m <= q
    BY <1>1, <2>1, Least, LeastOfAll
  <2> HIDE DEF m
  <2>3. m \in Nat /\ \A f : ~Is(f, m)
    BY <2>2 DEF Bad
  <2>4. CASE m = 0
    <3> DEFINE g == [n \in 0 .. 0 |-> Row(0, 0)]
    <3>1. \A r : Row(0, r) = Row(0, 0)
      BY DEF Row
    <3> HIDE DEF Row
    <3>2. 0 .. 0 = {0}
      OBVIOUS
    <3>3. g = [n \in 0 .. 0 |-> Row(n, g[n - 1])]
      BY <3>1, <3>2
    <3> HIDE DEF g
    <3> QED BY <2>3, <2>4, <3>3
  <2>5. CASE m # 0
    <3>1. m - 1 \in Nat /\ ~(m <= m - 1)
      BY <2>3, <2>5
    <3>2. PICK f : Is(f, m - 1)
      BY <2>2, <3>1 DEF Bad
    <3> HIDE DEF Row
    <3> DEFINE g == [n \in 0 .. m |-> IF n = m THEN Row(m, f[m - 1]) ELSE f[n]]
    <3>3. ASSUME NEW n \in 0 .. m PROVE g[n] = Row(n, g[n - 1])
      <4>1. CASE n = 0
        <5>1. n \in 0 .. m - 1 /\ n # m
          BY <2>3, <2>5, <3>1, <4>1
        <5>2. g[n] = Row(n, f[n - 1])
          BY <3>2, <5>1
        <5>3. \A r : Row(0, r) = Row(0, 0)
          BY DEF Row
        <5> HIDE DEF g
        <5> QED BY <4>1, <5>2, <5>3
      <4>2. CASE n = m /\ n # 0
        <5>1. m - 1 \in 0 .. m /\ m - 1 # m /\ m \in 0 .. m
          BY <2>3, <2>5
        <5>2. g[m - 1] = f[m - 1] /\ g[m] = Row(m, f[m - 1])
          BY <5>1
        <5> HIDE DEF g
        <5> QED BY <4>2, <5>2
      <4>3. CASE n # m /\ n # 0
        <5>1. /\ n \in 0 .. m - 1 /\ n - 1 \in 0 .. m - 1 /\ n - 1 \in 0 .. m
              /\ n - 1 # m
          BY <2>3, <3>1, <4>3
        <5>2. g[n] = f[n] /\ g[n - 1] = f[n - 1]
          BY <4>3, <5>1
        <5>3. f[n] = Row(n, f[n - 1])
          BY <3>2, <5>1
        <5> HIDE DEF g
        <5> QED BY <5>2, <5>3
      <4> QED BY <4>1, <4>2, <4>3
    <3>4. g = [n \in 0 .. m |-> g[n]]
      OBVIOUS
    <3> HIDE DEF g
    <3>5. Is(g, m)
      BY <3>3, <3>4
    <3> HIDE DEF Is
    <3> QED BY <2>3, <3>5
  <2> QED BY <2>4, <2>5
<1> DEFINE M == Cardinality(Cluster) + 1
<1>2. M \in Nat
  BY VolumeAssumption, FS_CardinalityType
<1>3. NameBelow = CHOOSE f : f = [n \in 0 .. M |-> Row(n, f[n - 1])]
  BY Zenon DEF NameBelow, Row
<1> HIDE DEF M, Row
<1>4. \E f : Is(f, M)
  BY <1>1, <1>2
<1>5. NameBelow = [n \in 0 .. M |-> Row(n, NameBelow[n - 1])]
  BY <1>3, <1>4, Zenon
<1> QED BY <1>5 DEF M

\* How many clusters come before c.
Rank(c) == Cardinality({b \in Cluster : Before(b, c)})

LEMMA RankGrows ==
  ASSUME NEW a \in Cluster, NEW c \in Cluster
  PROVE  /\ Rank(c) \in Nat /\ Rank(c) <= Cardinality(Cluster)
         /\ Before(a, c) => Rank(a) + 1 <= Rank(c)
<1> DEFINE Prior(x) == {b \in Cluster : Before(b, x)}
<1>1. IsFiniteSet(Cluster) /\ Cluster \subseteq Nat
  BY VolumeAssumption
<1>2. \A x : /\ IsFiniteSet(Prior(x)) /\ Cardinality(Prior(x)) \in Nat
             /\ Cardinality(Prior(x)) <= Cardinality(Cluster)
  <2> SUFFICES ASSUME NEW x
               PROVE  /\ IsFiniteSet(Prior(x)) /\ Cardinality(Prior(x)) \in Nat
                      /\ Cardinality(Prior(x)) <= Cardinality(Cluster)
    OBVIOUS
  <2>1. Prior(x) \subseteq Cluster
    OBVIOUS
  <2> HIDE DEF Prior
  <2> QED BY <1>1, <2>1, FS_Subset, FS_CardinalityType
<1>3. ASSUME Before(a, c) PROVE Rank(a) + 1 <= Rank(c)
  <2>1. a \notin Prior(a)
    BY <1>1 DEF Before
  <2>2. Prior(a) \cup {a} \subseteq Prior(c)
    <3>1. a \in Prior(c)
      BY <1>3
    <3>2. ASSUME NEW b \in Cluster, Before(b, a) PROVE Before(b, c)
      <4>1. a \in Nat /\ b \in Nat /\ c \in Nat
        BY <1>1
      <4> QED BY <1>3, <3>2, <4>1 DEF Before
    <3> QED BY <3>1, <3>2
  <2> DEFINE Sa == Prior(a)
             Sc == Prior(c)
  <2>3. Rank(a) = Cardinality(Sa) /\ Rank(c) = Cardinality(Sc)
    BY DEF Rank
  <2>4. IsFiniteSet(Sa) /\ IsFiniteSet(Sc)
    BY <1>2
  <2> HIDE DEF Prior, Sa, Sc
  <2>5. Cardinality(Sa \cup {a}) = Cardinality(Sa) + 1
    BY <2>1, <2>4, FS_AddElement DEF Sa
  <2>6. Cardinality(Sa \cup {a}) <= Cardinality(Sc)
    BY <2>2, <2>4, FS_Subset DEF Sa, Sc
  <2> QED BY <2>3, <2>5, <2>6
<1> QED BY <1>2, <1>3 DEF Rank

\* Every entry that the search follows leads to a later directory.
LEMMA SearchGoesOn ==
  ASSUME DiskInv, ShowInv, lost = {}, ZeroUnused,
         NEW c \in Cluster, NEW k \in SubEntries(c)
  PROVE  LET e == At(Scan(c)[k]) IN e.cluster \in Cluster /\ Before(c, e.cluster)
<1> DEFINE x == Scan(c)[k]
<1>1. k \in DOMAIN Scan(c) /\ Live(At(x)) /\ At(x).name \notin {Dot, DotDot}
  BY DEF SubEntries
<1>2. x \in Cells /\ At(x) = disk[x[1]].slot[x[2]]
  BY <1>1, ScanCells DEF At
<1>3. \E j \in DOMAIN Chain[c] : Chain[c][j] = x[1]
  <2>1. k <= k
    BY <1>1 DEF Scan
  <2> QED BY <1>1, <2>1, ScanOrder
<1> HIDE DEF x
<1>4. Onward(x[1], At(x))
  <2>1. IsLink(At(x)) /\ x[1] \in Cluster /\ x[2] \in Slot
    BY <1>1, <1>2 DEF IsLink, Cells
  <2>2. x[1] # 0
    BY <1>1, <1>2, <2>1, VolumeAssumption DEF ZeroUnused, Live
  <2> QED BY <1>2, <2>1, <2>2 DEF ShowInv, DiskShows, SectorShows
<1>5. Before(c, At(x).cluster)
  BY <1>3, <1>4 DEF Onward
<1>6. At(x).cluster \in Cluster
  <2>1. x \in LinksOn(disk)
    BY <1>1, <1>2 DEF LinksOn, Cells, At
  <2>2. At(x).cluster \in Taken
    BY <2>1 DEF DiskInv, SoundDisk, ClusterOn, EntryOn, At
  <2> QED BY <2>2 DEF DiskInv, TypeOK, Taken
<1> QED BY <1>5, <1>6 DEF x

\* A search that is still going on at depth n has come by that many clusters.
LEMMA SearchDepth ==
  ASSUME DiskInv, ShowInv, lost = {}, ZeroUnused
  PROVE  \A n \in 0 .. Cardinality(Cluster) + 1 : \A c \in Cluster :
           NameBelow[n][c] = "endless" => Rank(c) + n <= Cardinality(Cluster)
<1> DEFINE N == Cardinality(Cluster)
           Holds(n) == \A c \in Cluster : NameBelow[n][c] = "endless" => Rank(c) + n <= N
           Bad == {n \in Nat : n \in 0 .. N + 1 /\ ~Holds(n)}
<1>1. N \in Nat
  BY VolumeAssumption, FS_CardinalityType
<1>2. \A n \in 0 .. N + 1 : NameBelow[n] = Row(n, NameBelow[n - 1])
  <2> DEFINE F(n) == Row(n, NameBelow[n - 1])
  <2>1. NameBelow = [n \in 0 .. N + 1 |-> F(n)]
    BY NameBelowIs, Zenon
  <2> HIDE DEF F
  <2>2. \A n \in 0 .. N + 1 : NameBelow[n] = F(n)
    BY <2>1, Zenon
  <2> QED BY <2>2 DEF F
<1> HIDE DEF N
<1>3. ASSUME Bad # {} PROVE FALSE
  <2> DEFINE n == Min(Bad)
  <2>1. Bad \subseteq Nat
    OBVIOUS
  <2> HIDE DEF Bad
  <2>2. n \in Bad /\ \A m \in Bad : n <= m
    BY <1>3, <2>1, Least, LeastOfAll
  <2> HIDE DEF n
  <2>3. n \in Nat /\ n \in 0 .. N + 1 /\ ~Holds(n)
    BY <2>2 DEF Bad
  <2>4. PICK c \in Cluster : NameBelow[n][c] = "endless" /\ ~(Rank(c) + n <= N)
    BY <2>3
  <2> HIDE DEF Holds
  <2>5. Rank(c) \in Nat /\ Rank(c) <= N
    BY RankGrows DEF N
  <2>6. n # 0
    BY <1>1, <2>4, <2>5
  <2>7. n - 1 \in 0 .. N + 1 /\ n - 1 \in Nat /\ ~(n <= n - 1)
    BY <1>1, <2>3, <2>6
  <2>8. Holds(n - 1)
    BY <2>2, <2>7 DEF Bad
  <2> DEFINE r == NameBelow[n - 1]
             Leads(e) == e.dir /\ e.cluster = cwd
             Below(e) == IF e.dir /\ e.cluster # 0 THEN r[e.cluster] ELSE "none"
             EntryAt(k) == At(Scan(c)[k])
             hits == {k \in SubEntries(c) :
                        Leads(EntryAt(k)) \/ Below(EntryAt(k)) # "none"}
  <2>9. NameBelow[n] = Row(n, r)
    BY <1>2, <2>3
  <2> HIDE DEF r
  <2>10. Row(n, r)[c] =
           IF hits = {} THEN "none"
           ELSE IF Leads(EntryAt(Min(hits))) THEN "found" ELSE Below(EntryAt(Min(hits)))
    BY <2>6 DEF Row
  <2>11. hits \subseteq Nat
    <3>1. DOMAIN Scan(c) \subseteq Nat
      BY DEF Scan
    <3>2. SubEntries(c) \subseteq DOMAIN Scan(c)
      BY DEF SubEntries
    <3> QED BY <3>1, <3>2
  <2>12. hits \subseteq SubEntries(c)
    OBVIOUS
  <2> HIDE DEF hits
  <2>13. hits # {} /\ Below(EntryAt(Min(hits))) = "endless"
    BY <2>4, <2>9, <2>10
  <2>14. Min(hits) \in SubEntries(c)
    BY <2>11, <2>12, <2>13, Least
  <2> DEFINE b == EntryAt(Min(hits)).cluster
  <2>15. r[b] = "endless"
    BY <2>13
  <2>16. b \in Cluster /\ Before(c, b)
    BY <2>14, SearchGoesOn
  <2> HIDE DEF b
  <2>17. Rank(b) + (n - 1) <= N
    BY <2>8, <2>15, <2>16 DEF r, Holds
  <2>18. Rank(c) + 1 <= Rank(b) /\ Rank(b) \in Nat
    BY <2>16, RankGrows
  <2> QED BY <1>1, <2>3, <2>4, <2>5, <2>17, <2>18
<1>4. ASSUME NEW n \in 0 .. N + 1 PROVE Holds(n)
  <2>1. n \in Nat
    BY <1>1
  <2> HIDE DEF Holds
  <2> QED BY <1>3, <2>1
<1> QED BY <1>4 DEF N

\* The prompt ends, for every volume and any commands and power failures, as
\* long as no write of create_entry was lost and no full directory has gone on
\* in cluster 0: an entry always leads to a directory that was made later, so
\* the search never returns to one.
THEOREM PromptAlwaysEnds == Spec => []PromptEnds
<1>1. DiskInv /\ CreateInv /\ ShowInv => PromptEnds
  <2> SUFFICES ASSUME DiskInv, ShowInv, lost = {}, ZeroUnused, cwd # Root,
                      Prompt = "endless"
               PROVE  FALSE
    BY DEF PromptEnds, Prompt
  <2> DEFINE N == Cardinality(Cluster)
  <2>1. N \in Nat /\ Root \in Cluster
    BY VolumeAssumption, FS_CardinalityType
  <2>2. N + 1 \in 0 .. N + 1
    BY <2>1
  <2>3. NameBelow[N + 1][Root] = "endless"
    BY DEF Prompt
  <2>4. Rank(Root) + (N + 1) <= N
    BY <2>1, <2>2, <2>3, SearchDepth
  <2>5. Rank(Root) \in Nat
    BY <2>1, RankGrows
  <2> HIDE DEF N
  <2> QED BY <2>1, <2>4, <2>5
<1> QED BY <1>1, ShowInvariant, PTL
=============================================================================
