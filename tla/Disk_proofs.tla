---------------------------- MODULE Disk_proofs ----------------------------
(***************************************************************************)
(* What the disk driver promises, for every size of a sector, every disk   *)
(* and any number of commands and of failures of the drive.                *)
(***************************************************************************)
EXTENDS AtaDisk, SequenceTheorems, TLAPS

Kind == {"none", "identify", "read", "write"}
Reading == {"poll", "words in"}
Writing == {"wait bsy", "wait drq", "words out", "flush", "wait flush"}
Label == {"idle", "done", "select", "low", "command"} \cup Reading \cup Writing
Operation ==
  [kind : Kind, sector : Sector, pc : Label, buf : Seq(Nat), data : Nat,
   refused : BOOLEAN, result : {0, -1}]

Status == {"idle", "error", "busy", "in", "out"}
DriveCommand == {"none", "identify", "read", "write", "store", "flush"}
DriveState ==
  [status : Status, cmd : DriveCommand, lba : Sector, words : Seq(Nat)]
Content == {w \in Seq(Nat) : Len(w) = WordsPerSector}
OnMedium == 0 .. medium.size - 1

\* What the state of the operation has to do with how far it is.
OperationOK ==
  /\ op.pc \in {"words in", "words out"} => Len(op.buf) < WordsPerSector
  /\ op.pc \notin {"words in", "words out", "flush", "wait flush", "done"} =>
       op.buf = <<>>
  /\ Len(op.buf) <= WordsPerSector
  /\ op.pc \in {"select", "low"} => op.kind \in {"read", "write"}
  /\ op.pc = "command" => op.kind \in {"read", "write", "identify"}
  /\ op.pc \in Reading => op.kind \in {"read", "identify"}
  /\ op.pc \in Writing => op.kind = "write"

DriveOK ==
  /\ drive.status = "in" => Len(drive.words) \in 1 .. WordsPerSector
  /\ drive.status = "out" => Len(drive.words) < WordsPerSector /\ OnDisk
  /\ drive.status = "busy" => drive.cmd # "none"
  /\ drive.status = "busy" /\ drive.cmd = "write" => drive.words = <<>>
  /\ drive.status = "busy" /\ drive.cmd = "store" =>
       Len(drive.words) = WordsPerSector /\ OnDisk

DiskTypes ==
  /\ medium \in Media /\ next \in Sector /\ listed \in Nat
  /\ op \in Operation
  /\ hi \in 0 .. Base - 1 /\ lo \in 0 .. Base - 1
  /\ drive \in DriveState /\ disk \in [OnMedium -> Content]
  /\ dsp \in {-1, 0, 1} /\ commands \in Nat
  /\ timedOut \in BOOLEAN

\* main only reads, and mount the sector it looks at.
Roles ==
  /\ boot # "prompt" => op.kind # "write" /\ ~timedOut
  /\ boot = "boot sector" /\ op.pc # "idle" => op.kind = "read" /\ op.sector = next

Busy(cmd) == drive.status = "busy" /\ drive.cmd = cmd
Stored == \A k \in 1 .. WordsPerSector : disk[op.sector][k] = op.data

\* Where the operation is says what the drive holds.
AtRegisters ==
  /\ op.pc = "select" => Free
  /\ op.pc = "low" => Free /\ hi = op.sector \div Base
  /\ op.pc = "command" =>
       Free /\ (op.kind # "identify" => hi * Base + lo = op.sector)

\* The words of a sector that is read: those in buf and those still to come.
HalfRead(w) ==
  /\ Len(op.buf) + Len(drive.words) = WordsPerSector
  /\ \A k \in 1 .. Len(op.buf) : op.buf[k] = w[k]
  /\ \A k \in 1 .. Len(drive.words) : drive.words[k] = w[Len(op.buf) + k]

AtRead ==
  /\ op.pc = "poll" =>
       \/ drive.status = "error" \/ (Busy(op.kind) /\ drive.lba = op.sector)
       \/ drive.status = "in" /\ op.sector \in OnMedium /\ drive.words = disk[op.sector]
  /\ op.pc = "words in" =>
       drive.status = "in" /\ op.sector \in OnMedium /\ HalfRead(disk[op.sector])
  /\ op.pc = "done" => op.sector \in OnMedium

AtIdentify ==
  /\ op.pc = "poll" =>
       \/ drive.status = "error" \/ Busy("identify")
       \/ drive.status = "in" /\ Len(drive.words) = WordsPerSector
  /\ op.pc = "words in" =>
       drive.status = "in" /\ Len(op.buf) + Len(drive.words) = WordsPerSector

\* A store that is under way, or what it has come to.
InStore ==
  /\ Busy("store") /\ \A k \in 1 .. WordsPerSector : drive.words[k] = op.data
AfterStore ==
  /\ op.sector \in OnMedium /\ (op.refused \/ Stored)
  /\ Free \/ (op.pc = "wait flush" /\ Busy("flush"))

AtWrite ==
  /\ op.pc \in {"wait bsy", "wait drq"} =>
       \/ drive.status = "error"
       \/ /\ drive.lba = op.sector
          /\ \/ drive.status = "out" /\ drive.words = <<>>
             \/ op.pc = "wait bsy" /\ Busy("write")
  /\ op.pc = "words out" =>
       /\ drive.lba = op.sector /\ drive.status = "out"
       /\ drive.words = op.buf
       /\ \A k \in 1 .. Len(op.buf) : op.buf[k] = op.data
  /\ op.pc \in {"flush", "wait flush"} =>
       drive.lba = op.sector /\ (InStore \/ AfterStore)

InPlace ==
  /\ AtRegisters /\ AtWrite
  /\ op.kind = "read" => AtRead
  /\ op.kind = "identify" => AtIdentify
  /\ op.pc \in {"idle", "done"} => Free

DiskInv ==
  DiskTypes /\ OperationOK /\ DriveOK /\ Roles /\ (~timedOut => InPlace)

LEMMA Numbers ==
  /\ Base \in Nat /\ Base > 0 /\ WordsPerSector \in Nat /\ WordsPerSector > 0
  /\ 0 \in Sector /\ Sectors \subseteq Sector /\ FirstSearched \in Sector
<1>1. Base * Base \in Nat /\ Base * Base > 0
  <2>1. \A m, n \in Nat \ {0} : m * n \in Nat /\ m * n > 0
    OBVIOUS
  <2> QED BY <2>1, DiskAssumption
<1> QED BY <1>1, DiskAssumption DEF Sector

LEMMA NothingBelow == \A m \in {0} : \A k \in 1 .. m : FALSE
OBVIOUS

LEMMA MediumSize ==
  \A m \in Media : /\ m.size \in 1 .. Base * Base - 1 /\ m.volume \in Sector
                   /\ m.listing \in Seq(Sector)
                   /\ 0 .. m.size - 1 \subseteq Sector /\ m.size \in Sector
<1> SUFFICES ASSUME NEW m \in Media
             PROVE  /\ m.size \in 1 .. Base * Base - 1 /\ m.volume \in Sector
                    /\ m.listing \in Seq(Sector)
                    /\ 0 .. m.size - 1 \subseteq Sector /\ m.size \in Sector
  OBVIOUS
<1>1. /\ m.size \in 1 .. Base * Base - 1 /\ m.volume \in Sector
      /\ m.listing \in Seq(Sector)
  BY DiskAssumption DEF Medium
<1>2. Base * Base \in Int
  BY Numbers
<1>3. \A q \in Int : \A n \in 1 .. q - 1 : 0 .. n - 1 \subseteq 0 .. q - 1 /\ n \in 0 .. q - 1
  OBVIOUS
<1> QED BY <1>1, <1>2, <1>3 DEF Sector

\* The registers hold every sector number, in its two parts.
LEMMA SectorInParts ==
  /\ \A s \in Sector : /\ s \div Base \in 0 .. Base - 1
                       /\ s % Base \in 0 .. Base - 1
                       /\ ((s \div Base) * Base) + (s % Base) = s
  /\ \A h, l \in 0 .. Base - 1 : h * Base + l \in Sector
<1>1. ASSUME NEW s \in Sector
      PROVE  /\ s \div Base \in 0 .. Base - 1
             /\ s % Base \in 0 .. Base - 1
             /\ ((s \div Base) * Base) + (s % Base) = s
  <2> DEFINE q == s \div Base
             r == s % Base
  <2>1. q \in Int /\ r \in 0 .. Base - 1 /\ s = Base * q + r
    BY Numbers DEF Sector
  <2>2. Base * q = q * Base
    BY <2>1, Numbers
  <2>3. s \in Nat /\ s < Base * Base
    BY Numbers, DiskAssumption DEF Sector
  <2> HIDE DEF q, r
  <2>4. q >= 0
    <3> SUFFICES ASSUME q <= -1 PROVE FALSE
      BY <2>1
    <3>1. Base * q <= -Base
      BY <2>1, Numbers
    <3> QED BY <2>1, <2>3, <3>1, Numbers
  <2>5. q < Base
    <3> SUFFICES ASSUME q >= Base PROVE FALSE
      BY <2>1, Numbers
    <3>1. Base * q >= Base * Base
      BY <2>1, Numbers
    <3> QED BY <2>1, <2>3, <3>1, Numbers
  <2> QED BY <2>1, <2>2, <2>4, <2>5, Numbers DEF q, r
<1>2. ASSUME NEW h \in 0 .. Base - 1, NEW l \in 0 .. Base - 1
      PROVE  h * Base + l \in Sector
  <2>1. h * Base \in Nat /\ h * Base <= (Base - 1) * Base
    BY Numbers
  <2>2. (Base - 1) * Base = Base * Base - Base
    BY Numbers
  <2> QED BY <2>1, <2>2, Numbers DEF Sector
<1> QED BY <1>1, <1>2

\* The sequence that grows by a word equal to the one expected there.
LEMMA GrowsByOne ==
  ASSUME NEW s \in Seq(Nat), NEW w \in Nat, NEW c,
         \A k \in 1 .. Len(s) : s[k] = c[k], w = c[Len(s) + 1]
  PROVE  \A k \in 1 .. Len(Append(s, w)) : Append(s, w)[k] = c[k]
<1>1. /\ Len(Append(s, w)) = Len(s) + 1
      /\ \A k \in 1 .. Len(s) : Append(s, w)[k] = s[k]
      /\ Append(s, w)[Len(s) + 1] = w
  BY AppendProperties
<1>2. Len(s) \in Nat
  BY LenProperties
<1>3. ASSUME NEW k \in 1 .. Len(s) + 1 PROVE Append(s, w)[k] = c[k]
  <2>1. k \in 1 .. Len(s) \/ k = Len(s) + 1
    BY <1>2
  <2> QED BY <1>1, <2>1
<1> QED BY <1>1, <1>3

-----------------------------------------------------------------------------
\* The effects of the updates of op.
LEMMA GotoEffect ==
  ASSUME op \in Operation, NEW p \in Label, Goto(p)
  PROVE  /\ op' \in Operation /\ op'.pc = p
         /\ op'.kind = op.kind /\ op'.sector = op.sector /\ op'.buf = op.buf
         /\ op'.data = op.data /\ op'.refused = op.refused
BY DEF Operation, Goto

LEMMA ReturnsEffect ==
  ASSUME op \in Operation, NEW r \in {0, -1}, Returns(r)
  PROVE  /\ op' \in Operation /\ op'.pc = "done" /\ op'.result = r
         /\ op'.kind = op.kind /\ op'.sector = op.sector /\ op'.buf = op.buf
         /\ op'.data = op.data /\ op'.refused = op.refused
<1>1. "done" \in Label
  BY DEF Label
<1> QED BY <1>1 DEF Operation, Returns

LEMMA IdleIsOperation ==
  /\ Idle \in Operation /\ Idle.pc = "idle" /\ Idle.kind = "none" /\ Idle.buf = <<>>
  /\ Idle.refused = FALSE
<1> DEFINE none == <<>>
<1>1. none \in Seq(Nat)
  OBVIOUS
<1>2. Idle = [kind |-> "none", sector |-> 0, pc |-> "idle", buf |-> none,
              data |-> 0, refused |-> FALSE, result |-> 0]
  BY DEF Idle
<1> HIDE DEF none
<1>3. "none" \in Kind /\ "idle" \in Label /\ 0 \in {0, -1} /\ 0 \in Sector /\ 0 \in Nat
  BY Numbers DEF Kind, Label
<1>4. Idle \in Operation
  BY <1>1, <1>2, <1>3 DEF Operation
<1>5. Idle.pc = "idle" /\ Idle.kind = "none" /\ Idle.buf = <<>> /\ Idle.refused = FALSE
  BY <1>2 DEF none
<1> QED BY <1>4, <1>5

LEMMA BeginEffect ==
  ASSUME NEW kind \in {"read", "write", "identify"},
         NEW sector \in Sector, NEW data \in Nat, Begin(kind, sector, data)
  PROVE  /\ op' \in Operation
         /\ op'.kind = kind /\ op'.sector = sector /\ op'.data = data
         /\ op'.pc = (IF kind = "identify" THEN "command" ELSE "select")
         /\ op'.buf = <<>> /\ op'.refused = FALSE /\ op.pc = "idle"
<1> DEFINE p == IF kind = "identify" THEN "command" ELSE "select"
           none == <<>>
<1>1. p \in Label /\ kind \in Kind /\ none \in Seq(Nat)
  BY DEF Label, Kind
<1>2. /\ op' = [kind |-> kind, sector |-> sector, pc |-> p, buf |-> none,
                data |-> data, refused |-> FALSE, result |-> 0]
      /\ op.pc = "idle"
  BY DEF Begin, Idle
<1> HIDE DEF p, none
<1>3. op' \in Operation
  BY <1>1, <1>2 DEF Operation
<1> QED BY <1>2, <1>3 DEF p, none

LEMMA SendToEffect ==
  ASSUME DiskTypes, DriveOK, NEW cmd \in DriveCommand \ {"none", "store"}, SendTo(cmd)
  PROVE  /\ drive' \in DriveState
         /\ ~Free => drive' = drive
         /\ Free => /\ drive'.status = "busy" /\ drive'.cmd = cmd
                    /\ cmd = "flush" => drive'.lba = drive.lba
                    /\ cmd # "flush" => drive'.lba = hi * Base + lo /\ drive'.words = <<>>
         /\ medium' = medium => DriveOK'
<1> DEFINE none == <<>>
           new == [status |-> "busy", cmd |-> cmd, lba |-> hi * Base + lo, words |-> none]
           flush == [drive EXCEPT !.status = "busy", !.cmd = cmd]
<1>1. hi * Base + lo \in Sector /\ drive \in DriveState /\ none \in Seq(Nat)
  BY SectorInParts DEF DiskTypes
<1>2. drive' = IF ~Free THEN drive ELSE IF cmd = "flush" THEN flush ELSE new
  BY DEF SendTo
<1>3. none = <<>>
  OBVIOUS
<1>4. new \in DriveState /\ flush \in DriveState
  <2> HIDE DEF none
  <2> QED BY <1>1 DEF DriveState, Status, DriveCommand
<1> HIDE DEF none
<1>5. /\ drive' \in DriveState
      /\ ~Free => drive' = drive
      /\ Free => /\ drive'.status = "busy" /\ drive'.cmd = cmd
                 /\ cmd = "flush" => drive'.lba = drive.lba
                 /\ cmd # "flush" => drive'.lba = hi * Base + lo /\ drive'.words = none
  BY <1>1, <1>2, <1>4 DEF DriveState
<1>6. ASSUME medium' = medium PROVE DriveOK'
  <2>1. CASE ~Free
    BY <1>5, <1>6, <2>1 DEF DriveOK, OnDisk
  <2>2. CASE Free
    BY <1>3, <1>5, <1>6, <2>2 DEF DriveOK, DriveCommand
  <2> QED BY <2>1, <2>2
<1> QED BY <1>3, <1>5, <1>6

-----------------------------------------------------------------------------
(***************************************************************************)
(* The driver.                                                             *)
(***************************************************************************)

\* While an operation runs, its kind and its sector and what main does stay.
LEMMA DriverFrame ==
  ASSUME DiskInv, UNCHANGED <<mainVars, disk, errors>>,
         op' \in Operation, op'.kind = op.kind, op'.sector = op.sector, op.pc # "idle",
         hi' \in 0 .. Base - 1, lo' \in 0 .. Base - 1, drive' \in DriveState,
         timedOut' \in BOOLEAN, timedOut' # timedOut => op.kind = "write"
  PROVE  DiskTypes' /\ Roles'
BY DEF DiskInv, DiskTypes, Roles, mainVars, OnMedium

LEMMA GotoTypes ==
  ASSUME DiskInv, NEW p \in Label, Goto(p), op.pc \notin {"idle", "done"},
         p \in {"words in", "words out"} => op.buf = <<>>,
         p \notin {"words in", "words out", "wait flush", "flush"} => op.buf = <<>>,
         p \in {"select", "low"} => op.kind \in {"read", "write"},
         p = "command" => op.kind \in {"read", "write", "identify"},
         p \in Reading => op.kind \in {"read", "identify"},
         p \in Writing => op.kind = "write"
  PROVE  OperationOK'
<1>1. op \in Operation /\ OperationOK
  BY DEF DiskInv, DiskTypes
<1>2. op'.pc = p /\ op'.kind = op.kind /\ op'.buf = op.buf
  BY <1>1, GotoEffect
<1>3. Len(<<>>) = 0
  OBVIOUS
<1> QED BY <1>1, <1>2, <1>3, Numbers DEF OperationOK

LEMMA ReturnsTypes ==
  ASSUME DiskInv, NEW r \in {0, -1}, Returns(r)
  PROVE  OperationOK'
<1>1. op \in Operation /\ OperationOK
  BY DEF DiskInv, DiskTypes
<1>2. op'.pc = "done" /\ op'.kind = op.kind /\ op'.buf = op.buf
  BY <1>1, ReturnsEffect
<1> QED BY <1>1, <1>2 DEF OperationOK, Reading, Writing

LEMMA RegistersKeep ==
  ASSUME DiskInv, SetRegister, UNCHANGED <<drive, timedOut>>, UNCHANGED <<mainVars, disk, errors>>
  PROVE  DiskInv'
<1>1. /\ DiskTypes /\ OperationOK /\ op \in Operation /\ op.sector \in Sector
      /\ op.pc \in {"select", "low"} /\ op.kind \in {"read", "write"} /\ op.buf = <<>>
      /\ DriveOK
  BY DEF DiskInv, DiskTypes, Operation, SetRegister, OperationOK
<1>2. hi' \in 0 .. Base - 1 /\ lo' \in 0 .. Base - 1
  BY <1>1, SectorInParts DEF SetRegister, DiskTypes
<1>3. PICK p \in {"low", "command"} :
        Goto(p) /\ (p = IF op.pc = "select" THEN "low" ELSE "command")
  BY DEF SetRegister
<1>4. p \in Label
  BY DEF Label
<1>5. /\ op' \in Operation /\ op'.pc = p /\ op'.kind = op.kind /\ op'.sector = op.sector
  BY <1>1, <1>3, <1>4, GotoEffect
<1>6. OperationOK'
  BY <1>1, <1>3, <1>4, GotoTypes DEF Reading, Writing
<1>7. DiskTypes' /\ Roles'
  <2>1. drive' \in DriveState /\ timedOut' \in BOOLEAN
    BY <1>1 DEF DiskTypes
  <2> QED BY <1>1, <1>2, <1>5, <2>1, DriverFrame
<1>8. DriveOK'
  BY <1>1 DEF DriveOK, OnDisk, mainVars
<1>9. ASSUME ~timedOut' PROVE InPlace'
  <2>1. InPlace /\ Free /\ Free'
    BY <1>1, <1>9 DEF DiskInv, InPlace, AtRegisters, Free
  <2>2. AtRegisters'
    <3>1. CASE op.pc = "select"
      <4>1. hi' = op.sector \div Base /\ p = "low"
        BY <1>3, <2>1, <3>1 DEF SetRegister
      <4> QED BY <1>5, <2>1, <4>1 DEF AtRegisters
    <3>2. CASE op.pc = "low"
      <4>1. lo' = op.sector % Base /\ hi' = hi /\ p = "command"
        BY <1>3, <2>1, <3>2 DEF SetRegister
      <4>2. hi = op.sector \div Base
        BY <2>1, <3>2 DEF InPlace, AtRegisters
      <4>3. ((op.sector \div Base) * Base) + (op.sector % Base) = op.sector
        BY <1>1, SectorInParts
      <4>4. hi' * Base + lo' = op'.sector
        BY <1>5, <4>1, <4>2, <4>3
      <4> QED BY <1>5, <2>1, <4>1, <4>4 DEF AtRegisters
    <3> QED BY <1>1, <3>1, <3>2
  <2>3. p \in {"low", "command"}
    OBVIOUS
  <2> QED BY <1>5, <2>1, <2>2, <2>3 DEF InPlace, AtRead, AtIdentify, AtWrite
<1> QED BY <1>6, <1>7, <1>8, <1>9 DEF DiskInv

LEMMA CommandKeeps ==
  ASSUME DiskInv, Command, UNCHANGED <<hi, lo, timedOut>>, UNCHANGED <<mainVars, disk, errors>>
  PROVE  DiskInv'
<1>1. /\ DiskTypes /\ OperationOK /\ op \in Operation /\ DriveOK /\ medium' = medium
      /\ timedOut \in BOOLEAN /\ hi \in 0 .. Base - 1 /\ lo \in 0 .. Base - 1
  BY DEF DiskInv, DiskTypes, mainVars
<1>2. CASE op.pc = "command"
  <2> DEFINE p == IF op.kind = "write" THEN "wait bsy" ELSE "poll"
  <2>1. /\ op.buf = <<>> /\ op.kind \in {"read", "write", "identify"}
        /\ SendTo(op.kind) /\ Goto(p) /\ op.kind \in DriveCommand \ {"none", "store"}
    BY <1>1, <1>2 DEF OperationOK, Command, DriveCommand
  <2>2. /\ p \in Label /\ p \in {"wait bsy", "poll"} /\ p \notin {"words in", "words out"}
        /\ p \in Reading => op.kind \in {"read", "identify"}
        /\ p \in Writing => op.kind = "write"
    BY <2>1 DEF Label, Reading, Writing
  <2>3. /\ op' \in Operation /\ op'.pc = p /\ op'.kind = op.kind /\ op'.sector = op.sector
        /\ op'.buf = op.buf /\ op'.refused = op.refused
    BY <1>1, <2>1, <2>2, GotoEffect
  <2>4. OperationOK'
    BY <1>2, <2>1, <2>2, GotoTypes
  <2>5. /\ drive' \in DriveState /\ DriveOK'
        /\ Free => /\ drive'.status = "busy" /\ drive'.cmd = op.kind
                   /\ drive'.words = <<>> \/ op.kind = "flush"
                   /\ op.kind # "flush" => drive'.lba = hi * Base + lo
    BY <1>1, <2>1, SendToEffect
  <2>6. DiskTypes' /\ Roles'
    <3>1. op.pc # "idle"
      BY <1>2
    <3> QED BY <1>1, <2>3, <2>5, <3>1, DriverFrame
  <2>7. ASSUME ~timedOut' PROVE InPlace'
    <3>1. InPlace /\ Free /\ (op.kind # "identify" => hi * Base + lo = op.sector)
      BY <1>2, <2>7 DEF DiskInv, InPlace, AtRegisters
    <3>2. /\ drive'.status = "busy" /\ drive'.cmd = op.kind
          /\ op.kind # "identify" => drive'.lba = op.sector
      BY <2>1, <2>5, <3>1
    <3> QED BY <2>1, <2>3, <3>2 DEF InPlace, AtRegisters, AtRead, AtIdentify, AtWrite, Busy
  <2> QED BY <2>4, <2>5, <2>6, <2>7 DEF DiskInv
<1>3. CASE op.pc = "flush"
  <2>1. SendTo("flush") /\ Goto("wait flush") /\ op.kind = "write"
    BY <1>1, <1>3 DEF Command, OperationOK, Writing
  <2>2. /\ op' \in Operation /\ op'.pc = "wait flush" /\ op'.data = op.data
        /\ op'.sector = op.sector /\ op'.kind = op.kind /\ op'.refused = op.refused
    BY <1>1, <2>1, GotoEffect DEF Label, Writing
  <2>3. OperationOK'
    BY <1>3, <2>1, GotoTypes DEF Label, Reading, Writing
  <2>4. /\ drive' \in DriveState /\ DriveOK'
        /\ ~Free => drive' = drive
        /\ Free => drive'.status = "busy" /\ drive'.cmd = "flush" /\ drive'.lba = drive.lba
    BY <1>1, <2>1, SendToEffect DEF DriveCommand
  <2>5. DiskTypes' /\ Roles'
    <3>1. op.pc # "idle"
      BY <1>3
    <3> QED BY <1>1, <2>2, <2>4, <3>1, DriverFrame
  <2>6. ASSUME ~timedOut' PROVE InPlace'
    <3>1. drive.lba = op.sector /\ (InStore \/ AfterStore)
      BY <1>3, <2>6 DEF DiskInv, InPlace, AtWrite
    <3>2. drive'.lba = op'.sector /\ (InStore' \/ AfterStore')
      <4>1. CASE InStore
        <5>1. drive' = drive
          BY <2>4, <4>1 DEF InStore, Busy, Free
        <5> QED BY <2>2, <3>1, <4>1, <5>1 DEF InStore, Busy
      <4>2. CASE AfterStore
        <5>1. Free
          BY <1>3, <4>2 DEF AfterStore
        <5>2. (op.refused \/ Stored) => (op'.refused \/ Stored')
          BY <2>2 DEF Stored
        <5>3. OnMedium' = OnMedium
          BY DEF mainVars, OnMedium
        <5> QED BY <2>2, <2>4, <3>1, <4>2, <5>1, <5>2, <5>3 DEF AfterStore, Busy
      <4> QED BY <3>1, <4>1, <4>2
    <3> QED BY <2>1, <2>2, <3>2 DEF InPlace, AtRegisters, AtRead, AtIdentify, AtWrite
  <2> QED BY <2>3, <2>4, <2>5, <2>6 DEF DiskInv
<1> QED BY <1>2, <1>3 DEF Command

LEMMA PollKeeps ==
  ASSUME DiskInv, Poll, UNCHANGED <<hi, lo, drive, timedOut>>, UNCHANGED <<mainVars, disk, errors>>
  PROVE  DiskInv'
<1>1. /\ DiskTypes /\ OperationOK /\ op \in Operation /\ DriveOK
      /\ op.pc = "poll" /\ op.buf = <<>> /\ op.kind \in {"read", "identify"}
      /\ medium' = medium /\ disk' = disk
  BY DEF DiskInv, DiskTypes, Poll, OperationOK, Reading, mainVars
<1>2. DriveOK'
  BY <1>1 DEF DriveOK, OnDisk
<1>3. ASSUME op' \in Operation, op'.kind = op.kind, op'.sector = op.sector
      PROVE  DiskTypes' /\ Roles'
  <2>1. /\ hi' \in 0 .. Base - 1 /\ lo' \in 0 .. Base - 1 /\ drive' \in DriveState
        /\ timedOut' \in BOOLEAN
    BY <1>1 DEF DiskTypes
  <2> QED BY <1>1, <1>3, <2>1, DriverFrame
<1>4. CASE drive.status \in {"in", "out"} /\ Goto("words in")
  <2>1. /\ op' \in Operation /\ op'.pc = "words in" /\ op'.buf = <<>>
        /\ op'.sector = op.sector /\ op'.kind = op.kind
    BY <1>1, <1>4, GotoEffect DEF Label, Reading
  <2>2. OperationOK'
    BY <1>1, <1>4, GotoTypes DEF Label, Reading, Writing
  <2>3. ASSUME ~timedOut' PROVE InPlace'
    <3>1. InPlace
      BY <2>3 DEF DiskInv
    <3>2. Len(op'.buf) = 0
      <4>1. Len(<<>>) = 0
        OBVIOUS
      <4> QED BY <2>1, <4>1
    <3>3. CASE op.kind = "read"
      <4>1. drive.status = "in" /\ op.sector \in OnMedium /\ drive.words = disk[op.sector]
        BY <1>1, <1>4, <3>1, <3>3 DEF InPlace, AtRead, Busy
      <4>2. Len(drive.words) = WordsPerSector
        BY <1>1, <4>1 DEF DiskTypes, Content
      <4>3. HalfRead(disk[op.sector])'
        <5> DEFINE n == Len(op'.buf)
                   m == Len(drive.words)
        <5>1. n = 0 /\ m = WordsPerSector
          BY <3>2, <4>2
        <5> HIDE DEF n, m
        <5>2. n + m = WordsPerSector /\ 1 .. n = {} /\ \A k \in 1 .. m : n + k = k
          BY <5>1, Numbers
        <5>3. /\ Len(op'.buf) + Len(drive.words) = WordsPerSector
              /\ \A k \in 1 .. Len(op'.buf) : FALSE
              /\ \A k \in 1 .. Len(drive.words) : Len(op'.buf) + k = k
          BY <5>2 DEF n, m
        <5> QED BY <1>1, <2>1, <4>1, <5>3 DEF HalfRead
      <4>4. AtRead'
        BY <1>1, <2>1, <4>1, <4>3 DEF AtRead, OnMedium
      <4> QED BY <2>1, <3>3, <4>4 DEF InPlace, AtRegisters, AtWrite
    <3>4. CASE op.kind = "identify"
      <4>1. drive.status = "in" /\ Len(drive.words) = WordsPerSector
        BY <1>1, <1>4, <3>1, <3>4 DEF InPlace, AtIdentify, Busy
      <4>2. Len(op'.buf) + Len(drive'.words) = WordsPerSector
        BY <3>2, <4>1, Numbers
      <4> QED BY <2>1, <3>4, <4>1, <4>2 DEF InPlace, AtRegisters, AtWrite, AtIdentify
    <3> QED BY <1>1, <3>3, <3>4
  <2> QED BY <1>2, <1>3, <2>1, <2>2, <2>3 DEF DiskInv
<1>5. CASE op.kind = "identify" /\ drive.status = "error" /\ Returns(-1)
  <2>1. op' \in Operation /\ op'.pc = "done" /\ op'.kind = op.kind /\ op'.sector = op.sector
    BY <1>1, <1>5, ReturnsEffect
  <2>2. OperationOK'
    BY <1>5, ReturnsTypes
  <2>3. InPlace'
    BY <1>5, <2>1 DEF InPlace, AtRegisters, AtWrite, AtIdentify, Free
  <2> QED BY <1>2, <1>3, <2>1, <2>2, <2>3 DEF DiskInv
<1> QED BY <1>4, <1>5 DEF Poll

LEMMA WaitsKeep ==
  ASSUME DiskInv, WaitBsy \/ WaitDrq, UNCHANGED <<hi, lo, drive>>,
         UNCHANGED <<mainVars, disk, errors>>
  PROVE  DiskInv'
<1>1. /\ DiskTypes /\ OperationOK /\ op \in Operation /\ DriveOK
      /\ op.pc \in {"wait bsy", "wait drq", "wait flush"} /\ op.kind = "write"
      /\ op.pc # "wait flush" => op.buf = <<>>
      /\ medium' = medium /\ disk' = disk
      /\ timedOut' \in BOOLEAN /\ (timedOut => timedOut')
  BY DEF DiskInv, DiskTypes, WaitBsy, WaitDrq, OperationOK, Writing, mainVars
<1>2. DriveOK'
  BY <1>1 DEF DriveOK, OnDisk
<1>3. ASSUME op' \in Operation, op'.kind = op.kind, op'.sector = op.sector
      PROVE  DiskTypes' /\ Roles'
  <2>1. /\ hi' \in 0 .. Base - 1 /\ lo' \in 0 .. Base - 1 /\ drive' \in DriveState
        /\ op.pc # "idle"
    BY <1>1 DEF DiskTypes
  <2> QED BY <1>1, <1>3, <2>1, DriverFrame
<1>4. ASSUME NEW p \in {"wait drq", "words out"}, Goto(p),
             p = IF op.pc = "wait bsy" THEN "wait drq" ELSE "words out",
             op.pc # "wait flush",
             p = "wait drq" => drive.status # "busy",
             p = "words out" => drive.status \in {"in", "out"}
      PROVE  DiskInv'
  <2>1. /\ op' \in Operation /\ op'.pc = p /\ op'.kind = op.kind /\ op'.sector = op.sector
        /\ op'.buf = <<>> /\ op'.data = op.data
    BY <1>1, <1>4, GotoEffect DEF Label, Writing
  <2>2. OperationOK'
    <3>1. p \in Label /\ p \notin Reading /\ p \notin {"words in", "select", "low", "command"}
      BY DEF Label, Reading, Writing
    <3> QED BY <1>1, <1>4, <3>1, GotoTypes
  <2>3. ASSUME ~timedOut' PROVE InPlace'
    <3>1. InPlace
      BY <1>1, <2>3 DEF DiskInv
    <3>2. \/ drive.status = "error"
          \/ /\ drive.lba = op.sector
             /\ \/ drive.status = "out" /\ drive.words = <<>>
                \/ op.pc = "wait bsy" /\ Busy("write")
      BY <1>1, <1>4, <3>1 DEF InPlace, AtWrite
    <3>3. \A k \in 1 .. Len(op'.buf) : FALSE
      <4>1. Len(<<>>) = 0
        OBVIOUS
      <4>2. Len(op'.buf) = 0
        BY <2>1, <4>1
      <4> QED BY <4>2, NothingBelow
    <3>4. AtWrite'
      BY <1>4, <2>1, <3>2, <3>3 DEF AtWrite, Busy
    <3> QED BY <1>1, <1>4, <2>1, <3>4 DEF InPlace, AtRegisters
  <2> QED BY <1>2, <1>3, <2>1, <2>2, <2>3 DEF DiskInv
<1>5. ASSUME NEW r \in {0, -1}, Returns(r), ~timedOut' => Free PROVE DiskInv'
  <2>1. op' \in Operation /\ op'.pc = "done" /\ op'.kind = op.kind /\ op'.sector = op.sector
    BY <1>1, <1>5, ReturnsEffect
  <2>2. OperationOK'
    BY <1>5, ReturnsTypes
  <2>3. ~timedOut' => InPlace'
    BY <1>1, <1>5, <2>1 DEF InPlace, AtRegisters, AtWrite, Free
  <2> QED BY <1>2, <1>3, <2>1, <2>2, <2>3 DEF DiskInv
<1>6. CASE WaitBsy
  <2>1. CASE op.pc = "wait bsy" /\ drive.status # "busy" /\ Goto("wait drq") /\ timedOut' = timedOut
    BY <1>4, <2>1
  <2>2. CASE op.pc = "wait flush" /\ drive.status # "busy" /\ Returns(0) /\ timedOut' = timedOut
    <3>1. ~timedOut' => Free
      BY <2>2 DEF DiskInv, InPlace, AtWrite, InStore, AfterStore, Busy
    <3> QED BY <1>5, <2>2, <3>1
  <2>3. CASE Returns(-1) /\ timedOut' = TRUE
    BY <1>5, <2>3
  <2> QED BY <1>6, <2>1, <2>2, <2>3 DEF WaitBsy
<1>7. CASE WaitDrq
  <2>1. CASE drive.status = "error"
    BY <1>5, <1>7, <2>1 DEF WaitDrq, Free
  <2>2. CASE drive.status \in {"in", "out"}
    BY <1>4, <1>7, <2>2 DEF WaitDrq
  <2>3. CASE drive.status \notin {"error", "in", "out"}
    BY <1>5, <1>7, <2>3 DEF WaitDrq
  <2> QED BY <2>1, <2>2, <2>3
<1> QED BY <1>6, <1>7

\* A word leaves the drive.
LEMMA WordInEffect ==
  ASSUME DiskInv, WordIn
  PROVE  LET w == IF drive.status = "in" THEN Head(drive.words) ELSE 0
         IN  /\ w \in Nat /\ op.buf \in Seq(Nat) /\ Len(op.buf) \in Nat
             /\ op.pc = "words in" /\ Len(op.buf) < WordsPerSector
             /\ op.kind \in {"read", "identify"}
             /\ op' \in Operation /\ op'.buf = Append(op.buf, w)
             /\ op'.pc = (IF Len(op.buf) + 1 = WordsPerSector THEN "done" ELSE "words in")
             /\ op'.kind = op.kind /\ op'.sector = op.sector
             /\ Len(op'.buf) = Len(op.buf) + 1
<1> DEFINE w == IF drive.status = "in" THEN Head(drive.words) ELSE 0
           p == IF Len(op.buf) + 1 = WordsPerSector THEN "done" ELSE "words in"
           buf == Append(op.buf, w)
<1>1. /\ op \in Operation /\ op.buf \in Seq(Nat) /\ drive.words \in Seq(Nat)
      /\ op.pc = "words in" /\ Len(op.buf) < WordsPerSector /\ op.kind \in {"read", "identify"}
  BY DEF DiskInv, DiskTypes, Operation, DriveState, WordIn, OperationOK, Reading
<1>2. w \in Nat
  <2>1. drive.status = "in" => drive.words # <<>>
    BY Numbers DEF DiskInv, DriveOK
  <2> QED BY <1>1, <2>1, HeadTailProperties
<1> HIDE DEF w, p
<1>3. buf \in Seq(Nat) /\ Len(buf) = Len(op.buf) + 1
  <2>1. op.buf \in Seq(Nat)
    BY <1>1
  <2> QED BY ONLY <1>2, <2>1, AppendProperties
<1>7. Len(op.buf) \in Nat
  BY <1>1, LenProperties
<1>4. p \in Label
  BY DEF Label, Reading, p
<1>5. op' = [op EXCEPT !.buf = buf, !.pc = p]
  BY <1>3 DEF WordIn, w, p
<1> HIDE DEF buf
<1>6. /\ op' \in Operation /\ op'.buf = buf /\ op'.pc = p
      /\ op'.kind = op.kind /\ op'.sector = op.sector
  BY <1>1, <1>3, <1>4, <1>5 DEF Operation
<1> QED BY <1>1, <1>2, <1>3, <1>6, <1>7 DEF w, buf, p

\* A word goes to the drive.
LEMMA WordOutEffect ==
  ASSUME DiskInv, WordOut
  PROVE  /\ op.buf \in Seq(Nat) /\ Len(op.buf) \in Nat /\ op.data \in Nat
         /\ op.pc = "words out" /\ Len(op.buf) < WordsPerSector /\ op.kind = "write"
         /\ op' \in Operation /\ op'.buf = Append(op.buf, op.data)
         /\ op'.pc = (IF Len(op.buf) + 1 = WordsPerSector THEN "flush" ELSE "words out")
         /\ op'.kind = op.kind /\ op'.sector = op.sector /\ op'.data = op.data
         /\ op'.refused = op.refused
         /\ Len(op'.buf) = Len(op.buf) + 1
<1> DEFINE p == IF Len(op.buf) + 1 = WordsPerSector THEN "flush" ELSE "words out"
           buf == Append(op.buf, op.data)
<1>1. /\ op \in Operation /\ op.buf \in Seq(Nat) /\ op.data \in Nat
      /\ op.pc = "words out" /\ Len(op.buf) < WordsPerSector /\ op.kind = "write"
  BY DEF DiskInv, DiskTypes, Operation, WordOut, OperationOK, Writing
<1>3. buf \in Seq(Nat) /\ Len(buf) = Len(op.buf) + 1
  <2> DEFINE old == op.buf
             word == op.data
  <2>1. old \in Seq(Nat) /\ word \in Nat
    BY <1>1
  <2> HIDE DEF old, word
  <2>2. Append(old, word) \in Seq(Nat) /\ Len(Append(old, word)) = Len(old) + 1
    BY <2>1, AppendProperties
  <2> QED BY <2>2 DEF old, word
<1>7. Len(op.buf) \in Nat
  BY <1>1, LenProperties
<1>4. p \in Label
  BY DEF Label, Writing
<1>5. op' = [op EXCEPT !.buf = buf, !.pc = p]
  BY <1>3 DEF WordOut
<1> HIDE DEF buf, p
<1>6. /\ op' \in Operation /\ op'.buf = buf /\ op'.pc = p
      /\ op'.kind = op.kind /\ op'.sector = op.sector /\ op'.data = op.data
      /\ op'.refused = op.refused
  BY <1>1, <1>3, <1>4, <1>5 DEF Operation
<1> QED BY <1>1, <1>3, <1>6, <1>7 DEF buf, p

\* What becomes of the drive's words.
LEMMA WordInDrive ==
  ASSUME DiskInv, WordIn, medium' = medium
  PROVE  /\ drive' \in DriveState /\ DriveOK'
         /\ drive.status # "in" => drive' = drive
         /\ drive.status = "in" =>
              /\ drive'.words = Tail(drive.words)
              /\ drive'.status = (IF Len(drive.words) = 1 THEN "idle" ELSE "in")
<1> DEFINE new == [drive EXCEPT !.words = Tail(@),
                                !.status = IF Len(drive.words) = 1 THEN "idle" ELSE "in"]
<1>1. drive \in DriveState /\ drive.words \in Seq(Nat) /\ DriveOK
  BY DEF DiskInv, DiskTypes, DriveState
<1>2. CASE drive.status = "in"
  <2>1. Len(drive.words) \in 1 .. WordsPerSector
    BY <1>1, <1>2 DEF DriveOK
  <2>2. Tail(drive.words) \in Seq(Nat) /\ Len(Tail(drive.words)) = Len(drive.words) - 1
    <3>1. drive.words # <<>>
      BY <2>1, Numbers
    <3> QED BY <1>1, <3>1, HeadTailProperties
  <2>3. drive' = new
    BY <1>2 DEF WordIn
  <2>4. new \in DriveState
    BY <1>1, <2>2 DEF DriveState, Status
  <2>5. /\ drive'.words = Tail(drive.words)
        /\ drive'.status = (IF Len(drive.words) = 1 THEN "idle" ELSE "in")
    BY <1>1, <2>3 DEF DriveState
  <2>6. DriveOK'
    <3> DEFINE n == Len(drive.words)
    <3>1. n \in 1 .. WordsPerSector /\ Len(drive'.words) = n - 1
          /\ drive'.status = (IF n = 1 THEN "idle" ELSE "in")
      BY <2>1, <2>2, <2>5
    <3> HIDE DEF n
    <3>2. n # 1 => n - 1 \in 1 .. WordsPerSector
      BY <3>1, Numbers
    <3> QED BY <3>1, <3>2 DEF DriveOK
  <2> QED BY <1>2, <2>3, <2>4, <2>5, <2>6
<1>3. CASE drive.status # "in"
  <2>1. drive' = drive
    BY <1>3 DEF WordIn
  <2> QED BY <1>1, <1>3, <2>1 DEF DriveOK, OnDisk
<1> QED BY <1>2, <1>3

LEMMA WordOutDrive ==
  ASSUME DiskInv, WordOut, medium' = medium
  PROVE  LET words == Append(drive.words, op.data)
         IN  /\ words \in Seq(Nat) /\ Len(words) = Len(drive.words) + 1
             /\ drive' \in DriveState /\ DriveOK'
             /\ drive.status = "out" =>
                  /\ drive'.lba = drive.lba /\ drive'.words = words
                  /\ Len(words) < WordsPerSector => drive'.status = "out"
                  /\ Len(words) >= WordsPerSector =>
                       drive'.status = "busy" /\ drive'.cmd = "store"
<1> DEFINE words == Append(drive.words, op.data)
           more == [drive EXCEPT !.words = words]
           last == [drive EXCEPT !.words = words, !.status = "busy", !.cmd = "store"]
<1>1. drive \in DriveState /\ drive.words \in Seq(Nat) /\ op.data \in Nat /\ DriveOK
  BY DEF DiskInv, DiskTypes, DriveState, Operation
<1>2. words \in Seq(Nat) /\ Len(words) = Len(drive.words) + 1
  BY <1>1, AppendProperties
<1>3. CASE drive.status = "out"
  <2>1. Len(drive.words) < WordsPerSector /\ Len(drive.words) \in Nat /\ OnDisk
    BY <1>1, <1>3 DEF DriveOK
  <2>2. drive' = IF Len(words) < WordsPerSector THEN more ELSE last
    BY <1>3 DEF WordOut
  <2> HIDE DEF words
  <2>3. CASE Len(words) < WordsPerSector
    <3>1. drive' = more /\ more \in DriveState
      BY <1>1, <1>2, <2>2, <2>3 DEF DriveState
    <3>2. /\ drive'.lba = drive.lba /\ drive'.words = words
          /\ drive'.status = "out"
      BY <1>1, <1>3, <3>1 DEF DriveState
    <3>3. DriveOK'
      BY <2>1, <2>3, <3>2 DEF DriveOK, OnDisk
    <3>4. Len(words) \in Nat /\ ~(Len(words) >= WordsPerSector)
      BY <1>2, <2>1, <2>3, Numbers
    <3> QED BY <1>2, <1>3, <2>3, <3>1, <3>2, <3>3, <3>4 DEF words
  <2>4. CASE ~(Len(words) < WordsPerSector)
    <3>1. drive' = last /\ last \in DriveState
      BY <1>1, <1>2, <2>2, <2>4 DEF DriveState, Status, DriveCommand
    <3>2. /\ drive'.lba = drive.lba /\ drive'.words = words
          /\ drive'.status = "busy" /\ drive'.cmd = "store"
      BY <1>1, <3>1 DEF DriveState
    <3>3. Len(words) = WordsPerSector
      BY <1>2, <2>1, <2>4, Numbers
    <3>4. DriveOK'
      BY <2>1, <3>2, <3>3 DEF DriveOK, OnDisk
    <3> QED BY <1>2, <1>3, <2>4, <3>1, <3>2, <3>4 DEF words
  <2> QED BY <2>3, <2>4
<1>4. CASE drive.status # "out"
  <2>1. drive' = drive
    BY <1>4 DEF WordOut
  <2> HIDE DEF words
  <2>2. DriveOK'
    BY <1>1, <2>1 DEF DriveOK, OnDisk
  <2> QED BY <1>1, <1>2, <1>4, <2>1, <2>2 DEF words
<1> QED BY <1>3, <1>4

\* One more word, and the operation's types.
LEMMA OneMore ==
  ASSUME NEW n \in Nat, n < WordsPerSector
  PROVE  /\ n + 1 <= WordsPerSector
         /\ n + 1 # WordsPerSector => n + 1 < WordsPerSector
BY Numbers

LEMMA WordInTypes ==
  ASSUME DiskInv, WordIn, UNCHANGED <<hi, lo, timedOut>>, UNCHANGED <<mainVars, disk, errors>>
  PROVE  DiskTypes' /\ Roles' /\ DriveOK' /\ OperationOK'
<1>1. /\ op.pc = "words in" /\ Len(op.buf) \in Nat /\ Len(op.buf) < WordsPerSector
      /\ op.kind \in {"read", "identify"}
      /\ op' \in Operation /\ op'.kind = op.kind /\ op'.sector = op.sector
      /\ op'.pc = (IF Len(op.buf) + 1 = WordsPerSector THEN "done" ELSE "words in")
      /\ Len(op'.buf) = Len(op.buf) + 1
  BY WordInEffect
<1>2. drive' \in DriveState /\ DriveOK'
  BY WordInDrive DEF mainVars
<1>3. DiskTypes' /\ Roles'
  <2>1. /\ hi' \in 0 .. Base - 1 /\ lo' \in 0 .. Base - 1 /\ timedOut' \in BOOLEAN
        /\ op.pc # "idle"
    BY <1>1 DEF DiskInv, DiskTypes
  <2> QED BY <1>1, <1>2, <2>1, DriverFrame
<1>4. OperationOK'
  <2> DEFINE n == Len(op.buf)
  <2>1. /\ n + 1 <= WordsPerSector /\ (n + 1 # WordsPerSector => n + 1 < WordsPerSector)
    BY <1>1, OneMore
  <2>2. /\ Len(op'.buf) = n + 1
        /\ op'.pc = (IF n + 1 = WordsPerSector THEN "done" ELSE "words in")
    BY <1>1
  <2> HIDE DEF n
  <2> QED BY <1>1, <2>1, <2>2 DEF OperationOK, Reading, Writing
<1> QED BY <1>2, <1>3, <1>4

LEMMA WordOutTypes ==
  ASSUME DiskInv, WordOut, UNCHANGED <<hi, lo, timedOut>>, UNCHANGED <<mainVars, disk, errors>>
  PROVE  DiskTypes' /\ Roles' /\ DriveOK' /\ OperationOK'
<1>1. /\ op.pc = "words out" /\ Len(op.buf) \in Nat /\ Len(op.buf) < WordsPerSector
      /\ op.kind = "write"
      /\ op' \in Operation /\ op'.kind = op.kind /\ op'.sector = op.sector
      /\ op'.pc = (IF Len(op.buf) + 1 = WordsPerSector THEN "flush" ELSE "words out")
      /\ Len(op'.buf) = Len(op.buf) + 1
  BY WordOutEffect
<1>2. drive' \in DriveState /\ DriveOK'
  BY WordOutDrive DEF mainVars
<1>3. DiskTypes' /\ Roles'
  <2>1. /\ hi' \in 0 .. Base - 1 /\ lo' \in 0 .. Base - 1 /\ timedOut' \in BOOLEAN
        /\ op.pc # "idle"
    BY <1>1 DEF DiskInv, DiskTypes
  <2> QED BY <1>1, <1>2, <2>1, DriverFrame
<1>4. OperationOK'
  <2> DEFINE n == Len(op.buf)
  <2>1. /\ n + 1 <= WordsPerSector /\ (n + 1 # WordsPerSector => n + 1 < WordsPerSector)
    BY <1>1, OneMore
  <2>2. /\ Len(op'.buf) = n + 1
        /\ op'.pc = (IF n + 1 = WordsPerSector THEN "flush" ELSE "words out")
    BY <1>1
  <2> HIDE DEF n
  <2> QED BY <1>1, <2>1, <2>2 DEF OperationOK, Reading, Writing
<1> QED BY <1>2, <1>3, <1>4

\* The word that came is the one of the sector that was due.
LEMMA HalfReadGoesOn ==
  ASSUME DiskInv, WordIn, drive.status = "in", NEW w, HalfRead(w)
  PROVE  /\ \A k \in 1 .. Len(op'.buf) : op'.buf[k] = w[k]
         /\ op'.pc = "words in" => HalfRead(w)'
<1> DEFINE buf == op.buf
           words == drive.words
<1>1. /\ buf \in Seq(Nat) /\ words \in Seq(Nat) /\ Len(buf) \in Nat
      /\ Len(words) \in 1 .. WordsPerSector
  <2>1. drive.words \in Seq(Nat) /\ Len(drive.words) \in 1 .. WordsPerSector
    BY DEF DiskInv, DiskTypes, DriveState, DriveOK
  <2> QED BY <2>1, WordInEffect
<1>2. /\ op'.buf = Append(buf, Head(words)) /\ Len(op'.buf) = Len(buf) + 1
      /\ op'.pc = (IF Len(buf) + 1 = WordsPerSector THEN "done" ELSE "words in")
  BY WordInEffect
<1>3. drive'.words = Tail(words)
  <2>1. drive' = [drive EXCEPT !.words = Tail(@),
                               !.status = IF Len(drive.words) = 1 THEN "idle" ELSE "in"]
    BY DEF WordIn
  <2> QED BY <2>1 DEF DiskInv, DiskTypes, DriveState
<1>4. /\ Len(buf) + Len(words) = WordsPerSector
      /\ \A k \in 1 .. Len(buf) : buf[k] = w[k]
      /\ \A k \in 1 .. Len(words) : words[k] = w[Len(buf) + k]
  BY DEF HalfRead
<1>5. words # <<>>
  BY <1>1, Numbers
<1> HIDE DEF buf, words
<1>6. /\ Head(words) = words[1] /\ Head(words) \in Nat
      /\ Tail(words) \in Seq(Nat) /\ Len(Tail(words)) = Len(words) - 1
      /\ \A k \in 1 .. Len(Tail(words)) : Tail(words)[k] = words[k + 1]
  <2>1. Head(words) = words[1]
    OBVIOUS
  <2> QED BY <1>1, <1>5, <2>1, HeadTailProperties
<1>7. Head(words) = w[Len(buf) + 1]
  <2>1. 1 \in 1 .. Len(words)
    BY <1>1
  <2> QED BY <1>4, <1>6, <2>1
<1>8. \A k \in 1 .. Len(op'.buf) : op'.buf[k] = w[k]
  <2> DEFINE h == Head(words)
  <2>1. h \in Nat /\ h = w[Len(buf) + 1] /\ \A k \in 1 .. Len(buf) : buf[k] = w[k]
    BY <1>4, <1>6, <1>7
  <2> HIDE DEF h
  <2>2. \A k \in 1 .. Len(Append(buf, h)) : Append(buf, h)[k] = w[k]
    BY <1>1, <2>1, GrowsByOne
  <2> QED BY <1>2, <2>2 DEF h
<1>9. \A k \in 1 .. Len(Tail(words)) : Tail(words)[k] = w[(Len(buf) + 1) + k]
  <2> DEFINE n == Len(buf)
             m == Len(words)
  <2>1. n \in Nat /\ m \in Nat /\ Len(Tail(words)) = m - 1
    BY <1>1, <1>6
  <2>2. \A k \in 1 .. m : words[k] = w[n + k]
    BY <1>4
  <2>3. \A k \in 1 .. m - 1 : Tail(words)[k] = words[k + 1]
    BY <1>6
  <2> HIDE DEF n, m
  <2>4. ASSUME NEW k \in 1 .. m - 1 PROVE Tail(words)[k] = w[(n + 1) + k]
    <3>1. k + 1 \in 1 .. m /\ n + (k + 1) = (n + 1) + k
      BY <2>1
    <3> QED BY <2>2, <2>3, <3>1
  <2> QED BY <2>1, <2>4 DEF n
<1>10. (Len(buf) + 1) + Len(Tail(words)) = WordsPerSector
  <2> DEFINE n == Len(buf)
             m == Len(words)
             t == Len(Tail(words))
  <2>1. n \in Nat /\ m \in Nat /\ n + m = WordsPerSector /\ t = m - 1
    BY <1>1, <1>4, <1>6
  <2> HIDE DEF n, m, t
  <2>2. (n + 1) + t = WordsPerSector
    BY <2>1, Numbers
  <2> QED BY <2>2 DEF n, t
<1>11. HalfRead(w)'
  BY <1>2, <1>3, <1>8, <1>9, <1>10 DEF HalfRead
<1> QED BY <1>8, <1>11

\* The drive has another word exactly if the operation wants one.
LEMMA WordsRunOutTogether ==
  ASSUME DiskInv, WordIn, drive.status = "in",
         Len(op.buf) + Len(drive.words) = WordsPerSector, medium' = medium
  PROVE  /\ drive'.status = (IF op'.pc = "done" THEN "idle" ELSE "in")
         /\ Len(op'.buf) + Len(drive'.words) = WordsPerSector
<1> DEFINE n == Len(op.buf)
           m == Len(drive.words)
           t == Len(drive'.words)
<1>1. n \in Nat /\ m \in 1 .. WordsPerSector /\ n + m = WordsPerSector
  BY WordInEffect DEF DiskInv, DriveOK
<1>2. /\ op'.pc = (IF n + 1 = WordsPerSector THEN "done" ELSE "words in")
      /\ Len(op'.buf) = n + 1
  BY WordInEffect
<1>3. drive'.status = (IF m = 1 THEN "idle" ELSE "in") /\ drive'.words = Tail(drive.words)
  BY WordInDrive
<1>4. t = m - 1
  <2>1. drive.words \in Seq(Nat) /\ drive.words # <<>>
    BY <1>1, Numbers DEF DiskInv, DiskTypes, DriveState
  <2> QED BY <1>3, <2>1, HeadTailProperties
<1> HIDE DEF n, m, t
<1>5. (m = 1 <=> n + 1 = WordsPerSector) /\ (n + 1) + t = WordsPerSector
  BY <1>1, <1>4, Numbers
<1>6. drive'.status = (IF op'.pc = "done" THEN "idle" ELSE "in")
  BY <1>2, <1>3, <1>5
<1> QED BY <1>2, <1>5, <1>6 DEF t

LEMMA WordInKeeps ==
  ASSUME DiskInv, WordIn, UNCHANGED <<hi, lo, timedOut>>, UNCHANGED <<mainVars, disk, errors>>
  PROVE  DiskInv'
<1>1. /\ op.pc = "words in" /\ op.kind \in {"read", "identify"}
      /\ op'.kind = op.kind /\ op'.sector = op.sector /\ op'.pc \in {"done", "words in"}
      /\ medium' = medium /\ disk' = disk
  BY WordInEffect DEF mainVars
<1>2. ASSUME ~timedOut' PROVE InPlace'
  <2>1. InPlace
    BY <1>2 DEF DiskInv
  <2>2. /\ drive.status = "in" /\ Len(op.buf) + Len(drive.words) = WordsPerSector
        /\ op.kind = "read" => op.sector \in OnMedium /\ HalfRead(disk[op.sector])
    BY <1>1, <2>1 DEF InPlace, AtRead, AtIdentify, HalfRead
  <2>3. /\ drive'.status = (IF op'.pc = "done" THEN "idle" ELSE "in")
        /\ Len(op'.buf) + Len(drive'.words) = WordsPerSector
    BY <1>1, <2>2, WordsRunOutTogether
  <2>4. ASSUME op.kind = "read" PROVE AtRead'
    <3>1. op.sector \in OnMedium /\ HalfRead(disk[op.sector])
      BY <2>2, <2>4
    <3>2. op'.pc = "words in" => HalfRead(disk[op.sector])'
      <4> DEFINE w == disk[op.sector]
      <4>1. HalfRead(w)
        BY <3>1
      <4>2. w' = w
        BY <1>1
      <4>3. HalfRead(w)' <=> /\ Len(op'.buf) + Len(drive'.words) = WordsPerSector
                             /\ \A k \in 1 .. Len(op'.buf) : op'.buf[k] = w[k]
                             /\ \A k \in 1 .. Len(drive'.words) :
                                  drive'.words[k] = w[Len(op'.buf) + k]
        BY <4>2 DEF HalfRead
      <4>4. ASSUME NEW v, v = w PROVE op'.pc = "words in" => HalfRead(v)'
        BY <2>2, <4>1, <4>4, HalfReadGoesOn
      <4> QED BY <4>2, <4>4
    <3> QED BY <1>1, <2>3, <3>1, <3>2 DEF AtRead, OnMedium
  <2>5. op.kind = "identify" => AtIdentify'
    BY <1>1, <2>3 DEF AtIdentify
  <2> QED BY <1>1, <2>3, <2>4, <2>5 DEF InPlace, AtRegisters, AtWrite, Free
<1> QED BY <1>2, WordInTypes DEF DiskInv

LEMMA WordOutKeeps ==
  ASSUME DiskInv, WordOut, UNCHANGED <<hi, lo, timedOut>>, UNCHANGED <<mainVars, disk, errors>>
  PROVE  DiskInv'
<1> DEFINE buf == op.buf
           data == op.data
           sent == Append(buf, data)
<1>1. /\ buf \in Seq(Nat) /\ data \in Nat /\ op.pc = "words out"
      /\ op.kind = "write" /\ Len(buf) < WordsPerSector /\ Len(buf) \in Nat
      /\ op'.kind = "write" /\ op'.sector = op.sector /\ op'.data = data
      /\ op'.buf = sent /\ medium' = medium /\ disk' = disk
      /\ op'.pc = (IF Len(buf) + 1 = WordsPerSector THEN "flush" ELSE "words out")
  BY WordOutEffect DEF mainVars
<1>2. ASSUME ~timedOut' PROVE InPlace'
  <2>1. /\ drive.lba = op.sector /\ drive.status = "out" /\ drive.words = buf
        /\ \A k \in 1 .. Len(buf) : buf[k] = data
    BY <1>1, <1>2 DEF DiskInv, InPlace, AtWrite
  <2>2. Len(sent) = Len(buf) + 1 /\ sent \in Seq(Nat)
    <3> HIDE DEF buf, data
    <3> QED BY <1>1, AppendProperties
  <2>3. /\ drive'.lba = drive.lba /\ drive'.words = sent
        /\ Len(sent) < WordsPerSector => drive'.status = "out"
        /\ Len(sent) >= WordsPerSector => drive'.status = "busy" /\ drive'.cmd = "store"
    BY <1>1, <2>1, WordOutDrive
  <2>4. Len(buf) + 1 \in 1 .. WordsPerSector
    <3> DEFINE n == Len(buf)
    <3>1. n \in Nat /\ n < WordsPerSector
      BY <1>1
    <3> HIDE DEF n
    <3>2. n + 1 \in 1 .. WordsPerSector
      BY <3>1, Numbers
    <3> QED BY <3>2 DEF n
  <2>5. \A k \in 1 .. Len(sent) : sent[k] = data
    <3> DEFINE c == [k \in Nat |-> data]
    <3>1. \A k \in Nat : c[k] = data
      OBVIOUS
    <3> HIDE DEF c, buf, data
    <3>2. \A k \in 1 .. Len(buf) : buf[k] = c[k]
      BY <2>1, <3>1
    <3>3. data = c[Len(buf) + 1]
      <4>1. Len(buf) + 1 \in Nat
        BY <2>4
      <4> QED BY <3>1, <4>1
    <3>4. \A k \in 1 .. Len(sent) : sent[k] = c[k]
      BY <1>1, <3>2, <3>3, GrowsByOne
    <3> QED BY <2>2, <3>1, <3>4
  <2> HIDE DEF sent
  <2>6. CASE Len(buf) + 1 = WordsPerSector
    <3>1. op'.pc = "flush" /\ drive'.status = "busy" /\ drive'.cmd = "store"
      <4>1. Len(sent) >= WordsPerSector
        BY <2>2, <2>6, Numbers
      <4> QED BY <1>1, <2>3, <2>6, <4>1
    <3>2. \A k \in 1 .. WordsPerSector : drive'.words[k] = op'.data
      BY <1>1, <2>2, <2>3, <2>5, <2>6
    <3>3. InStore' /\ drive'.lba = op'.sector
      BY <1>1, <2>1, <2>3, <3>1, <3>2 DEF InStore, Busy
    <3> QED BY <1>1, <3>1, <3>3 DEF InPlace, AtRegisters, AtWrite
  <2>7. CASE Len(buf) + 1 # WordsPerSector
    <3>1. Len(sent) < WordsPerSector
      <4> DEFINE n == Len(buf)
      <4>1. n + 1 \in 1 .. WordsPerSector /\ n + 1 # WordsPerSector /\ Len(sent) = n + 1
        BY <2>2, <2>4, <2>7
      <4> HIDE DEF n
      <4> QED BY <4>1, Numbers
    <3>2. op'.pc = "words out" /\ drive'.status = "out"
      BY <1>1, <2>3, <2>7, <3>1
    <3>3. \A k \in 1 .. Len(op'.buf) : op'.buf[k] = op'.data
      BY <1>1, <2>5
    <3> QED BY <1>1, <2>1, <2>3, <3>2, <3>3 DEF InPlace, AtRegisters, AtWrite
  <2> QED BY <2>6, <2>7
<1> QED BY <1>2, WordOutTypes DEF DiskInv

LEMMA DriverKeeps == DiskInv /\ DriverStep => DiskInv'
BY RegistersKeep, CommandKeeps, PollKeeps, WaitsKeep, WordInKeeps, WordOutKeeps
   DEF DriverStep

-----------------------------------------------------------------------------
(***************************************************************************)
(* The drive.                                                              *)
(***************************************************************************)

\* Everything but the drive, the disk and the history of the operation stays.
LEMMA DriveFrame ==
  ASSUME DiskInv, Drive, drive' \in DriveState, disk' \in [OnMedium -> Content],
         op' \in Operation, op' = [op EXCEPT !.refused = op'.refused]
  PROVE  DiskTypes' /\ Roles' /\ OperationOK'
<1>1. UNCHANGED <<hi, lo, timedOut, mainVars>>
  BY DEF Drive
<1>2. /\ op'.pc = op.pc /\ op'.kind = op.kind /\ op'.sector = op.sector /\ op'.buf = op.buf
      /\ op'.data = op.data
  BY DEF DiskInv, DiskTypes, Operation
<1>3. DiskTypes' /\ Roles'
  BY <1>1, <1>2 DEF DiskInv, DiskTypes, Roles, mainVars, OnMedium
<1>4. OperationOK'
  BY <1>2 DEF DiskInv, OperationOK
<1> QED BY <1>3, <1>4

\* A busy drive works for the operation that runs.
LEMMA BusyFor ==
  ASSUME DiskInv, drive.status = "busy", ~timedOut
  PROVE  /\ op.pc \in {"poll", "wait bsy", "flush", "wait flush"}
         /\ op.pc = "poll" =>
              Busy(op.kind) /\ (op.kind = "read" => drive.lba = op.sector)
         /\ op.pc = "wait bsy" => Busy("write") /\ drive.lba = op.sector
         /\ op.pc \in {"flush", "wait flush"} =>
              /\ drive.lba = op.sector /\ op.sector \in OnMedium
              /\ InStore \/ (AfterStore /\ op.pc = "wait flush" /\ Busy("flush"))
         /\ op.pc = "poll" => op.kind \in {"read", "identify"}
         /\ op.pc # "poll" => op.kind = "write"
<1>1. InPlace /\ op.pc \in Label /\ OperationOK
  BY DEF DiskInv, DiskTypes, Operation
<1>2. op.pc \notin {"idle", "done", "select", "low", "command"}
  BY <1>1 DEF InPlace, AtRegisters, Free
<1>3. op.pc # "words in"
  BY <1>1 DEF InPlace, AtRead, AtIdentify, OperationOK, Reading
<1>4. op.pc \notin {"wait drq", "words out"}
  BY <1>1 DEF InPlace, AtWrite
<1>5. op.pc \in {"poll", "wait bsy", "flush", "wait flush"}
  BY <1>1, <1>2, <1>3, <1>4 DEF Label, Reading, Writing
<1>6. /\ op.pc = "poll" => op.kind \in {"read", "identify"}
      /\ op.pc # "poll" => op.kind = "write"
  BY <1>1, <1>5 DEF OperationOK, Reading, Writing
<1>7. op.pc = "poll" => Busy(op.kind) /\ (op.kind = "read" => drive.lba = op.sector)
  BY <1>1, <1>6 DEF InPlace, AtRead, AtIdentify
<1>8. op.pc = "wait bsy" => Busy("write") /\ drive.lba = op.sector
  BY <1>1 DEF InPlace, AtWrite
<1>9. op.pc \in {"flush", "wait flush"} =>
        /\ drive.lba = op.sector /\ op.sector \in OnMedium
        /\ InStore \/ (AfterStore /\ op.pc = "wait flush" /\ Busy("flush"))
  <2>1. op.pc \in {"flush", "wait flush"} =>
          /\ drive.lba = op.sector
          /\ InStore \/ (AfterStore /\ op.pc = "wait flush" /\ Busy("flush"))
    BY <1>1 DEF InPlace, AtWrite, AfterStore, Free
  <2>2. InStore => OnDisk
    BY <1>1 DEF InStore, Busy, DiskInv, DriveOK
  <2>3. OnDisk => drive.lba \in OnMedium
    <3>1. drive.lba \in Sector /\ medium \in Media
      BY DEF DiskInv, DiskTypes, DriveState
    <3> QED BY <3>1, MediumSize DEF OnDisk, OnMedium, Sector
  <2> QED BY <2>1, <2>2, <2>3 DEF AfterStore
<1> QED BY <1>5, <1>6, <1>7, <1>8, <1>9

LEMMA SucceedKeeps ==
  ASSUME DiskInv, Drive, Succeed, op' = op
  PROVE  DiskInv'
<1>1. /\ drive \in DriveState /\ drive.lba \in Sector /\ drive.words \in Seq(Nat)
      /\ disk \in [OnMedium -> Content] /\ op \in Operation /\ DriveOK
      /\ drive.status = "busy" /\ medium' = medium /\ hi' = hi /\ lo' = lo
      /\ timedOut' = timedOut /\ medium \in Media
  BY DEF DiskInv, DiskTypes, DriveState, Drive, mainVars
<1>2. OnDisk => drive.lba \in OnMedium /\ disk[drive.lba] \in Content
  <2>1. OnDisk => drive.lba \in OnMedium
    BY <1>1, MediumSize DEF OnDisk, OnMedium, Sector
  <2> QED BY <1>1, <2>1
<1>3. ASSUME drive' \in DriveState, DriveOK', disk' \in [OnMedium -> Content],
             ~timedOut => InPlace'
      PROVE  DiskInv'
  <2>1. op' = [op EXCEPT !.refused = op'.refused]
    BY <1>1 DEF Operation
  <2> QED BY <1>1, <1>3, <2>1, DriveFrame DEF DiskInv
<1>4. CASE /\ drive.cmd = "read" /\ OnDisk /\ disk' = disk
           /\ drive' = [drive EXCEPT !.status = "in", !.words = disk[drive.lba]]
  <2>1. drive' \in DriveState /\ drive'.status = "in" /\ drive'.words = disk[drive.lba]
    BY <1>1, <1>2, <1>4 DEF DriveState, Status, Content
  <2>2. DriveOK'
    BY <1>2, <1>4, <2>1, Numbers DEF DriveOK, Content
  <2>3. ASSUME ~timedOut PROVE InPlace'
    <3>1. op.pc = "poll" /\ op.kind = "read" /\ drive.lba = op.sector
      BY <1>1, <1>4, <2>3, BusyFor DEF Busy, InStore
    <3>2. AtRead'
      BY <1>1, <1>2, <1>4, <2>1, <3>1 DEF AtRead, OnMedium
    <3> QED BY <3>1, <3>2 DEF InPlace, AtRegisters, AtWrite
  <2> QED BY <1>1, <1>3, <1>4, <2>1, <2>2, <2>3
<1>5. CASE /\ drive.cmd = "identify" /\ disk' = disk
           /\ drive' = [drive EXCEPT !.status = "in",
                          !.words = [k \in 1 .. WordsPerSector |-> medium.size]]
  <2> DEFINE size == medium.size
             sizes == [k \in 1 .. WordsPerSector |-> size]
  <2>1. sizes \in Seq(Nat) /\ Len(sizes) = WordsPerSector
    <3>1. size \in Nat
      BY <1>1, MediumSize, Numbers DEF Sector
    <3> HIDE DEF size
    <3>2. sizes \in [1 .. WordsPerSector -> Nat]
      BY <3>1
    <3> HIDE DEF sizes
    <3>3. sizes \in Seq(Nat)
      BY <3>2, Numbers
    <3>4. DOMAIN sizes = 1 .. WordsPerSector
      BY <3>2
    <3> QED BY <3>3, <3>4, LenProperties, Numbers
  <2>2. drive' = [drive EXCEPT !.status = "in", !.words = sizes]
    BY <1>5
  <2> HIDE DEF sizes
  <2>3. drive' \in DriveState /\ drive'.status = "in" /\ drive'.words = sizes
    BY <1>1, <2>1, <2>2 DEF DriveState, Status
  <2>4. DriveOK'
    BY <2>1, <2>3, Numbers DEF DriveOK
  <2>5. ASSUME ~timedOut PROVE InPlace'
    <3>1. op.pc = "poll" /\ op.kind = "identify"
      BY <1>1, <1>5, <2>5, BusyFor DEF Busy, InStore
    <3>2. AtIdentify'
      BY <1>1, <2>1, <2>3, <3>1 DEF AtIdentify
    <3> QED BY <3>1, <3>2 DEF InPlace, AtRegisters, AtWrite
  <2> QED BY <1>1, <1>3, <1>5, <2>3, <2>4, <2>5
<1>6. CASE drive.cmd = "write" /\ OnDisk /\ drive' = [drive EXCEPT !.status = "out"] /\ disk' = disk
  <2>1. /\ drive' \in DriveState /\ drive'.status = "out" /\ drive'.words = drive.words
        /\ drive'.lba = drive.lba
    BY <1>1, <1>6 DEF DriveState, Status
  <2>2. drive'.words = <<>>
    BY <1>1, <1>6, <2>1 DEF DriveOK
  <2>3. DriveOK'
    BY <1>1, <1>6, <2>1, <2>2, Numbers DEF DriveOK, OnDisk
  <2>4. ASSUME ~timedOut PROVE InPlace'
    <3>1. op.pc = "wait bsy" /\ op.kind = "write" /\ drive.lba = op.sector
      BY <1>1, <1>6, <2>4, BusyFor DEF Busy, InStore
    <3> QED BY <2>1, <2>2, <3>1 DEF InPlace, AtRegisters, AtWrite
  <2> QED BY <1>1, <1>3, <1>6, <2>1, <2>3, <2>4
<1>7. CASE /\ drive.cmd = "store" /\ disk' = [disk EXCEPT ![drive.lba] = drive.words]
           /\ drive' = [drive EXCEPT !.status = "idle", !.words = disk[drive.lba]]
  <2>1. /\ OnDisk /\ Len(drive.words) = WordsPerSector /\ drive.lba \in OnMedium
        /\ drive.words \in Content
    BY <1>1, <1>2, <1>7 DEF DriveOK, Content
  <2>2. drive' \in DriveState /\ drive'.status = "idle" /\ drive'.lba = drive.lba
    BY <1>1, <1>2, <1>7, <2>1 DEF DriveState, Status, Content
  <2>3. disk' \in [OnMedium -> Content]
    BY <1>1, <1>7, <2>1
  <2>4. DriveOK'
    BY <2>2 DEF DriveOK
  <2>5. ASSUME ~timedOut PROVE InPlace'
    <3>1. /\ op.pc \in {"flush", "wait flush"} /\ op.kind = "write" /\ drive.lba = op.sector
          /\ InStore
      BY <1>1, <1>7, <2>5, BusyFor DEF Busy
    <3>2. op'.sector \in OnMedium'
      <4>1. OnMedium' = OnMedium
        BY <1>1 DEF OnMedium
      <4>2. op.sector \in OnMedium
        BY <1>1, <2>5, <3>1, BusyFor
      <4> QED BY <4>1, <4>2
    <3>3. Stored'
      <4>1. disk'[op.sector] = drive.words
        BY <1>1, <1>7, <2>1, <3>1
      <4> QED BY <3>1, <4>1 DEF Stored, InStore
    <3> QED BY <2>2, <3>1, <3>2, <3>3 DEF InPlace, AtRegisters, AtWrite, AfterStore, Free
  <2> QED BY <1>3, <2>2, <2>3, <2>4, <2>5
<1>8. CASE drive.cmd = "flush" /\ drive' = [drive EXCEPT !.status = "idle"] /\ disk' = disk
  <2>1. drive' \in DriveState /\ drive'.status = "idle" /\ drive'.lba = drive.lba
    BY <1>1, <1>8 DEF DriveState, Status
  <2>2. DriveOK'
    BY <2>1 DEF DriveOK
  <2>3. ASSUME ~timedOut PROVE InPlace'
    <3>1. /\ op.pc = "wait flush" /\ op.kind = "write" /\ drive.lba = op.sector
          /\ AfterStore
      BY <1>1, <1>8, <2>3, BusyFor DEF Busy, InStore
    <3>2. AfterStore'
      BY <1>1, <1>8, <2>1, <3>1 DEF AfterStore, Stored, Free, OnMedium
    <3> QED BY <2>1, <3>1, <3>2 DEF InPlace, AtRegisters, AtWrite
  <2> QED BY <1>1, <1>3, <1>8, <2>1, <2>2, <2>3
<1> QED BY <1>4, <1>5, <1>6, <1>7, <1>8 DEF Succeed

\* Of an error, whether the sector is not on the disk or the drive fails.
LEMMA ErrorInPlace ==
  ASSUME DiskInv, Drive, ~timedOut, drive'.status = "error", drive'.lba = drive.lba,
         op'.pc = op.pc, op'.kind = op.kind, op'.sector = op.sector, op'.data = op.data,
         drive.cmd \in {"store", "flush"} => op'.refused
  PROVE  InPlace'
<1>1. drive.status = "busy"
  BY DEF Drive
<1>2. Free'
  BY DEF Free
<1>3. CASE op.pc = "poll"
  BY <1>1, <1>3, BusyFor DEF InPlace, AtRegisters, AtWrite, AtRead, AtIdentify
<1>4. CASE op.pc = "wait bsy"
  BY <1>1, <1>4, BusyFor DEF InPlace, AtRegisters, AtWrite
<1>5. CASE op.pc \in {"flush", "wait flush"}
  <2>1. op'.refused /\ drive.lba = op.sector /\ op.kind = "write"
    BY <1>1, <1>5, BusyFor DEF Busy, InStore
  <2>2. op'.sector \in OnMedium'
    BY <1>1, <1>5, BusyFor DEF Drive, mainVars, OnMedium
  <2>3. AfterStore'
    BY <1>2, <2>1, <2>2 DEF AfterStore
  <2> QED BY <1>5, <2>1, <2>3 DEF InPlace, AtRegisters, AtWrite
<1> QED BY <1>1, <1>3, <1>4, <1>5, BusyFor

LEMMA FailKeeps ==
  ASSUME DiskInv, Drive, Fail
  PROVE  DiskInv'
<1>1. /\ drive \in DriveState /\ op \in Operation /\ disk \in [OnMedium -> Content]
      /\ drive.words \in Seq(Nat) /\ timedOut' = timedOut
  BY DEF DiskInv, DiskTypes, DriveState, Drive
<1>2. /\ drive' = [drive EXCEPT !.status = "error"]
      /\ op' = [op EXCEPT !.refused = drive.cmd \in {"store", "flush"}]
  BY DEF Fail
<1>3. drive' \in DriveState /\ drive'.status = "error" /\ drive'.lba = drive.lba
  BY <1>1, <1>2 DEF DriveState, Status
<1>4. /\ op' \in Operation /\ op'.refused = (drive.cmd \in {"store", "flush"})
      /\ op'.pc = op.pc /\ op'.kind = op.kind /\ op'.sector = op.sector /\ op'.data = op.data
  <2> DEFINE b == drive.cmd \in {"store", "flush"}
  <2>1. b \in BOOLEAN /\ op' = [op EXCEPT !.refused = b]
    BY <1>2
  <2> HIDE DEF b
  <2>2. /\ op' \in Operation /\ op'.refused = b
        /\ op'.pc = op.pc /\ op'.kind = op.kind /\ op'.sector = op.sector /\ op'.data = op.data
    BY <1>1, <2>1 DEF Operation
  <2> QED BY <2>2 DEF b
<1>5. disk' \in [OnMedium -> Content]
  <2>1. CASE disk' = disk
    BY <1>1, <2>1
  <2>2. CASE /\ Len(drive.words) = WordsPerSector
             /\ disk' = [disk EXCEPT ![drive.lba] = drive.words]
    BY <1>1, <2>2 DEF Content
  <2> QED BY <2>1, <2>2 DEF Fail
<1>6. DriveOK'
  BY <1>3 DEF DriveOK
<1>7. ~timedOut' => InPlace'
  BY <1>1, <1>3, <1>4, ErrorInPlace
<1>8. op' = [op EXCEPT !.refused = op'.refused]
  BY <1>2, <1>4
<1> QED BY <1>3, <1>4, <1>5, <1>6, <1>7, <1>8, DriveFrame DEF DiskInv

LEMMA DriveKeeps == DiskInv /\ Drive => DiskInv'
<1> SUFFICES ASSUME DiskInv, Drive PROVE DiskInv'
  OBVIOUS
<1>1. CASE Succeed /\ op' = op
  BY <1>1, SucceedKeeps
<1>2. CASE Fail
  BY <1>2, FailKeeps
<1>3. CASE /\ drive.cmd \in {"read", "write"} /\ drive' = [drive EXCEPT !.status = "error"]
           /\ disk' = disk /\ op' = op
  <2>1. /\ drive \in DriveState /\ op \in Operation /\ disk \in [OnMedium -> Content]
        /\ timedOut' = timedOut
    BY DEF DiskInv, DiskTypes, Drive
  <2>2. drive' \in DriveState /\ drive'.status = "error" /\ drive'.lba = drive.lba
    BY <1>3, <2>1 DEF DriveState, Status
  <2>3. op' = [op EXCEPT !.refused = op'.refused]
    BY <1>3, <2>1 DEF Operation
  <2>4. DriveOK'
    BY <2>2 DEF DriveOK
  <2>5. ~timedOut' => InPlace'
    BY <1>3, <2>1, <2>2, ErrorInPlace
  <2> QED BY <1>3, <2>1, <2>2, <2>3, <2>4, <2>5, DriveFrame DEF DiskInv
<1> QED BY <1>1, <1>2, <1>3 DEF Drive

-----------------------------------------------------------------------------
(***************************************************************************)
(* The users.                                                              *)
(***************************************************************************)

\* The users leave the drive alone.
LEMMA UserFrame ==
  ASSUME DiskInv, UNCHANGED <<medium, driveVars, timedOut>>
  PROVE  DriveOK' /\ (Free => Free') /\ OnMedium' = OnMedium
BY DEF DiskInv, driveVars, DriveOK, OnDisk, Free, OnMedium

\* An empty buffer is within a sector.
LEMMA EmptyFits ==
  ASSUME NEW b, b = <<>>
  PROVE  Len(b) <= WordsPerSector
BY Numbers

LEMMA BeginKeeps ==
  ASSUME DiskInv, NEW kind \in {"read", "write", "identify"}, NEW sector \in Sector,
         NEW data \in Nat, Begin(kind, sector, data),
         UNCHANGED <<medium, boot, next, listed, driveVars, dsp, timedOut>>, commands' \in Nat,
         kind = "write" => boot = "prompt",
         boot = "boot sector" => kind = "read" /\ sector = next
  PROVE  DiskInv'
<1>1. /\ op' \in Operation /\ op'.kind = kind /\ op'.sector = sector
      /\ op'.pc = (IF kind = "identify" THEN "command" ELSE "select")
      /\ op'.buf = <<>> /\ op.pc = "idle"
  BY BeginEffect
<1>2. DriveOK' /\ (Free => Free') /\ OnMedium' = OnMedium
  BY UserFrame
<1>3. DiskTypes' /\ Roles'
  BY <1>1, <1>2 DEF DiskInv, DiskTypes, Roles, driveVars
<1>4. OperationOK'
  <2>1. op'.buf = <<>>
    BY <1>1
  <2>2. Len(op'.buf) <= WordsPerSector
    BY <2>1, EmptyFits
  <2>3. op'.pc \in {"select", "command"} /\ op'.kind \in {"read", "write", "identify"}
        /\ (op'.pc = "select" => op'.kind # "identify")
    BY <1>1
  <2> QED BY <1>1, <2>2, <2>3 DEF OperationOK, Reading, Writing
<1>5. ASSUME ~timedOut' PROVE InPlace'
  <2>1. Free'
    BY <1>1, <1>2, <1>5 DEF DiskInv, InPlace
  <2> QED BY <1>1, <2>1 DEF InPlace, AtRegisters, AtRead, AtIdentify, AtWrite
<1> QED BY <1>2, <1>3, <1>4, <1>5 DEF DiskInv

LEMMA AfterCallKeeps ==
  ASSUME DiskInv, AfterCall, UNCHANGED <<medium, driveVars, timedOut>>,
         next' \in Sector, listed' \in Nat, dsp' = dsp, commands' = commands,
         boot' = "prompt" => boot = "prompt", boot = "prompt" => boot' = "prompt"
  PROVE  DiskInv'
<1>1. op' \in Operation /\ op'.pc = "idle" /\ op'.kind = "none" /\ op'.buf = <<>>
  BY IdleIsOperation DEF AfterCall
<1>2. DriveOK' /\ (Free => Free') /\ OnMedium' = OnMedium
  BY UserFrame
<1>3. DiskTypes' /\ Roles'
  BY <1>1, <1>2 DEF DiskInv, DiskTypes, Roles, driveVars
<1>4. OperationOK'
  <2>1. Len(<<>>) = 0
    OBVIOUS
  <2>2. Len(op'.buf) <= WordsPerSector
    BY <1>1, <2>1, Numbers
  <2> QED BY <1>1, <2>2 DEF OperationOK, Reading, Writing
<1>5. ASSUME ~timedOut' PROVE InPlace'
  <2>1. Free'
    BY <1>2, <1>5 DEF DiskInv, InPlace, AfterCall
  <2> QED BY <1>1, <2>1 DEF InPlace, AtRegisters, AtWrite
<1> QED BY <1>2, <1>3, <1>4, <1>5 DEF DiskInv

\* Steps of main that do not touch the operation.
LEMMA MainAloneKeeps ==
  ASSUME DiskInv, UNCHANGED <<medium, next, op, driveVars, timedOut>>,
         listed' \in Nat, dsp' \in {-1, 0, 1}, commands' = commands,
         boot # "prompt", boot' # "boot sector"
  PROVE  DiskInv'
<1>1. DriveOK' /\ (Free => Free') /\ OnMedium' = OnMedium
  BY UserFrame
<1>2. DiskTypes' /\ Roles'
  BY <1>1 DEF DiskInv, DiskTypes, Roles, driveVars
<1>3. OperationOK'
  BY DEF DiskInv, OperationOK
<1>4. InPlace'
  <2>1. hi' = hi /\ lo' = lo /\ drive' = drive /\ disk' = disk /\ op' = op /\ InPlace
    BY DEF driveVars, DiskInv, Roles
  <2> QED BY <1>1, <2>1 DEF InPlace, AtRegisters, AtRead, AtIdentify, AtWrite, HalfRead,
                         InStore, AfterStore, Stored, Busy, Free
<1> QED BY <1>1, <1>2, <1>3, <1>4 DEF DiskInv

LEMMA MainCallsKeep == DiskInv /\ MainCalls => DiskInv'
<1> SUFFICES ASSUME DiskInv, MainCalls PROVE DiskInv'
  OBVIOUS
<1>1. /\ UNCHANGED <<medium, driveVars, dsp, commands, timedOut>>
      /\ next \in Sector /\ listed \in Nat /\ commands \in Nat /\ 0 \in Nat /\ 0 \in Sector
      /\ medium \in Media /\ FirstSearched \in Sector /\ dsp \in {-1, 0, 1}
  BY Numbers DEF MainCalls, DiskInv, DiskTypes
<1>2. ASSUME NEW kind \in {"read", "identify"}, NEW sector \in Sector, Calls(kind, sector),
             boot = "boot sector" => kind = "read" /\ sector = next
      PROVE  DiskInv'
  <2>1. Begin(kind, sector, 0) /\ UNCHANGED <<boot, next, listed>> /\ kind # "write"
        /\ kind \in {"read", "write", "identify"}
    BY <1>2 DEF Calls
  <2> QED BY <1>1, <1>2, <2>1, BeginKeeps
<1>3. CASE PrintSize
  <2>1. CASE Calls("identify", 0)
    BY <1>1, <1>2, <1>3, <2>1 DEF PrintSize
  <2>2. CASE AfterCall /\ boot' = "search" /\ next' = FirstSearched /\ listed' = listed
    BY <1>1, <1>3, <2>2, AfterCallKeeps DEF PrintSize
  <2> QED BY <1>3, <2>1, <2>2 DEF PrintSize
<1>4. CASE MountCondition
  <2>1. CASE Calls("identify", 0)
    BY <1>1, <1>2, <1>4, <2>1 DEF MountCondition
  <2>2. CASE AfterCall /\ boot' \in {"boot sector", "ls lost"} /\ UNCHANGED <<next, listed>>
    BY <1>1, <1>4, <2>2, AfterCallKeeps DEF MountCondition
  <2> QED BY <1>4, <2>1, <2>2 DEF MountCondition
<1>5. CASE MountSector
  <2>1. CASE Calls("read", next)
    BY <1>1, <1>2, <1>5, <2>1 DEF MountSector
  <2>2. CASE AfterCall /\ listed' = listed /\ boot' \in {"ls", "search"}
             /\ next' \in {next, next + 1}
    <3>1. op.kind = "read" /\ op.sector = next /\ op.pc = "done" /\ ~timedOut
      BY <1>5, <2>2 DEF MountSector, AfterCall, DiskInv, Roles
    <3>2. next \in OnMedium
      BY <3>1 DEF DiskInv, InPlace, AtRead
    <3>3. next + 1 \in Sector
      <4>1. medium.size \in 1 .. Base * Base - 1 /\ Base * Base \in Int
        BY <1>1, MediumSize, Numbers
      <4>2. \A q \in Int : \A m \in 1 .. q - 1 : \A n \in 0 .. m - 1 : n + 1 \in 0 .. q - 1
        OBVIOUS
      <4> QED BY <3>2, <4>1, <4>2 DEF OnMedium, Sector
    <3> QED BY <1>1, <1>5, <2>2, <3>3, AfterCallKeeps DEF MountSector
  <2> QED BY <1>5, <2>1, <2>2 DEF MountSector
<1>6. CASE Ls
  <2>1. CASE listed < Len(medium.listing) /\ Calls("read", medium.listing[listed + 1])
    <3>1. medium.listing[listed + 1] \in Sector
      <4>1. medium.listing \in Seq(Sector)
        BY <1>1, MediumSize
      <4>2. listed + 1 \in 1 .. Len(medium.listing)
        BY <1>1, <2>1, <4>1, LenProperties
      <4> QED BY <4>1, <4>2, ElementOfSeq
    <3> QED BY <1>1, <1>2, <1>6, <2>1, <3>1 DEF Ls
  <2>2. CASE AfterCall /\ listed' = listed + 1 /\ UNCHANGED <<boot, next>>
    <3>1. listed' \in Nat
      BY <1>1, <2>2
    <3> QED BY <1>1, <1>6, <2>2, <3>1, AfterCallKeeps DEF Ls
  <2>3. CASE boot' = "sound" /\ UNCHANGED <<op, next, listed>>
    BY <1>1, <1>6, <2>3, MainAloneKeeps DEF Ls
  <2> QED BY <1>6, <2>1, <2>2, <2>3 DEF Ls
<1>7. CASE LsLost
  <2>1. CASE \E s \in Sector : Calls("read", s)
    BY <1>1, <1>2, <1>7, <2>1 DEF LsLost
  <2>2. CASE AfterCall /\ boot' \in {"ls lost", "sound", "halted"} /\ UNCHANGED <<next, listed>>
    BY <1>1, <1>7, <2>2, AfterCallKeeps DEF LsLost
  <2> QED BY <1>7, <2>1, <2>2 DEF LsLost
<1> QED BY <1>3, <1>4, <1>5, <1>6, <1>7 DEF MainCalls

LEMMA UsersKeep ==
  DiskInv /\ (DriveReset \/ SoundInit \/ CliInit \/ HandlerCalls \/ HandlerReturns) => DiskInv'
<1> SUFFICES ASSUME DiskInv,
                    DriveReset \/ SoundInit \/ CliInit \/ HandlerCalls \/ HandlerReturns
             PROVE DiskInv'
  OBVIOUS
<1>1. /\ next \in Sector /\ listed \in Nat /\ commands \in Nat /\ dsp \in {-1, 0, 1}
      /\ Sectors \subseteq Sector
  BY Numbers DEF DiskInv, DiskTypes
<1>2. CASE DriveReset
  BY <1>1, <1>2, MainAloneKeeps DEF DriveReset
<1>3. CASE SoundInit
  <2>1. /\ boot \in {"sound", "dsp 1", "dsp 2"} /\ boot' \in {"dsp 1", "dsp 2", "cli"}
        /\ UNCHANGED <<medium, next, listed, op, driveVars, commands, timedOut>>
    BY <1>3 DEF SoundInit, SoundSteps
  <2>2. dsp' \in {-1, 0, 1}
    <3>1. \/ dsp' \in {-1, 1}
          \/ dsp # 0 /\ dsp' = IF dsp > 0 THEN dsp - 1 ELSE dsp
          \/ dsp' = dsp
      BY <1>3 DEF SoundInit, SoundSteps
    <3>2. dsp \in {-1, 0, 1}
      BY <1>1
    <3> QED BY <3>1, <3>2
  <2> QED BY <1>1, <2>1, <2>2, MainAloneKeeps
<1>4. CASE CliInit
  BY <1>1, <1>4, MainAloneKeeps DEF CliInit
<1>5. CASE HandlerCalls
  <2>1. PICK kind \in {"read", "write"}, s \in Sectors : Begin(kind, s, 100 + commands)
    BY <1>5 DEF HandlerCalls
  <2>2. /\ 100 + commands \in Nat /\ commands' \in Nat /\ s \in Sector /\ boot = "prompt"
        /\ kind \in {"read", "write", "identify"}
        /\ UNCHANGED <<medium, boot, next, listed, driveVars, dsp, timedOut>>
    BY <1>1, <1>5 DEF HandlerCalls
  <2> QED BY <2>1, <2>2, BeginKeeps
<1>6. CASE HandlerReturns
  BY <1>1, <1>6, AfterCallKeeps DEF HandlerReturns, mainVars
<1> QED BY <1>2, <1>3, <1>4, <1>5, <1>6

LEMMA DiskStarts == DiskInit => DiskInv
<1> SUFFICES ASSUME DiskInit PROVE DiskInv
  OBVIOUS
<1>1. op \in Operation /\ op.pc = "idle" /\ op.kind = "none" /\ op.buf = <<>>
  BY IdleIsOperation DEF DiskInit
<1>2. disk \in [OnMedium -> Content]
  <2>1. ASSUME NEW s \in OnMedium PROVE Written(s) \in Content
    <3> DEFINE w == [k \in 1 .. WordsPerSector |-> s + 1]
    <3>1. s \in Nat
      BY MediumSize DEF DiskInit, OnMedium, Sector
    <3>2. w \in [1 .. WordsPerSector -> Nat]
      BY <3>1
    <3> HIDE DEF w
    <3>3. w \in Seq(Nat)
      BY <3>2, Numbers
    <3>4. Len(w) = WordsPerSector
      BY <3>2, <3>3, LenProperties, Numbers
    <3>5. w \in Content
      BY <3>3, <3>4 DEF Content
    <3> QED BY <3>5 DEF w, Written
  <2>2. disk = [s \in OnMedium |-> Written(s)]
    BY DEF DiskInit, OnMedium
  <2> QED BY <2>1, <2>2
<1>3. drive \in DriveState /\ drive.status = "idle"
  <2> DEFINE none == <<>>
  <2>1. none \in Seq(Nat)
    OBVIOUS
  <2>2. drive = [status |-> "idle", cmd |-> "none", lba |-> 0, words |-> none]
    BY DEF DiskInit
  <2> HIDE DEF none
  <2> QED BY <2>1, <2>2, Numbers DEF DriveState, Status, DriveCommand
<1>4. /\ hi \in 0 .. Base - 1 /\ lo \in 0 .. Base - 1 /\ next \in Sector /\ listed \in Nat
      /\ dsp \in {-1, 0, 1} /\ commands \in Nat /\ medium \in Media /\ timedOut = FALSE
      /\ boot = "reset"
  BY Numbers DEF DiskInit
<1>5. DiskTypes /\ Roles
  BY <1>1, <1>2, <1>3, <1>4 DEF DiskTypes, Roles
<1>6. OperationOK
  <2>1. Len(<<>>) = 0
    OBVIOUS
  <2> QED BY <1>1, <2>1, Numbers DEF OperationOK, Reading, Writing
<1>7. DriveOK /\ InPlace
  BY <1>1, <1>3 DEF DriveOK, InPlace, AtRegisters, AtWrite, Free
<1> QED BY <1>5, <1>6, <1>7 DEF DiskInv

LEMMA DiskStepKeeps == DiskInv /\ [DiskNext]_diskVars => DiskInv'
<1> SUFFICES ASSUME DiskInv, [DiskNext]_diskVars PROVE DiskInv'
  OBVIOUS
<1>1. CASE UNCHANGED diskVars
  <2>1. /\ medium' = medium /\ boot' = boot /\ next' = next /\ listed' = listed /\ op' = op
        /\ hi' = hi /\ lo' = lo /\ drive' = drive /\ disk' = disk /\ dsp' = dsp
        /\ commands' = commands /\ timedOut' = timedOut
    BY <1>1 DEF diskVars
  <2>2. DiskTypes' /\ Roles'
    BY <2>1 DEF DiskInv, DiskTypes, Roles, OnMedium
  <2>3. OperationOK' /\ DriveOK'
    BY <2>1 DEF DiskInv, OperationOK, DriveOK, OnDisk
  <2>4. InPlace => InPlace'
    BY <2>1 DEF InPlace, AtRegisters, AtRead, AtIdentify, AtWrite, HalfRead, InStore,
                AfterStore, Stored, Busy, Free, OnMedium
  <2> QED BY <2>1, <2>2, <2>3, <2>4 DEF DiskInv
<1> QED BY <1>1, DriverKeeps, DriveKeeps, MainCallsKeep, UsersKeep DEF DiskNext, Execute

LEMMA DiskTypesAsStated == DiskInv => DiskTypeOK
BY DEF DiskInv, DiskTypes, Operation, Kind, OperationOK, DriveState, Status, DriveOK,
       Content, OnMedium, DiskTypeOK

\* Every register, every word count, the search for the volume and every result
\* stay within the type invariant of the disk driver.
THEOREM DiskKeepsTypes == DiskSpec => []DiskTypeOK
BY DiskStarts, DiskStepKeeps, DiskTypesAsStated, PTL DEF DiskSpec

-----------------------------------------------------------------------------
(***************************************************************************)
(* What an operation comes to.                                             *)
(***************************************************************************)

\* Two sectors with the same words.
LEMMA SameWords ==
  ASSUME NEW s \in Seq(Nat), NEW t \in Content, Len(s) = WordsPerSector,
         \A k \in 1 .. Len(s) : s[k] = t[k]
  PROVE  s = t
BY SeqEqual, Numbers DEF Content

LEMMA ReturnsRight ==
  ASSUME DiskInv, DriverStep, op'.pc = "done", ~timedOut'
  PROVE  CASE op.kind = "read" -> op'.buf = disk[op.sector]
           [] op.kind = "write" /\ op'.result = 0 /\ ~op.refused ->
                /\ op.sector \in DOMAIN disk
                /\ \A k \in 1 .. WordsPerSector :
                     disk[op.sector][k] = op.data
           [] OTHER -> TRUE
<1>1. /\ op \in Operation /\ op.pc \in Label /\ OperationOK /\ timedOut \in BOOLEAN
      /\ disk \in [OnMedium -> Content]
  BY DEF DiskInv, DiskTypes, Operation
<1>2. ~timedOut
  BY <1>1 DEF DriverStep, WaitBsy, WaitDrq
<1>3. InPlace
  BY <1>2 DEF DiskInv
<1>4. CASE SetRegister \/ Command \/ WordOut
  <2>1. ASSUME NEW p \in Label \ {"done"}, Goto(p) PROVE FALSE
    BY <1>1, <2>1, GotoEffect
  <2>2. CASE SetRegister
    BY <2>1, <2>2 DEF SetRegister, Label
  <2>3. CASE Command
    BY <2>1, <2>3 DEF Command, Label, Reading, Writing
  <2>4. CASE WordOut
    BY <2>4, WordOutEffect
  <2> QED BY <1>4, <2>2, <2>3, <2>4
<1>5. CASE Poll
  <2>1. ~Goto("words in")
    <3>1. "words in" \in Label
      BY DEF Label, Reading
    <3> QED BY <1>1, <3>1, GotoEffect
  <2>2. op.kind = "identify"
    BY <1>5, <2>1 DEF Poll
  <2> QED BY <2>2
<1>6. CASE (WaitBsy \/ WaitDrq)
  <2>1. op.kind = "write"
    BY <1>1, <1>6 DEF OperationOK, WaitBsy, WaitDrq, Writing
  <2>2. ASSUME op'.result = 0, ~op.refused
        PROVE  op.sector \in OnMedium /\ Stored
    <3>1. ~Returns(-1)
      BY <1>1, <2>2, ReturnsEffect
    <3>2. ~Goto("wait drq") /\ ~Goto("words out")
      <4>1. {"wait drq", "words out"} \subseteq Label
        BY DEF Label, Writing
      <4> QED BY <1>1, <4>1, GotoEffect
    <3>3. op.pc = "wait flush" /\ drive.status # "busy"
      BY <1>6, <3>1, <3>2 DEF WaitBsy, WaitDrq
    <3> QED BY <1>3, <2>2, <3>3 DEF InPlace, AtWrite, InStore, AfterStore, Busy
  <2> QED BY <1>1, <2>1, <2>2 DEF Stored
<1>7. CASE WordIn
  <2>1. CASE op.kind = "read"
    <3>1. drive.status = "in" /\ op.sector \in OnMedium /\ HalfRead(disk[op.sector])
      BY <1>3, <1>7, <2>1, WordInEffect DEF InPlace, AtRead
    <3>2. \A k \in 1 .. Len(op'.buf) : op'.buf[k] = disk[op.sector][k]
      BY <1>7, <3>1, HalfReadGoesOn
    <3>3. op'.buf \in Seq(Nat) /\ Len(op'.buf) = WordsPerSector
      <4>1. /\ op' \in Operation /\ Len(op'.buf) = Len(op.buf) + 1
            /\ op'.pc = (IF Len(op.buf) + 1 = WordsPerSector THEN "done" ELSE "words in")
        BY <1>7, WordInEffect
      <4>2. Len(op'.buf) = WordsPerSector
        BY <4>1
      <4>3. op'.buf \in Seq(Nat)
        BY <4>1 DEF Operation
      <4> QED BY <4>2, <4>3
    <3>4. disk[op.sector] \in Content
      BY <1>1, <3>1
    <3> QED BY <2>1, <3>2, <3>3, <3>4, SameWords
  <2>2. CASE op.kind = "identify"
    BY <2>2
  <2> QED BY <1>7, <2>1, <2>2, WordInEffect
<1> QED BY <1>4, <1>5, <1>6, <1>7 DEF DriverStep

\* Only the write that runs changes the disk, and only its own sector.
LEMMA OnlyItsSector ==
  ASSUME DiskInv, Drive, ~timedOut, disk' # disk
  PROVE  /\ Running /\ op.kind = "write"
         /\ \A s \in DOMAIN disk \ {op.sector} : disk'[s] = disk[s]
<1>1. drive.status = "busy" /\ disk \in [OnMedium -> Content]
  BY DEF Drive, DiskInv, DiskTypes
<1>2. /\ drive.cmd \in {"store", "flush"}
      /\ disk' = [disk EXCEPT ![drive.lba] = drive.words]
  BY DEF Drive, Succeed, Fail
<1>3. op.pc \in {"flush", "wait flush"} /\ op.kind = "write" /\ drive.lba = op.sector
  BY <1>1, <1>2, BusyFor DEF Busy
<1> QED BY <1>1, <1>2, <1>3 DEF Running

Right ==
  ~timedOut' =>
    /\ Running /\ op'.pc = "done" =>
         CASE op.kind = "read" -> op'.buf = disk[op.sector]
           [] op.kind = "write" /\ op'.result = 0 /\ ~op.refused ->
                /\ op.sector \in DOMAIN disk
                /\ \A k \in 1 .. WordsPerSector :
                     disk[op.sector][k] = op.data
           [] OTHER -> TRUE
    /\ disk' # disk =>
         /\ Running /\ op.kind = "write"
         /\ \A s \in DOMAIN disk \ {op.sector} : disk'[s] = disk[s]
    /\ ~Running' => Free'

LEMMA StepIsRight == DiskInv /\ DiskInv' /\ [DiskNext]_diskVars => Right
<1> SUFFICES ASSUME DiskInv, DiskInv', [DiskNext]_diskVars, ~timedOut' PROVE Right
  BY DEF Right
<1>1. ~Running' => Free'
  <2>1. op'.pc \in {"idle", "done"} => Free'
    BY DEF DiskInv, InPlace
  <2> QED BY <2>1 DEF Running
<1>2. CASE DriverStep
  <2>1. disk' = disk
    BY <1>2 DEF DriverStep
  <2> QED BY <1>1, <1>2, <2>1, ReturnsRight DEF Right
<1>3. CASE Drive
  <2>1. op'.pc = op.pc /\ timedOut' = timedOut
    <3>1. op' = op \/ op' = [op EXCEPT !.refused = drive.cmd \in {"store", "flush"}]
      BY <1>3 DEF Drive, Fail
    <3>2. op \in Operation
      BY DEF DiskInv, DiskTypes
    <3> QED BY <1>3, <3>1, <3>2 DEF Drive, Operation
  <2>2. Running => op'.pc # "done"
    BY <2>1 DEF Running
  <2> QED BY <1>1, <1>3, <2>1, <2>2, OnlyItsSector DEF Right
<1>4. CASE MainCalls \/ HandlerCalls \/ HandlerReturns
  <2>1. disk' = disk
    BY <1>4 DEF MainCalls, HandlerCalls, HandlerReturns, driveVars
  <2>2. Running => op'.pc # "done"
    <3>1. ASSUME NEW kind, NEW sector, NEW data, Begin(kind, sector, data) PROVE ~Running
      BY <3>1 DEF Begin, Running
    <3>2. AfterCall => ~Running
      BY DEF AfterCall, Running
    <3>3. ASSUME NEW kind, NEW sector, Calls(kind, sector) PROVE ~Running
      BY <3>1, <3>3 DEF Calls
    <3>4. CASE HandlerCalls \/ HandlerReturns
      BY <3>1, <3>2, <3>4 DEF HandlerCalls, HandlerReturns
    <3>5. CASE PrintSize \/ MountCondition \/ MountSector \/ LsLost
      BY <3>2, <3>3, <3>5 DEF PrintSize, MountCondition, MountSector, LsLost
    <3>6. CASE Ls
      BY <3>2, <3>3, <3>6 DEF Ls, Running
    <3> QED BY <1>4, <3>4, <3>5, <3>6 DEF MainCalls
  <2> QED BY <1>1, <2>1, <2>2 DEF Right
<1>5. CASE DriveReset \/ SoundInit \/ CliInit \/ UNCHANGED diskVars
  <2>1. disk' = disk /\ op' = op
    BY <1>5 DEF DriveReset, SoundInit, SoundSteps, CliInit, diskVars, driveVars
  <2> QED BY <1>1, <2>1 DEF Right, Running
<1> QED BY <1>2, <1>3, <1>4, <1>5 DEF DiskNext, Execute

\* No fairness is needed for it.
LEMMA DiskStepsRight == DiskInit /\ [][DiskNext]_diskVars => DiskOpsRight
<1>1. DiskInv /\ DiskInv' /\ [DiskNext]_diskVars => [Right]_diskVars
  BY StepIsRight
<1>2. [][Right]_diskVars => DiskOpsRight
  <2>1. [Right]_diskVars =>
          [~timedOut' =>
             /\ Running /\ op'.pc = "done" =>
                  CASE op.kind = "read" -> op'.buf = disk[op.sector]
                    [] op.kind = "write" /\ op'.result = 0 /\ ~op.refused ->
                         /\ op.sector \in DOMAIN disk
                         /\ \A k \in 1 .. WordsPerSector :
                              disk[op.sector][k] = op.data
                    [] OTHER -> TRUE
             /\ disk' # disk =>
                  /\ Running /\ op.kind = "write"
                  /\ \A s \in DOMAIN disk \ {op.sector} : disk'[s] = disk[s]
             /\ ~Running' => Free'
          ]_diskVars
    BY DEF Right
  <2> QED BY <2>1, PTL DEF DiskOpsRight
<1> QED BY <1>1, <1>2, DiskStarts, DiskStepKeeps, PTL

\* DiskOpsRight: a read is the sector, a write reported done is stored unless
\* the drive failed after it had taken the data, no other sector changes, and
\* the drive is ready after each operation, until a write has given up on it.
THEOREM DiskOperations == DiskSpec => DiskOpsRight
BY DiskStepsRight, PTL DEF DiskSpec

=============================================================================
