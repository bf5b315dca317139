------------------------------- MODULE Drv08 -------------------------------
(***************************************************************************)
(* The ATA disk driver (Replay_Boot/fileio_drv08_ata.c): commands that the *)
(* core passes on from its task file, transfers through the FIFO of the    *)
(* channel, and the registers that the driver updates on the way.          *)
(*                                                                         *)
(* The driver and the core run side by side: while the driver is inside    *)
(* Drv08_ATA_Handle, the host computer empties the FIFO, fills it, and may *)
(* start the next command as soon as the drive is not busy.  Sectors are   *)
(* counted, and known by where they come from.  Drv08_HardFileSeek is here *)
(* what module HardFile shows of it: the file is at the sector asked for,  *)
(* or as near as FatFs gets.  How the core behaves is taken from how the   *)
(* driver uses it; FILEIO_REQ_ACT is req.                                  *)
(***************************************************************************)
EXTENDS Naturals, Sequences, Geometry

CONSTANTS
    LbaMod,         \* 2^32, where a sector number wraps
    Room,           \* sectors that a file may grow to
    Medium,         \* what may be inserted: [format, mode, size, start], where start
                    \* is where a partition of the card begins
    Address,        \* what the address registers may hold
    Count,          \* what the sector count register may hold
    MaxCount,       \* 0x100, what a sector count of 0 means
    Multiple,       \* what SET MULTIPLE MODE may be given
    MaxBurst,       \* DRV08_MAX_READ_BURST
    MaxBlocks,      \* DRV08_MAX_NUM_BLOCKS
    Slow            \* may the host take longer than FileIO_FCh_WaitStat waits?

ASSUME LbaAssumption == LbaMod \in Nat \ {0} /\ Room \in Nat
ASSUME MediumAssumption ==
    /\ Medium \subseteq [format : {"none", "HDF", "NAKED", "MMC", "ISO"},
                      mode : {"rw", "protected", "readonly"}, size : Nat, start : Nat]
    /\ \A m \in Medium : IF m.format = "MMC" THEN CardDivides(m.size) ELSE m.size <= Room
ASSUME AddressAssumption ==
    Address \subseteq [mode : {"lba"}, n : 0 .. LbaMod - 1] \cup
                      [mode : {"chs"}, c : Nat, h : 0 .. 15, s : 0 .. 255]
ASSUME CountAssumption ==
    MaxCount \in Nat \ {0} /\ Count \subseteq 0 .. MaxCount - 1 /\ Multiple \subseteq Nat
ASSUME BurstAssumption ==
    MaxBurst \in Nat \ {0} /\ MaxBlocks \in Nat \ {0} /\ Slow \in BOOLEAN

Data == {"READ_SECTORS", "READ_MULTIPLE", "WRITE_SECTORS", "WRITE_MULTIPLE"}
Plain == {"RECALIBRATE", "DIAGNOSTIC", "IDENTIFY", "INIT_PARAMETERS", "READ_VERIFY",
          "unknown"}

VARIABLES
    disk, spb,                  \* the drive and its sectors_per_block
    busy, req, tf, regs,        \* core: BUSY, a new command, the address registers
    fifo, drained,              \* core: sectors in the FIFO, and taken by the host
    granted, pushed,            \* core: sectors the host may send, and has sent
    pc, cmd,                    \* where the driver is, with which command
    adr, left, block,           \* its address, sector_count and block_count
    at, first, fpos, buf,       \* lba_naked or lba_mmc, first, the file, fbuf
    sent, written, failed       \* history: sectors sent, and written; did one fail?

host == <<fifo, drained, granted, pushed>>
core == <<busy, req, tf, regs, host>>
loop == <<adr, left, block, at, first, fpos, buf>>
history == <<sent, written, failed>>
vars == <<disk, spb, core, pc, cmd, loop, history>>

Smaller(a, b) == IF a < b THEN a ELSE b
Larger(a, b) == IF a < b THEN b ELSE a

NoCmd == [cmd |-> "none", a |-> [mode |-> "lba", n |-> 0], count |-> 0]
Start == [mode |-> "lba", c |-> 0, h |-> 0, s |-> 0, lba |-> 0]

TypeOK ==
    /\ <<busy, req, first, failed>> \in BOOLEAN \X BOOLEAN \X BOOLEAN \X BOOLEAN
    /\ spb \in Multiple \cup {0} /\ (disk.format # "MMC" => disk.size \in 0 .. Room)
    /\ pc \in {"idle", "return", "rwait", "rupdate", "rsend", "mblock", "mwait", "msend",
               "wfetch", "wupdate", "wfile", "xblock", "xfetch", "xwrite", "xupdate"}
    /\ adr.h \in 0 .. 15 /\ adr.s \in 0 .. 255 /\ adr.lba \in 0 .. LbaMod - 1
    /\ left \in 0 .. MaxCount /\ block \in 0 .. left
    /\ <<fifo, drained>> \in Nat \X Nat /\ pushed \in 0 .. granted
    /\ fpos \in 0 .. Room

\* FileIO_Drv08_InsertInit: the made-up RDB and a partition's sectors before it
\* are in front of the disk.
Insert(m) ==
    LET g == CASE m.format = "none" -> [c |-> 0, h |-> 0, s |-> 0]
               [] m.format = "MMC" -> CardGeometry(m.size)
               [] m.format = "NAKED" -> NakedGeometry(m.size)
               [] OTHER -> HardfileGeometry(m.size)
    IN [format |-> m.format, mode |-> m.mode, size |-> m.size, geo |-> g,
        offset |-> IF m.format = "NAKED" THEN RdbSectors(g) ELSE m.start]

Inserted == {Insert(m) : m \in Medium}

Init ==
    /\ disk \in Inserted /\ spb = 0
    /\ busy = FALSE /\ req = FALSE /\ tf = NoCmd /\ regs = NoCmd.a
    /\ fifo = 0 /\ drained = 0 /\ granted = 0 /\ pushed = 0
    /\ pc = "idle" /\ cmd = NoCmd /\ adr = Start
    /\ left = 0 /\ block = 0 /\ at = 0 /\ first = TRUE /\ fpos = 0 /\ buf = << >>
    /\ sent = << >> /\ written = << >> /\ failed = FALSE

-----------------------------------------------------------------------------
(* Addresses.                                                               *)

\* Drv08_chs2lba, without a sign: sector 0 of the first track is the last one.
Chs2Lba(c, h, s) ==
    ((c * disk.geo.h + h) * disk.geo.s + s + LbaMod - 1) % LbaMod

\* Drv08_GetParams.
GetParams(a) ==
    IF a.mode = "lba" THEN [Start EXCEPT !.lba = a.n]
    ELSE [mode |-> "chs", c |-> a.c, h |-> a.h, s |-> a.s, lba |-> Chs2Lba(a.c, a.h, a.s)]

SectorCount(n) == IF n = 0 THEN MaxCount ELSE n

\* Mutant: the last sector of a track is one too far.
IncParamsLate(x) ==
    LET y == [x EXCEPT !.lba = (@ + 1) % LbaMod]
    IN IF x.mode = "lba" THEN y
       ELSE IF x.s <= disk.geo.s THEN [y EXCEPT !.s = @ + 1]
       ELSE [y EXCEPT !.s = 1, !.h = (@ + 1) % disk.geo.h]

\* Mutant: the cylinder stays when the last head is passed.
IncParamsHead(x) ==
    LET y == [x EXCEPT !.lba = (@ + 1) % LbaMod]
    IN IF x.mode = "lba" THEN y
       ELSE IF x.s # disk.geo.s THEN [y EXCEPT !.s = @ + 1]
       ELSE [y EXCEPT !.s = 1, !.h = (@ + 1) % disk.geo.h]

\* Drv08_IncParams.  With an LBA, the other fields are never used.
IncParams(x) ==
    LET y == [x EXCEPT !.lba = (@ + 1) % LbaMod]
    IN IF x.mode = "lba" THEN y
       ELSE IF x.s # disk.geo.s THEN [y EXCEPT !.s = @ + 1]
       ELSE IF x.h + 1 # disk.geo.h THEN [y EXCEPT !.s = 1, !.h = @ + 1]
       ELSE [y EXCEPT !.s = 1, !.h = 0, !.c = @ + 1]

\* n sectors further, except that the first one is where the command began.
Advanced(x, n, isFirst) ==
    LET Adv[k \in 0 .. n] == IF k = 0 THEN x ELSE IncParams(Adv[k - 1])
    IN Adv[IF isFirst /\ n > 0 THEN n - 1 ELSE n]

\* Drv08_UpdateParams: the address registers show x.
Shown(x) ==
    IF x.mode = "lba" THEN [mode |-> "lba", n |-> x.lba]
    ELSE [mode |-> "chs", c |-> x.c, h |-> x.h, s |-> x.s]

\* Where sector l of the disk is: on the card, in the RDB made up for an image
\* without one, or in the image.
Where(l) ==
    IF disk.format = "MMC" THEN <<"card", (l + disk.offset) % LbaMod>>
    ELSE IF l < disk.offset THEN <<"rdb", l % 3>>
    ELSE <<"file", l - disk.offset>>

-----------------------------------------------------------------------------
(* The core and the host behind it.                                         *)

\* A command is written into the task file.
CoreCommand(c, a, n) ==
    /\ ~busy /\ busy' = TRUE /\ req' = TRUE
    /\ tf' = [cmd |-> c, a |-> a, count |-> n] /\ regs' = a
    /\ fifo' = 0 /\ drained' = 0 /\ granted' = 0 /\ pushed' = 0
    /\ UNCHANGED <<disk, spb, pc, cmd, loop, history>>

\* The host takes a sector; the last one ends a read command.
HostReads ==
    /\ fifo > 0 /\ fifo' = fifo - 1 /\ drained' = drained + 1
    /\ busy' = (busy /\ drained' # SectorCount(tf.count))
    /\ UNCHANGED <<disk, spb, req, tf, regs, granted, pushed, pc, cmd, loop, history>>

HostWrites ==
    /\ busy /\ pushed < granted /\ pushed' = pushed + 1
    /\ UNCHANGED <<disk, spb, busy, req, tf, regs, fifo, drained, granted, pc, cmd, loop, history>>

\* The driver is through with a read that fell short: the host may give up.
HostGivesUp ==
    /\ busy /\ ~req /\ pc = "idle" /\ fifo = 0 /\ busy' = FALSE
    /\ UNCHANGED <<disk, spb, req, tf, regs, host, pc, cmd, loop, history>>

\* Between two calls of the driver another image may be inserted, while a command
\* waits or the host still reads, too.
ChangeMedium ==
    /\ pc = "idle"
    /\ disk' \in Inserted /\ spb' = 0
    /\ sent' = << >> /\ written' = << >>
    /\ UNCHANGED <<core, pc, cmd, loop, failed>>

\* With DRQ the host may send a block, as it understands it.
HostBlock(c) == IF c.cmd = "WRITE_MULTIPLE" THEN spb ELSE 1

Grant(c) ==
    granted' = granted + Smaller(HostBlock(c), SectorCount(c.count) - granted)

-----------------------------------------------------------------------------
(* Drv08_ATA_Handle.                                                        *)

Reads(c) == c.cmd \in {"READ_SECTORS", "READ_MULTIPLE"}

\* The driver finds a new command and reads the task file.
Accept ==
    /\ pc = "idle" /\ req /\ req' = FALSE
    /\ cmd' = tf /\ sent' = << >> /\ written' = << >> /\ failed' = FALSE

\* Commands that the driver aborts before it has moved any data.
Refused(c) ==
    \/ disk.format = "none" \/ c.cmd = "unknown"
    \/ c.cmd \in {"WRITE_SECTORS", "WRITE_MULTIPLE"} /\ disk.mode # "rw"
    \/ c.cmd \in {"READ_MULTIPLE", "WRITE_MULTIPLE"} /\ spb = 0

\* Drv08_HardFileSeek.  A read that begins in the made-up RDB goes to the start
\* of the image, a write there fails, and so may the card.
SeekTo(c, l) == IF Reads(c) THEN Larger(l, disk.offset) ELSE l
SeekFails(c, l) == disk.format # "MMC" /\ SeekTo(c, l) < disk.offset
SeekMayFail == disk.format # "MMC"

\* "Write to MBR disabled"
Mbr(c, l) == ~Reads(c) /\ l = 0 /\ disk.format = "MMC" /\ disk.offset = 0

Abort ==
    /\ Accept
    /\ \/ Refused(tf)
       \/ tf.cmd \in Data /\ LET l == GetParams(tf.a).lba
                             IN SeekMayFail \/ Mbr(tf, l)
    /\ busy' = FALSE /\ regs' = tf.a
    /\ UNCHANGED <<disk, spb, tf, host, pc, loop>>

\* Commands without a loop.  IDENTIFY sends its sector; RECALIBRATE and
\* DIAGNOSTIC show a fixed address.
Simple ==
    /\ Accept /\ tf.cmd \notin Data /\ ~Refused(tf)
    /\ spb' = IF tf.cmd = "SET_MULTIPLE" THEN tf.count ELSE spb
    /\ regs' = IF tf.cmd \in {"RECALIBRATE", "DIAGNOSTIC"}
               THEN [mode |-> "chs", c |-> 0, h |-> 0, s |-> 1] ELSE tf.a
    /\ fifo' = IF tf.cmd = "IDENTIFY" THEN 1 ELSE fifo
    /\ busy' = FALSE
    /\ UNCHANGED <<disk, tf, drained, granted, pushed, pc, loop>>

\* The file is moved, and as in HardFile made longer if it is too short.
SeekFile(p) ==
    IF disk.format = "MMC" THEN UNCHANGED <<fpos, disk>>
    ELSE /\ fpos' = IF p <= disk.size THEN p
                    ELSE IF disk.mode = "readonly" THEN disk.size ELSE Smaller(p, Room)
         /\ disk' = [disk EXCEPT !.size = Larger(@, fpos')]

BeginData ==
    /\ Accept /\ tf.cmd \in Data /\ ~Refused(tf)
    /\ LET x == GetParams(tf.a)
       IN /\ ~SeekFails(tf, x.lba) /\ ~Mbr(tf, x.lba)
          /\ adr' = x /\ at' = x.lba
          /\ SeekFile(SeekTo(tf, x.lba) - disk.offset)
    /\ left' = SectorCount(tf.count) /\ block' = 0 /\ first' = TRUE /\ buf' = << >>
    /\ pc' = CASE tf.cmd = "READ_SECTORS" -> "rwait" [] tf.cmd = "READ_MULTIPLE" -> "mblock"
               [] tf.cmd = "WRITE_SECTORS" -> "wfetch" [] tf.cmd = "WRITE_MULTIPLE" -> "xblock"
    /\ IF Reads(tf) THEN UNCHANGED granted ELSE Grant(tf)
    /\ UNCHANGED <<spb, busy, tf, regs, fifo, drained, pushed>>

\* FileIO_FCh_WaitStat; what it returns is not looked at.
WaitFifo == fifo <= 1 \/ Slow

\* i sectors are sent.  Where the card fails or the image ends they are fewer,
\* and the driver does not notice.
Send(i) ==
    LET inFile == disk.format # "MMC" /\ at >= disk.offset
        can == IF inFile THEN Smaller(i, disk.size - Smaller(fpos, disk.size)) ELSE i
    IN \E k \in IF disk.format # "MMC" /\ ~inFile THEN {i} ELSE {can, 0} :
          /\ sent' = sent \o [j \in 1 .. k |->
                 IF inFile THEN <<"file", fpos + j - 1>> ELSE Where((at + j - 1) % LbaMod)]
          /\ fifo' = fifo + k
          /\ fpos' = IF inFile THEN fpos + k ELSE fpos
          /\ failed' = (failed \/ k # i)

\* The sectors in buf go to the file or to the card.
WriteBuf ==
    LET n == Len(buf)
        can == IF disk.format = "MMC" THEN n ELSE Smaller(n, Room - fpos)
    IN \E k \in {can, 0} :
          /\ written' = written \o [j \in 1 .. k |->
                 <<IF disk.format = "MMC" THEN <<"card", (at + disk.offset + j - 1) % LbaMod>>
                   ELSE <<"file", fpos + j - 1>>, buf[j]>>]
          /\ fpos' = IF disk.format = "MMC" THEN fpos ELSE fpos + k
          /\ disk' = IF disk.format = "MMC" THEN disk
                     ELSE [disk EXCEPT !.size = Larger(@, fpos')]
          /\ failed' = (failed \/ k # n)
    /\ buf' = << >>

\* A sector of the host, or, if it has not come in time, whatever is there.
Fetch ==
    LET got == SectorCount(cmd.count) - left + Len(buf)
    IN \/ pushed > got /\ buf' = Append(buf, got + 1)
       \/ pushed <= got /\ Slow /\ buf' = Append(buf, "stale")

(* READ SECTORS *)

RWait ==
    /\ pc = "rwait" /\ WaitFifo /\ pc' = "rupdate"
    /\ UNCHANGED <<disk, spb, core, cmd, loop, history>>

RUpdate ==
    /\ pc = "rupdate" /\ pc' = "rsend"
    /\ adr' = Advanced(adr, 1, first) /\ first' = FALSE
    /\ regs' = IF first THEN regs ELSE Shown(adr')
    /\ at' = adr'.lba
    /\ UNCHANGED <<disk, spb, busy, req, tf, host, cmd, left, block, fpos, buf, history>>

RSend ==
    /\ pc = "rsend" /\ Send(1)
    /\ left' = left - 1 /\ pc' = IF left' = 0 THEN "return" ELSE "rwait"
    /\ UNCHANGED <<disk, spb, busy, req, tf, regs, drained, granted, pushed, cmd, adr,
                   block, at, first, buf, written>>

(* READ MULTIPLE *)

\* A block begins: the registers show its last sector.
MBlock ==
    /\ pc = "mblock" /\ pc' = "mwait"
    /\ block' = Smaller(left, spb)
    /\ adr' = Advanced(adr, block', first) /\ first' = FALSE
    /\ regs' = Shown(adr')
    /\ UNCHANGED <<disk, spb, busy, req, tf, host, cmd, left, at, fpos, buf, history>>

MWait ==
    /\ pc = "mwait" /\ WaitFifo /\ pc' = "msend"
    /\ UNCHANGED <<disk, spb, core, cmd, loop, history>>

\* Mutant: a burst does not stop where the made-up RDB ends.
BurstUnclipped == Smaller(block, MaxBurst)

\* Mutant: a whole block at once.
BurstBlock ==
    IF disk.format # "MMC" /\ at < disk.offset THEN Smaller(block, disk.offset - at) ELSE block

Burst ==
    LET i == Smaller(block, MaxBurst)
    IN IF disk.format # "MMC" /\ at < disk.offset THEN Smaller(i, disk.offset - at) ELSE i

MSend ==
    /\ pc = "msend" /\ Send(Burst)
    /\ at' = (at + Burst) % LbaMod /\ left' = left - Burst /\ block' = block - Burst
    /\ pc' = IF block' > 0 THEN "mwait" ELSE IF left' > 0 THEN "mblock" ELSE "return"
    /\ UNCHANGED <<disk, spb, busy, req, tf, regs, drained, granted, pushed, cmd, adr,
                   first, buf, written>>

(* WRITE SECTORS *)

WFetch ==
    /\ pc = "wfetch" /\ Fetch /\ pc' = "wupdate"
    /\ UNCHANGED <<disk, spb, core, cmd, adr, left, block, at, first, fpos, history>>

\* Mutant: the command is not ended.
ReleaseOnly(l) ==
    IF l > 0 THEN Grant(cmd) /\ UNCHANGED busy ELSE UNCHANGED <<busy, granted>>

\* "release core": the next block of the host, or the end of the command.
Release(l) ==
    IF l > 0 THEN Grant(cmd) /\ UNCHANGED busy ELSE busy' = FALSE /\ UNCHANGED granted

\* The core is released before the sector is in the file.
WUpdate ==
    /\ pc = "wupdate" /\ pc' = "wfile"
    /\ adr' = Advanced(adr, 1, first) /\ first' = FALSE
    /\ regs' = IF first THEN regs ELSE Shown(adr')
    /\ left' = left - 1 /\ Release(left')
    /\ UNCHANGED <<disk, spb, req, tf, fifo, drained, pushed, cmd, block, at, fpos, buf, history>>

\* Mutant: the sector number on the card is not counted on.
NextAtStays(n) == at

NextAt(n) == (at + n) % LbaMod

WFile ==
    /\ pc = "wfile" /\ WriteBuf /\ at' = NextAt(1)
    /\ pc' = IF left = 0 THEN "return" ELSE "wfetch"
    /\ UNCHANGED <<spb, core, cmd, adr, left, block, first, sent>>

(* WRITE MULTIPLE *)

XBlock ==
    /\ pc = "xblock" /\ pc' = "xfetch" /\ block' = Smaller(left, spb)
    /\ UNCHANGED <<disk, spb, core, cmd, adr, left, at, first, fpos, buf, history>>

XFetch ==
    /\ pc = "xfetch" /\ Fetch
    /\ pc' = IF Len(buf') = Smaller(block, MaxBlocks) THEN "xwrite" ELSE "xfetch"
    /\ UNCHANGED <<disk, spb, core, cmd, adr, left, block, at, first, fpos, history>>

XWrite ==
    /\ pc = "xwrite" /\ WriteBuf
    /\ LET n == Len(buf)
       IN /\ at' = NextAt(n) /\ adr' = Advanced(adr, n, first)
          /\ left' = left - n /\ block' = block - n
    /\ first' = FALSE
    /\ pc' = IF block' > 0 THEN "xfetch" ELSE "xupdate"
    /\ UNCHANGED <<spb, core, cmd, sent>>

XUpdate ==
    /\ pc = "xupdate" /\ regs' = Shown(adr) /\ Release(left)
    /\ pc' = IF left = 0 THEN "return" ELSE "xblock"
    /\ UNCHANGED <<disk, spb, req, tf, fifo, drained, pushed, cmd, loop, history>>

\* Mutant: the registers are shown on the way out.
ReturnShows ==
    /\ pc = "return" /\ pc' = "idle" /\ regs' = Shown(adr)
    /\ adr' = Start /\ left' = 0 /\ block' = 0 /\ at' = 0 /\ first' = TRUE
    /\ fpos' = 0 /\ buf' = << >>
    /\ UNCHANGED <<disk, spb, busy, req, tf, host, cmd, history>>

\* Drv08_ATA_Handle returns: its variables are gone, and where the file is does
\* not matter any more.
Return ==
    /\ pc = "return" /\ pc' = "idle"
    /\ adr' = Start /\ left' = 0 /\ block' = 0 /\ at' = 0 /\ first' = TRUE
    /\ fpos' = 0 /\ buf' = << >>
    /\ UNCHANGED <<disk, spb, core, cmd, history>>

Driver ==
    \/ Abort \/ Simple \/ BeginData \/ Return
    \/ RWait \/ RUpdate \/ RSend \/ MBlock \/ MWait \/ MSend
    \/ WFetch \/ WUpdate \/ WFile \/ XBlock \/ XFetch \/ XWrite \/ XUpdate

Host == HostReads \/ HostWrites \/ HostGivesUp

Command ==
    \/ \E c \in Data, a \in Address, n \in Count : CoreCommand(c, a, n)
    \/ \E c \in Plain : CoreCommand(c, NoCmd.a, 1)
    \/ \E n \in Multiple : CoreCommand("SET_MULTIPLE", NoCmd.a, n)

Next == Driver \/ Host \/ Command \/ ChangeMedium

Spec == Init /\ [][Next]_vars

\* The driver runs on, and the host takes and sends what it may.
FairSpec == Spec /\ WF_vars(Driver) /\ WF_vars(HostReads) /\ WF_vars(HostWrites)

-----------------------------------------------------------------------------
(* Properties.                                                              *)

\* Sector n of the n-th place of the command.
Sector(n) == (GetParams(cmd.a).lba + n - 1) % LbaMod

\* Unless the card failed, a read sends the sectors that were asked for, in
\* order, across the end of the made-up RDB and across bursts and blocks.  Each
\* sector of a write is written once, to its own place, and all of them are when
\* the driver turns to something else.
SectorsRight ==
    ~failed =>
        /\ \A n \in 1 .. Len(sent) : sent[n] = Where(Sector(n))
        /\ \A n \in 1 .. Len(written) : written[n] = <<Where(Sector(n)), n>>
        /\ pc = "idle" /\ written # << >> => Len(written) = SectorCount(cmd.count)

\* "At command completion, the Command Block Registers contain the cylinder,
\* head and sector number of the last sector": in both ways of addressing.
RegistersRight ==
    pc = "idle" /\ ~req /\ sent \o written # << >> =>
        GetParams(regs).lba = Sector(SectorCount(cmd.count))

\* "We can only update the taskfile when BUSY": the driver changes the registers
\* only while the command it works on is not over, though the host may end a read
\* and begin another command as soon as the last sector was sent, and the last
\* sector of a write is still to be written when the core is released.
TaskFileWhileBusy ==
    [][regs' # regs => (~busy /\ busy') \/ (busy /\ (req => pc = "idle"))]_vars

\* A burst never overruns the FIFO, which holds MaxBurst sectors and the one
\* that may be left when it is nearly empty.
FifoFits == fifo <= MaxBurst + 1

\* What IDENTIFY tells the host to be on the disk is there: the geometry made up
\* for it holds no sector behind the end of the image or the partition.
CapacityThere ==
    Capacity(disk.geo) <= disk.size + IF disk.format = "NAKED" THEN disk.offset ELSE 0

\* Registers and FIFO are in order and the right sectors are moved, whatever the
\* command, the medium and the host's speed.
Inv == TypeOK /\ RegistersRight /\ FifoFits /\ SectorsRight /\ CapacityThere

\* "RDB": the partition that the made-up RDB describes is the whole image.
PartitionWhole ==
    disk.format = "NAKED" => Capacity(disk.geo) >= disk.size + disk.offset

\* The master boot record of the card is not written.
MbrKept == \A n \in 1 .. Len(written) : written[n][1] # <<"card", 0>>

\* Unless the card fails or the image ends, every command ends: driver and host
\* agree on how much is sent when.
CommandEnds == busy ~> ~busy \/ failed
=============================================================================
