-------------------------------- MODULE Tape --------------------------------
(***************************************************************************)
(* The tape driver (Replay_Boot/fileio_drv02_tape.c) for UEF images: a     *)
(* stream of bits is made up from the chunks of the file while the core    *)
(* asks for bytes anywhere in it.  One cursor, s_ChunkData, remembers the  *)
(* chunk found last, and is shared by all drives.  A position in the file  *)
(* is the number of a chunk.                                               *)
(***************************************************************************)
EXTENDS Naturals, Sequences, DriveRequest

CONSTANTS
    TapeDrive,
    Tapes,          \* the files: [chunks, start], see TapeAssumption
    TapeAsks,       \* what the core asks for: [dir, drive, addr, size] in bytes
    ByteBits,       \* bits of the stream in a byte (8)
    BufBytes,       \* DRV02_BUF_SIZE
    DummyBits,      \* bits of a dummy byte between its carriers (20)
    Top,            \* 0xffffffff, the bit position of the scan for the length
    Together        \* may two drives hold tapes at the same time?

\* Chunks that carry bits; every other one is skipped.
Timed == {"data", "gap", "tone", "dummy"}
Chunk == [kind : Timed \cup {"other"}, bits : Nat, pre : Nat]
BitsOf(k) == IF k.kind \in Timed THEN k.bits ELSE 0
Chunks(t) == Len(t.chunks)

\* start[k] is the number of bits before chunk k.
ASSUME TapeAssumption ==
    \A t \in Tapes :
        /\ t.chunks \in Seq(Chunk)
        /\ t.start \in [1 .. Chunks(t) + 1 -> Nat]
        /\ t.start[1] = 0 /\ t.start[Chunks(t) + 1] < Top
        /\ \A k \in 1 .. Chunks(t) : t.start[k + 1] = t.start[k] + BitsOf(t.chunks[k])
        /\ \A j, k \in 1 .. Chunks(t) + 1 : j <= k => t.start[j] <= t.start[k]
ASSUME TapeAskAssumption ==
    TapeAsks \subseteq [dir : {"read", "write"}, drive : TapeDrive, addr : Nat, size : Nat]
ASSUME TapeSizeAssumption ==
    /\ TapeDrive # {} /\ ByteBits \in Nat \ {0} /\ BufBytes \in Nat \ {0}
    /\ DummyBits \in Nat /\ Top \in Nat /\ Together \in BOOLEAN

VARIABLES
    tape,           \* of each drive: [format, file, size, err]
    cursor,         \* s_ChunkData, or NoChunk while bit_offset_end is 0 in it
    walk,           \* GetChunkAtPosFile: [drive, scan, at, left, from]
    addr, left,     \* FileIO_Drv02_UEF_Process: addr and size, in bytes
    n               \* bits that are in its buffer

tapeVars == <<tape, cursor, walk, addr, left, n>>
transfer == <<addr, left, n>>

Empty == [chunks |-> << >>, start |-> <<0>>]
NoTape == [format |-> "none", file |-> Empty, size |-> 0, err |-> FALSE]
NoWalk ==
    [drive |-> CHOOSE d \in TapeDrive : TRUE, scan |-> FALSE, at |-> 1, left |-> 0, from |-> 0]
NoChunk == [kind |-> "other", place |-> 0, start |-> 0, end |-> 0, pre |-> 0]

TapeInit ==
    /\ tape = [d \in TapeDrive |-> NoTape]
    /\ cursor = NoChunk
    /\ walk = NoWalk
    /\ addr = 0 /\ left = 0 /\ n = 0

Lesser(a, b) == IF a < b THEN a ELSE b

-----------------------------------------------------------------------------
(* Between two calls of FileIO_FCh_Process: the drives.                     *)

Walk(d, scan, at, bits, from) ==
    walk' = [drive |-> d, scan |-> scan, at |-> at, left |-> bits, from |-> from]

\* FileIO_Drv02_InsertInit: a file with a good header is scanned for its
\* length; one whose header is bad, or cannot be read, stays without a format
\* but is inserted all the same.
InsertTape(d) ==
    /\ pc = "idle" /\ tape[d].format = "none"
    /\ Together \/ \A x \in TapeDrive : tape[x].format = "none"
    /\ \E t \in Tapes, good, fails \in BOOLEAN :
          /\ good => ~fails
          /\ tape' = [tape EXCEPT ![d] = [format |-> IF good THEN "uef" ELSE "xxx",
                                          file |-> t, size |-> 0, err |-> fails]]
          /\ IF good THEN pc' = "walk" /\ Walk(d, TRUE, 1, Top, 0) ELSE UNCHANGED <<pc, walk>>
    /\ cursor' = NoChunk
    /\ UNCHANGED <<phase, req, answer, moved, transfer>>

EjectTape(d) ==
    /\ pc = "idle" /\ tape[d].format # "none"
    /\ tape' = [tape EXCEPT ![d] = NoTape]
    /\ UNCHANGED <<lineVars, cursor, walk, transfer>>

-----------------------------------------------------------------------------
(* GetChunkAtPosFile, from its loop on.                                     *)

file == tape[walk.drive].file
chunk == file.chunks[walk.at]

\* Does what is read now contain the bit?
Hit(c, bit) == c.start <= bit /\ bit < c.end

\* The bit at an offset in a chunk, as GetBitAtPos makes it up.
BitOf(kind, place, offset, pre) ==
    CASE kind = "gap" -> <<"low">>
      [] kind = "tone" -> <<"high">>
      [] kind = "data" -> <<"data", place, offset>>
      [] kind = "dummy" -> IF offset < pre \/ offset >= pre + DummyBits
                           THEN <<"high">> ELSE <<"dummy", offset - pre>>
      [] OTHER -> <<"none">>

Deliver(b) == moved' = Append(moved, b) /\ n' = n + 1 /\ pc' = "bit"

\* Mutant: the length is rounded down.
NotFoundFloor(fails) ==
    /\ tape' = [tape EXCEPT ![walk.drive].err = fails,
                            ![walk.drive].size =
                   IF walk.scan THEN (Top - walk.left) \div ByteBits ELSE @]
    /\ IF walk.scan THEN pc' = "idle" /\ UNCHANGED <<moved, n>> ELSE Deliver(<<"low">>)
    /\ UNCHANGED <<phase, req, answer, cursor, walk, addr, left>>

\* The file ended, or a read failed, and no chunk has the bit: a scan now knows
\* the length of the tape, a bit is low.
NotFound(fails) ==
    /\ tape' = [tape EXCEPT ![walk.drive].err = fails,
                            ![walk.drive].size =
                   IF walk.scan THEN (Top - walk.left + ByteBits - 1) \div ByteBits ELSE @]
    /\ IF walk.scan THEN pc' = "idle" /\ UNCHANGED <<moved, n>> ELSE Deliver(<<"low">>)
    /\ UNCHANGED <<phase, req, answer, cursor, walk, addr, left>>

WalkEnds ==
    /\ pc = "walk" /\ walk.at > Chunks(file)
    /\ NotFound(tape[walk.drive].err)

WalkFails == pc = "walk" /\ walk.at <= Chunks(file) /\ NotFound(TRUE)

\* The chunk ends before the bit, or has none.
WalkOn ==
    /\ pc = "walk" /\ ~tape[walk.drive].err
    /\ walk.at <= Chunks(file) /\ walk.left >= BitsOf(chunk)
    /\ Walk(walk.drive, walk.scan, walk.at + 1, walk.left - BitsOf(chunk),
            walk.from + BitsOf(chunk))
    /\ UNCHANGED <<lineVars, tape, cursor, transfer>>

Found ==
    [kind |-> chunk.kind, place |-> walk.at, start |-> walk.from,
     end |-> walk.from + BitsOf(chunk), pre |-> chunk.pre]

\* The chunk has the bit, which the caller then takes from the cursor.  (The scan
\* looks for a bit behind every tape.)
WalkHits ==
    /\ pc = "walk" /\ ~tape[walk.drive].err
    /\ walk.at <= Chunks(file) /\ walk.left < BitsOf(chunk)
    /\ cursor' = Found /\ pc' = "bit"
    /\ UNCHANGED <<phase, req, answer, moved, tape, walk, transfer>>

-----------------------------------------------------------------------------
(* FileIO_Drv02_Process and FileIO_Drv02_UEF_Process.                       *)

AskTape == (\E r \in TapeAsks : Raise(r)) /\ UNCHANGED tapeVars

unit == tape[req.drive]

\* A tape that is not inserted; and what is taken but never answered: writes,
\* and files without a format.
TapeMissing ==
    /\ Accept("missing") /\ unit.format = "none"
    /\ UNCHANGED tapeVars

TapeAbort ==
    /\ pc = "missing" /\ Return("abort")
    /\ UNCHANGED <<moved, tapeVars>>

TapeIgnore ==
    /\ pc = "ignore" /\ ReturnUnanswered
    /\ UNCHANGED tapeVars

TapeBegin ==
    /\ phase = "req" /\ unit.format # "none"
    /\ Accept(IF req.dir = "write" \/ unit.format = "xxx" THEN "ignore" ELSE "bit")
    /\ addr' = Lesser(req.addr, unit.size) /\ left' = req.size /\ n' = 0
    /\ UNCHANGED <<tape, cursor, walk>>

Cur == Lesser(left, BufBytes)
Act == Lesser(Cur, unit.size - addr)
bit == addr * ByteBits + n

\* The next bit comes from the chunk of the cursor: a byte of the file that cannot be
\* read leaves any value.
BitHere ==
    /\ pc = "bit" /\ left # 0 /\ n < Act * ByteBits /\ Hit(cursor, bit)
    /\ \E fails \in BOOLEAN :
          /\ fails => cursor.kind = "data"
          /\ cursor.kind = "data" /\ unit.err => fails
          /\ tape' = [tape EXCEPT ![req.drive].err = @ \/ fails]
          /\ Deliver(IF fails THEN <<"any">>
                     ELSE BitOf(cursor.kind, cursor.place, bit - cursor.start, cursor.pre))
    /\ UNCHANGED <<phase, req, answer, cursor, walk, addr, left>>

\* Mutant: a walk from the cursor forgets that it does not begin at bit 0.
BitElsewhereUnrebased ==
    /\ pc = "bit" /\ left # 0 /\ n < Act * ByteBits /\ ~Hit(cursor, bit)
    /\ IF cursor.end # 0 /\ bit >= cursor.end
       THEN Walk(req.drive, FALSE, cursor.place + 1, bit - cursor.end, 0)
       ELSE Walk(req.drive, FALSE, 1, bit, 0)
    /\ cursor' = NoChunk /\ pc' = "walk"
    /\ UNCHANGED <<phase, req, answer, moved, tape, transfer>>

\* It is in another chunk: the walk goes on behind the cursor, or from the start.
BitElsewhere ==
    /\ pc = "bit" /\ left # 0 /\ n < Act * ByteBits /\ ~Hit(cursor, bit)
    /\ IF cursor.end # 0 /\ bit >= cursor.end
       THEN Walk(req.drive, FALSE, cursor.place + 1, bit - cursor.end, cursor.end)
       ELSE Walk(req.drive, FALSE, 1, bit, 0)
    /\ cursor' = NoChunk /\ pc' = "walk"
    /\ UNCHANGED <<phase, req, answer, moved, tape, transfer>>

\* The buffer goes into the FIFO; the tape may have ended in it.
SendBuffer ==
    /\ pc = "bit" /\ left # 0 /\ n = Act * ByteBits
    /\ IF Act # Cur THEN Return("trunc") /\ UNCHANGED transfer
       ELSE /\ addr' = addr + Cur /\ left' = left - Cur /\ n' = 0
            /\ UNCHANGED <<phase, req, answer, pc>>
    /\ UNCHANGED <<moved, tape, cursor, walk>>

TapeDone ==
    /\ pc = "bit" /\ left = 0 /\ Return("ok")
    /\ UNCHANGED <<moved, tapeVars>>

TapeTakes == TapeMissing \/ TapeBegin

TapeDriver ==
    \/ WalkEnds \/ WalkFails \/ WalkOn \/ WalkHits
    \/ TapeTakes \/ TapeAbort \/ TapeIgnore
    \/ BitHere \/ BitElsewhere \/ SendBuffer \/ TapeDone

TapeNext ==
    \/ \E d \in TapeDrive : InsertTape(d) \/ EjectTape(d)
    \/ AskTape
    \/ TapeDriver

-----------------------------------------------------------------------------
(* Properties.                                                              *)

TapeTypeOK ==
    /\ tape \in [TapeDrive -> [format : {"none", "uef", "xxx"}, file : Tapes \cup {Empty},
                               size : Nat, err : BOOLEAN]]
    /\ cursor \in [kind : Timed \cup {"other"}, place : Nat, start : Nat, end : Nat, pre : Nat]
    /\ walk \in [drive : TapeDrive, scan : BOOLEAN, at : Nat, left : Nat, from : Nat]
    /\ addr \in Nat /\ left \in Nat /\ n \in Nat

\* The cursor, when it says anything, describes a chunk of the tape that is
\* inserted, whatever was inserted before and wherever a walk was given up.
CursorRight ==
    cursor.end # 0 =>
        \A d \in TapeDrive : tape[d].format = "uef" =>
            LET t == tape[d].file IN
            /\ cursor.place \in 1 .. Chunks(t)
            /\ cursor.kind = t.chunks[cursor.place].kind
            /\ cursor.pre = t.chunks[cursor.place].pre
            /\ cursor.start = t.start[cursor.place]
            /\ cursor.end = t.start[cursor.place + 1]

\* The bit that a tape has at a position, without any cursor.
TapeHas(t, p, b) ==
    /\ \A k \in 1 .. Chunks(t) : t.start[k] <= p /\ p < t.start[k + 1] =>
          b = BitOf(t.chunks[k].kind, k, p - t.start[k], t.chunks[k].pre)
    /\ p >= t.start[Chunks(t) + 1] => b = <<"low">>

\* Every bit that the core gets is the one the tape has there, in whatever order
\* the core asks and the cursor wanders, unless the card failed.
BitsRight ==
    pc = "bit" /\ ~unit.err =>
        \A i \in 1 .. Len(moved) : TapeHas(unit.file, req.addr * ByteBits + i - 1, moved[i])

\* The length that the core is told is that of the tape in whole bytes, and a
\* transfer that is about to be acknowledged as OK has moved all bits of the bytes asked for.
LengthRight ==
    /\ \A d \in TapeDrive :
          tape[d].format = "uef" /\ ~tape[d].err /\ ~(pc = "walk" /\ walk.scan) =>
              LET all == tape[d].file.start[Chunks(tape[d].file) + 1]
              IN tape[d].size = (all + ByteBits - 1) \div ByteBits
    /\ pc = "bit" /\ left = 0 => Len(moved) = req.size * ByteBits

\* What the core gets from a tape.
TapeRight == BitsRight /\ LengthRight
=============================================================================
