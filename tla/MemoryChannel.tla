--------------------------- MODULE MemoryChannel ---------------------------
(***************************************************************************)
(* The memory channel (Replay_Boot/fileio.c, FileIO_MCh): files and        *)
(* buffers are sent through a FIFO of the FPGA into the memory of the      *)
(* core, compared with it, and stored from it.  The FPGA empties the FIFO  *)
(* while the firmware goes on, and every wait for it ends after 100 ms.    *)
(* An access to the card may fail; FatFs then neither reads nor writes any *)
(* more of the file before it is closed.                                   *)
(*                                                                         *)
(* A byte is where it comes from: 1, 2, ... are the bytes of a file or     *)
(* buffer, Old what the memory held before, Garbage an uninitialized       *)
(* buffer.  The core's side is taken from how the firmware uses it.        *)
(***************************************************************************)
EXTENDS Integers, Sequences

CONSTANTS
    MemSize,        \* bytes of the core's memory
    FileBuf,        \* FILEBUF_SIZE
    MemBuf,         \* FILEIO_MEMBUF_SIZE
    CardRoom,       \* the card has room for a stored file of this size
    CardFails,      \* may an access to the card fail?
    SlowCore        \* may the FPGA take longer than 100 ms?

ASSUME BufferAssumption ==
    FileBuf \in Nat \ {0} /\ MemBuf \in Nat \ {0} /\ FileBuf % MemBuf = 0
ASSUME MemoryAssumption ==
    MemSize \in Nat /\ CardRoom \in Nat /\ CardFails \in BOOLEAN /\ SlowCore \in BOOLEAN

Old == 0
Garbage == -3

VARIABLES
    mem, fifo, adr, writes, \* core: memory, FIFO, address, direction
    stage,                  \* where the firmware is
    at, err,                \* FatFs's file: position, and has it failed?
    left, buf, rc,          \* remaining_size, fBuf, rc
    out,                    \* the stored file
    late                    \* history: did a wait time out?

fpga == <<mem, fifo, adr, writes>>
file == <<at, err>>
xfer == <<file, left, buf, rc, out>>

Less(a, b) == IF a < b THEN a ELSE b

\* n bytes from position k of a file or buffer.
Bytes(k, n) == [i \in 1 .. n |-> k + i]

-----------------------------------------------------------------------------
(* The FPGA.                                                                *)

\* The FIFO is written to memory behind the firmware's back.
Drain ==
    /\ writes /\ fifo # << >>
    /\ mem' = [mem EXCEPT ![adr] = Head(fifo)]
    /\ fifo' = Tail(fifo) /\ adr' = adr + 1
    /\ UNCHANGED <<writes, stage, xfer, late>>

\* Commands 0x80 and 0x81.  What is still in the FIFO is dropped.
SetAddress(base, w) ==
    adr' = base /\ writes' = w /\ fifo' = << >> /\ UNCHANGED mem

\* FileIO_MCh_WaitStat: the FPGA is ready in time, or 100 ms pass.
InTime == fifo = << >> /\ UNCHANGED late
TimesOut == SlowCore /\ late' = TRUE

-----------------------------------------------------------------------------
(* The file.                                                                *)

\* FF_Read or FF_Write of n bytes, of as many as the file has or there is room for.
Access(n, all) ==
    \/ err /\ n = 0 /\ UNCHANGED err
    \/ ~err /\ n = all /\ UNCHANGED err
    \/ ~err /\ CardFails /\ n < all /\ err' = TRUE

-----------------------------------------------------------------------------
(* FileIO_MCh_FileToMem of the file with length len: stage goes from        *)
(* "read" to "sent".  FF_Seek reads nothing to go to the beginning of the   *)
(* file, or to where it already is.                                         *)

FileToMem(base, size, offset, len) ==
    /\ SetAddress(base, TRUE)
    /\ at' = Less(offset, len) /\ left' = size /\ buf' = << >> /\ rc' = 0
    /\ stage' = "read" /\ UNCHANGED <<err, out, late>>

\* Mutant: the buffer is not clipped to the transfer.
ReadFileUnclipped(here, filled, ends, len) ==
    /\ stage = here /\ UNCHANGED <<fpga, rc, out, late>>
    /\ \/ left = 0 /\ stage' = ends /\ UNCHANGED <<file, left, buf>>
       \/ left # 0 /\ \E n \in 0 .. FileBuf :
             /\ Access(n, Less(FileBuf, len - at))
             /\ IF n = 0 THEN stage' = ends /\ UNCHANGED <<at, left, buf>>
                ELSE /\ buf' = Bytes(at, n) /\ at' = at + n /\ left' = left - Less(left, n)
                     /\ stage' = filled

\* The next buffer of the file, clipped to the smallest of what was read and the
\* transfer.  Where nothing can be read, the loop ends.
ReadFile(here, filled, ends, len) ==
    /\ stage = here /\ UNCHANGED <<fpga, rc, out, late>>
    /\ \/ left = 0 /\ stage' = ends /\ UNCHANGED <<file, left, buf>>
       \/ left # 0 /\ \E n \in 0 .. FileBuf :
             /\ Access(n, Less(FileBuf, len - at))
             /\ IF n = 0 THEN stage' = ends /\ UNCHANGED <<at, left, buf>>
                ELSE /\ buf' = Bytes(at, Less(left, n)) /\ at' = at + n
                     /\ left' = left - Less(left, n) /\ stage' = filled

ToChunk == SubSeq(buf, 1, Less(MemBuf, Len(buf)))
Rest == SubSeq(buf, Len(ToChunk) + 1, Len(buf))

\* Mutant: the FIFO is filled again before the FPGA has emptied it.
SendChunkEarly ==
    /\ stage = "send" /\ buf # << >>
    /\ fifo' = ToChunk /\ buf' = Rest /\ UNCHANGED late
    /\ UNCHANGED <<mem, adr, writes, stage, file, left, rc, out>>

\* The next chunk goes into the FIFO as soon as that is empty.
SendChunk ==
    /\ stage = "send" /\ buf # << >>
    /\ InTime /\ fifo' = ToChunk /\ buf' = Rest
    /\ UNCHANGED <<mem, adr, writes, stage, file, left, rc, out>>

\* FileIO_MCh_SendBuffer gives up: the chunk is lost, the loop goes on.
ChunkLost ==
    /\ stage = "send" /\ buf # << >>
    /\ fifo = << >> /\ TimesOut /\ buf' = Rest /\ rc' = 1
    /\ UNCHANGED <<fpga, stage, file, left, out>>

BufferSent ==
    /\ stage = "send" /\ buf = << >> /\ stage' = "read"
    /\ UNCHANGED <<fpga, xfer, late>>

\* The wait before a chunk gives up, and so does the upload.
SendStops ==
    /\ stage = "send" /\ buf # << >> /\ TimesOut
    /\ stage' = "sent" /\ rc' = 1 /\ buf' = << >>
    /\ UNCHANGED <<fpga, file, left, out>>

\* The wait for the last chunk.
FinishFile ==
    /\ stage = "finish" /\ stage' = "sent"
    /\ \/ InTime /\ rc' = IF left # 0 THEN 2 ELSE rc
       \/ TimesOut /\ rc' = 1
    /\ UNCHANGED <<fpga, file, left, buf, out>>

-----------------------------------------------------------------------------
(* FileIO_MCh_FileToMemVerify: stage goes from "vread" to "checked".  The   *)
(* result of FF_Seek is not looked at.                                      *)

FileToMemVerify(base, size, offset, len) ==
    /\ SetAddress(base, FALSE)
    /\ at' = Less(offset, len) /\ left' = size /\ buf' = << >> /\ rc' = 0
    /\ UNCHANGED err \/ (CardFails /\ at' \notin {0, at} /\ err' = TRUE)
    /\ stage' = "vread" /\ UNCHANGED <<out, late>>

\* What the memory holds at the address.
Memory(n) == [i \in 1 .. n |-> mem[adr + i - 1]]

\* Mutant: what differs is not looked at.
CompareChunkBlind ==
    /\ stage = "compare"
    /\ \/ /\ buf = << >> /\ stage' = "vread"
          /\ UNCHANGED <<fpga, xfer, late>>
       \/ /\ buf # << >> /\ InTime
          /\ adr' = adr + Len(ToChunk) /\ buf' = Rest
          /\ UNCHANGED <<mem, fifo, writes, stage, file, left, rc, out>>

\* A chunk is read and compared; a buffer with a difference is the last.
CompareChunk ==
    /\ stage = "compare"
    /\ \/ /\ buf = << >> /\ stage' = IF rc = 0 THEN "vread" ELSE "checked"
          /\ UNCHANGED <<fpga, xfer, late>>
       \/ /\ buf # << >> /\ InTime
          /\ rc' = IF Memory(Len(ToChunk)) = ToChunk THEN rc ELSE 1
          /\ adr' = adr + Len(ToChunk) /\ buf' = Rest
          /\ UNCHANGED <<mem, fifo, writes, stage, file, left, out>>
       \/ /\ buf # << >> /\ TimesOut /\ stage' = "checked" /\ rc' = 1 /\ buf' = << >>
          /\ UNCHANGED <<fpga, file, left, out>>

-----------------------------------------------------------------------------
(* FileIO_MCh_MemToFile: stage goes from "fetch" to "stored".               *)

MemToFile(base, size) ==
    /\ adr' = base /\ writes' = FALSE /\ fifo' = << >>
    /\ left' = size /\ buf' = << >> /\ rc' = 0 /\ out' = << >>
    /\ stage' = "fetch" /\ UNCHANGED <<file, late>>

\* Chunks are read until the buffer is as long as FatFs shall write.
FetchChunk ==
    LET want == Less(FileBuf, left)
        n == Less(MemBuf, want - Len(buf))
    IN /\ stage = "fetch"
       /\ \/ /\ left = 0 /\ stage' = "stored" /\ UNCHANGED <<fpga, xfer, late>>
          \/ /\ n > 0 /\ InTime
             /\ buf' = buf \o Memory(n) /\ adr' = adr + n
             /\ UNCHANGED <<mem, fifo, writes, stage, file, left, rc, out>>
          \/ /\ n > 0 /\ TimesOut /\ stage' = "stored" /\ rc' = 1 /\ buf' = << >>
             /\ UNCHANGED <<fpga, file, left, out>>

\* Mutant: no more than a chunk of the buffer is stored.
StoreBufferChunk ==
    /\ stage = "fetch" /\ left # 0 /\ Len(buf) = Less(FileBuf, left)
    /\ out' = out \o SubSeq(buf, 1, Less(Len(buf), MemBuf))
    /\ left' = left - Len(buf) /\ buf' = << >>
    /\ UNCHANGED <<fpga, stage, file, rc, late>>

\* FF_Write writes what there is room for.  Only if nothing can be written, the
\* loop ends, and without an error.
StoreBuffer ==
    /\ stage = "fetch" /\ left # 0 /\ Len(buf) = Less(FileBuf, left)
    /\ \E n \in 0 .. Len(buf) :
          /\ Access(n, Less(Len(buf), CardRoom - Len(out)))
          /\ IF n = 0 THEN stage' = "stored" /\ UNCHANGED <<out, left>>
             ELSE /\ out' = out \o SubSeq(buf, 1, n) /\ left' = left - Len(buf)
                  /\ UNCHANGED stage
    /\ buf' = << >> /\ UNCHANGED <<fpga, at, rc, late>>

-----------------------------------------------------------------------------
(* Short buffers.                                                           *)

\* FileIO_MCh_BufToMem up to its last wait; SendBuffer's result is not looked at.
BufToMem(s, base) ==
    /\ adr' = base /\ writes' = TRUE /\ UNCHANGED mem
    /\ \/ fifo' = s /\ UNCHANGED late
       \/ fifo' = << >> /\ TimesOut

\* What FileIO_MCh_MemToBuf leaves in an uninitialized buffer of n bytes.
MemToBuf(base, n) ==
    {[i \in 1 .. n |-> mem[base + i - 1]]} \cup
    IF SlowCore THEN {[i \in 1 .. n |-> Garbage]} ELSE {}
=============================================================================
