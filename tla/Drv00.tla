------------------------------- MODULE Drv00 -------------------------------
(***************************************************************************)
(* The generic disk driver (Replay_Boot/fileio_drv00_generic.c) serving    *)
(* the file channels from main_update's polling loop, with the FatFs calls *)
(* it makes.  Positions and sizes count units of which Blk make a sector   *)
(* (512 bytes, DRV00_BLK_SIZE and DRV00_BUF_SIZE); the core may raise a    *)
(* request on any channel at any time.                                     *)
(***************************************************************************)
EXTENDS Naturals, Sequences

CONSTANTS
    Channels,       \* number of channels
    Drive,
    Blk,            \* units of a sector
    Room,           \* the card has room for a file to grow to this size
    Media,         \* what may be inserted into each channel's drives: [mode,
                    \* size], mode "none": nothing
    Requests,        \* what the core asks for on each channel: [dir, drive, addr, size]
    ProcessLimit    \* FILEIO_PROCESS_LIMIT

ASSUME ChannelAssumption == Channels \in Nat \ {0}
ASSUME BlkAssumption == Blk \in Nat \ {0} /\ Room \in Nat /\ Room % Blk = 0
ASSUME LimitAssumption == ProcessLimit \in Nat \ {0}
Channel == 0 .. Channels - 1

ASSUME MediumAssumption ==
    Media \in [Channel -> SUBSET [mode : {"none", "readonly", "protected", "rw"},
                                   size : 0 .. Room]]
ASSUME RequestAssumption ==
    \A c \in Channel :
        Requests[c] \subseteq [dir : {"read", "write"}, drive : Drive, addr : Nat, size : Nat]

VARIABLES
    phase, req, answer,     \* the core's side of each channel
    moved,                  \* file positions moved for the last request
    file,                   \* of each drive: [mode, size, fptr, err]
    pc, ch, goes,           \* where FileIO_Drv00_Process is
    addr, left              \* its addr and size

vars == <<phase, req, answer, moved, file, pc, ch, goes, addr, left>>
core == <<phase, req, answer, moved>>

Open(m) == [mode |-> m.mode, size |-> m.size, fptr |-> 0, err |-> FALSE]

File == [mode : {"none", "readonly", "protected", "rw"},
         size : 0 .. Room, fptr : 0 .. Room, err : BOOLEAN]

TypeOK ==
    /\ phase \in [Channel -> {"idle", "req", "busy"}]
    /\ \A c \in Channel : phase[c] # "idle" => req[c] \in Requests[c]
    /\ answer \in [Channel -> {"none", "ok", "seek", "trunc", "abort"}]
    /\ moved \in [Channel -> Seq(Nat)]
    /\ file \in [Channel -> [Drive -> File]]
    /\ \A c \in Channel, d \in Drive : file[c][d].fptr <= file[c][d].size
    /\ pc \in {"poll", "begin", "eject", "seek", "loop", "trunc", "wait",
              "ok", "more"}
    /\ ch \in Channel /\ goes \in 0 .. ProcessLimit
    /\ addr \in Nat /\ left \in Nat

Init ==
    /\ phase = [c \in Channel |-> "idle"]
    /\ req = [c \in Channel |-> [addr |-> 0, size |-> 0]]
    /\ answer = [c \in Channel |-> "none"]
    /\ moved = [c \in Channel |-> << >>]
    /\ file = [c \in Channel |-> [d \in Drive |-> Open([mode |-> "none", size |-> 0])]]
    /\ pc = "poll" /\ ch = 0 /\ goes = 0
    /\ addr = 0 /\ left = 0

-----------------------------------------------------------------------------
\* The core raises FILEIO_REQ_ACT; it keeps the request until REQ_ACK.
CoreRequest(c) ==
    /\ phase[c] = "idle" /\ phase' = [phase EXCEPT ![c] = "req"]
    /\ \E r \in Requests[c] : req' = [req EXCEPT ![c] = r]
    /\ answer' = [answer EXCEPT ![c] = "none"]
    /\ moved' = [moved EXCEPT ![c] = << >>]
    /\ UNCHANGED <<file, pc, ch, goes, addr, left>>

\* Between two calls of FileIO_FCh_Process the menu may change the medium of a
\* drive or its protection.
ChangeMedium(c, d) ==
    /\ pc = "poll"
    /\ \/ \E m \in Media[c] : file' = [file EXCEPT ![c][d] = Open(m)]
       \/ /\ file[c][d].mode \in {"rw", "protected"}
          /\ file' = [file EXCEPT ![c][d].mode =
                         IF @ = "rw" THEN "protected" ELSE "rw"]
    /\ UNCHANGED <<core, pc, ch, goes, addr, left>>

\* FileIO_Drv00_Process ends and with it its variables, and main_update turns
\* to the next channel.
Return ==
    /\ pc' = "poll" /\ goes' = 0 /\ addr' = 0 /\ left' = 0
    /\ ch' = (ch + 1) % Channels

Ack(a) ==
    /\ phase' = [phase EXCEPT ![ch] = "idle"]
    /\ answer' = [answer EXCEPT ![ch] = a]
    /\ UNCHANGED req

\* FileIO_FCh_Process reads the status of the channel.
Poll ==
    /\ pc = "poll"
    /\ IF phase[ch] = "req" THEN pc' = "begin" /\ goes' = ProcessLimit /\ UNCHANGED <<ch, addr, left>>
       ELSE Return
    /\ UNCHANGED <<core, file>>

\* The drive that the status names, its file, and the request in the FIFO.
r == req[ch]
f == file[ch][r.drive]

Begin ==
    /\ pc = "begin"
    /\ pc' = IF f.mode = "none" THEN "eject" ELSE "seek"
    /\ phase' = [phase EXCEPT ![ch] = "busy"]                   \* REQ_ACK
    /\ addr' = r.addr /\ left' = r.size
    /\ UNCHANGED <<req, answer, moved, file, ch, goes>>

NotMounted ==
    /\ pc = "eject" /\ Ack("abort") /\ Return
    /\ UNCHANGED <<moved, file>>

\* A file at a position, made longer if it has to be.
At(x, pos) == [x EXCEPT !.fptr = pos, !.size = IF pos > @ THEN pos ELSE @]

\* A file that an error of the card stopped at a position.
Failed(x, pos) == [x EXCEPT !.fptr = pos, !.err = TRUE]

Smaller(a, b) == IF a < b THEN a ELSE b

\* How far a file can be sought: one that may be written is made longer if it is
\* too short, as far as there is room; one opened for reading ends at its end.
SeekEnd == IF f.mode # "readonly" /\ addr > f.size THEN Room ELSE f.size

\* FF_Seek.  An error of the card stays with the file, and then only a seek to where the file
\* already is succeeds.
Seek ==
    /\ pc = "seek"
    /\ \/ /\ f.fptr = addr
          /\ pc' = "loop" /\ UNCHANGED <<file, core, ch, goes, addr, left>>
       \/ /\ f.fptr # addr /\ ~f.err
          /\ pc' = "loop" /\ UNCHANGED <<core, ch, goes, addr, left>>
          /\ file' = [file EXCEPT ![ch][r.drive] = At(f, Smaller(addr, SeekEnd))]
       \/ /\ f.fptr # addr
          /\ \E pos \in IF f.err THEN {f.fptr} ELSE 0 .. f.size :
                file' = [file EXCEPT ![ch][r.drive] = Failed(f, pos)]
          /\ Ack("seek") /\ Return /\ UNCHANGED moved

-----------------------------------------------------------------------------
(* The transfer loop.                                                       *)

\* A chunk ends where a sector ends.
Chunk == Smaller(left, Blk - (addr % Blk))

\* file_size - addr is computed without a sign.
Burstable ==
    /\ r.dir = "read" /\ addr % Blk = 0 /\ Chunk >= Blk
    /\ addr + Blk <= f.size \/ addr > f.size

Size == IF Burstable THEN (left \div Blk) * Blk ELSE Chunk

\* What FatFs moves of n units: all up to the end of the file, or a number of
\* sectors less because of an error of the card, which then stays with
\* the file.
Moves(n, end) ==
    LET all == IF f.err THEN 0 ELSE Smaller(n, end - f.fptr)
    IN {all} \cup {k \in 0 .. all : k % Blk = 0 /\ k < n}

\* Mutant: every chunk is counted as a whole sector.
AdvanceSector(n, k, sent, new) ==
    /\ file' = [file EXCEPT ![ch][r.drive] = new]
    /\ moved' = [moved EXCEPT ![ch] = @ \o [i \in 1 .. sent |-> f.fptr + i - 1]]
    /\ IF k # n THEN pc' = "trunc" /\ UNCHANGED <<addr, left>>
       ELSE /\ addr' = addr + Blk /\ left' = left - Blk
            /\ pc' = IF left' = 0 THEN "ok" ELSE "wait"
    /\ UNCHANGED <<phase, req, answer, ch>>

\* Mutant: what FatFs returns is not looked at.
AdvanceUnchecked(n, k, sent, new) ==
    /\ file' = [file EXCEPT ![ch][r.drive] = new]
    /\ moved' = [moved EXCEPT ![ch] = @ \o [i \in 1 .. sent |-> f.fptr + i - 1]]
    /\ addr' = addr + n /\ left' = left - n
    /\ pc' = IF left' = 0 THEN "ok" ELSE "wait"
    /\ UNCHANGED <<phase, req, answer, ch>>

\* n units were asked for and k counted, of which the first `sent' reached the
\* FIFO or the file: the loop goes on, or the transfer is truncated.
Advance(n, k, sent, new) ==
    /\ file' = [file EXCEPT ![ch][r.drive] = new]
    /\ moved' = [moved EXCEPT ![ch] = @ \o [i \in 1 .. sent |-> f.fptr + i - 1]]
    /\ IF k # n THEN pc' = "trunc" /\ UNCHANGED <<addr, left>>
       ELSE /\ addr' = addr + n /\ left' = left - n
            /\ pc' = IF left' = 0 THEN "ok" ELSE "wait"
    /\ UNCHANGED <<phase, req, answer, ch>>

\* After k of n units, is the file in error?
Fails(n, k, end) == f.err \/ k # Smaller(n, end - f.fptr)

WriteProtected ==
    /\ pc = "loop" /\ left # 0 /\ r.dir = "write"
    /\ f.mode \in {"readonly", "protected"}
    /\ Ack("trunc") /\ Return
    /\ UNCHANGED <<moved, file>>

WriteChunk ==
    /\ pc = "loop" /\ left # 0 /\ r.dir = "write" /\ f.mode = "rw"
    /\ \E k \in Moves(Size, Room) :
          Advance(Size, k, k,
              [At(f, f.fptr + k) EXCEPT !.err = Fails(Size, k, Room)])
    /\ UNCHANGED goes

\* FF_Read into a buffer, or FF_ReadDirect: the card sends whole sectors to the
\* FPGA, and the rest of a last, incomplete one is counted but not sent.
ReadChunk ==
    /\ pc = "loop" /\ left # 0 /\ r.dir = "read"
    /\ \E k \in Moves(Size, f.size) :
          Advance(Size, k, IF Burstable THEN k - (k % Blk) ELSE k,
              [At(f, f.fptr + k) EXCEPT !.err = Fails(Size, k, f.size)])
    /\ UNCHANGED goes

Truncated ==
    /\ pc = "trunc" /\ Ack("trunc") /\ Return
    /\ UNCHANGED <<moved, file>>

\* Nothing was asked for.
NoData ==
    /\ pc = "loop" /\ left = 0 /\ pc' = "ok"
    /\ UNCHANGED <<core, file, ch, goes, addr, left>>

\* FileIO_FCh_WaitStat: the core is ready for more, or 500 ms pass.
WaitStat ==
    /\ pc = "wait"
    /\ \/ pc' = "loop" /\ UNCHANGED <<core, ch, goes, addr, left>>
       \/ Ack("abort") /\ Return /\ UNCHANGED moved
    /\ UNCHANGED file

Done ==
    /\ pc = "ok" /\ pc' = "more"
    /\ Ack("ok")
    /\ UNCHANGED <<moved, file, ch, goes, addr, left>>

\* Mutant: requests of a channel are served as long as there are any.
MoreUnlimited ==
    /\ pc = "more"
    /\ IF phase[ch] = "req" THEN pc' = "begin" /\ UNCHANGED <<ch, goes, addr, left>>
       ELSE Return
    /\ UNCHANGED <<core, file>>

\* "any more to do?"
More ==
    /\ pc = "more"
    /\ IF phase[ch] = "req" /\ goes # 1
       THEN pc' = "begin" /\ goes' = goes - 1 /\ UNCHANGED <<ch, addr, left>>
       ELSE Return
    /\ UNCHANGED <<core, file>>

Process ==
    \/ Poll \/ Begin \/ NotMounted \/ Seek
    \/ WriteProtected \/ WriteChunk \/ ReadChunk \/ Truncated \/ NoData
    \/ WaitStat \/ Done \/ More

Next ==
    \/ \E c \in Channel : CoreRequest(c)
    \/ \E c \in Channel, d \in Drive : ChangeMedium(c, d)
    \/ Process

Spec == Init /\ [][Next]_vars

\* main_update polls for ever, and every call in it returns.
FairSpec == Spec /\ WF_vars(Process)

-----------------------------------------------------------------------------
(* Properties.                                                              *)

\* The core's view of the channels, as module FileChannel has it.
FC == INSTANCE FileChannel WITH
          Position <- Nat,
          want <- [c \in Channel |-> [addr |-> req[c].addr, size |-> req[c].size]],
          answer <- [c \in Channel |->
              IF answer[c] \in {"none", "ok"} THEN answer[c] ELSE "err"]

\* Which channel is in a transfer: the one that is served, from the request's
\* acknowledge to the transfer's.
Serving == {"eject", "seek", "loop", "trunc", "wait", "ok"}

OneServed ==
    /\ \A c \in Channel :
          /\ phase[c] = "busy" <=> c = ch /\ pc \in Serving
          /\ phase[c] = "req" => moved[c] = << >>
    /\ pc = "begin" => phase[ch] = "req"
    /\ pc # "poll" => goes # 0

\* The count of a transfer: what was moved and what is left make up the
\* request, and the file is where the next unit belongs, or at an end behind
\* which nothing is moved.
Counted ==
    /\ pc \in {"eject", "seek"} => addr = r.addr /\ left = r.size /\ moved[ch] = << >>
    /\ pc \in {"loop", "wait"} =>
          /\ addr = r.addr + Len(moved[ch])
          /\ Len(moved[ch]) + left = r.size
          /\ \/ f.fptr = addr
             \/ /\ f.fptr = f.size /\ f.size < addr
                /\ f.mode = "readonly" \/ f.size = Room
    /\ pc = "ok" => Len(moved[ch]) = r.size

\* What every step of the driver keeps.
Inv == TypeOK /\ OneServed /\ Counted

\* The channel's promise to the core is kept, whatever the alignment, the size
\* of the file, the errors of the card and the state of the drive.
FileChannelSpec == FC!Spec

\* Every request is answered, on both channels: a core that always has another
\* request on one channel does not starve the other.
Answered == \A c \in Channel : phase[c] = "req" ~> phase[c] = "idle"

\* A burst is "not a truncated read": the file holds every sector of it.
BurstNotTruncated ==
    pc = "loop" /\ left # 0 /\ Burstable => f.fptr + Size <= f.size

\* The file of a drive that is read only or protected stays as it is.
ProtectedKept ==
    [][\A c \in Channel, d \in Drive :
          file[c][d].mode \in {"readonly", "protected"} /\ pc # "poll" =>
              file'[c][d].size = file[c][d].size]_vars
=============================================================================
