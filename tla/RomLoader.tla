----------------------------- MODULE RomLoader -----------------------------
(***************************************************************************)
(* Uploads to the memory of the core and downloads from it                 *)
(* (Replay_Boot/config.c): CFG_upload_rom with its four formats, the data  *)
(* line of an ini file, and CFG_download_rom.  A job is one call.  The     *)
(* memory before it is Old; before a download its bytes are numbered.      *)
(***************************************************************************)
EXTENDS MemoryChannel, FiniteSets

CONSTANT Jobs       \* the calls: [format, base, size, len, verify, spec], where
                    \* len is the length of the file

ASSUME JobsAssumption ==
    \A j \in Jobs : /\ j.format \in {"plain", "prg", "crt", "swizzle", "data", "download"}
                    /\ {j.base, j.size, j.len} \subseteq Nat /\ j.verify \in BOOLEAN

VARIABLES
    job, done,      \* the call, and its offset, consumed or number of blocks
    result,         \* what it returns
    opened          \* files open

call == <<job, done, result, opened>>
uploadVars == <<fpga, stage, xfer, late, call>>

NoJob == [format |-> "none", base |-> 0, size |-> 0, len |-> 0, verify |-> FALSE, spec |-> << >>]

UploadInit ==
    /\ mem = [a \in 0 .. MemSize - 1 |-> Old] /\ fifo = << >> /\ adr = 0 /\ writes = TRUE
    /\ stage = "idle" /\ at = 0 /\ left = 0 /\ buf = << >> /\ rc = 0 /\ out = << >> /\ late = FALSE
    /\ err = FALSE
    /\ job = NoJob /\ done = 0 /\ result = 0 /\ opened = 0

-----------------------------------------------------------------------------
\* What is behind the load address of a PRG file.
Body(j) == IF j.len > 2 THEN j.len - 2 ELSE 0

\* A size of 0 is that of the file.
AutoSize(j) ==
    IF j.size # 0 THEN j.size
    ELSE IF j.format = "plain" THEN j.len ELSE IF j.format = "prg" THEN Body(j) ELSE 0

\* The call begins; the file is opened, or cannot be.
Begin(j) ==
    /\ stage = "idle"
    /\ job' = [j EXCEPT !.size = AutoSize(j)] /\ done' = 0 /\ result' = 1
    /\ mem' = [a \in DOMAIN mem |-> IF j.format = "download" THEN a + 1 ELSE Old]
    /\ \/ stage' = j.format /\ opened' = (IF j.format = "data" THEN 0 ELSE 1) /\ UNCHANGED err
       \/ CardFails /\ j.format # "data" /\ stage' = "return" /\ opened' = 0 /\ err' = TRUE
    /\ UNCHANGED <<fifo, adr, writes, at, left, buf, rc, out, late>>

\* The file is closed; what FF_Close returns is not looked at.
Return(r) == stage' = "return" /\ result' = r /\ opened' = 0 /\ UNCHANGED <<job, done>>

\* The caller goes on; what this call did no longer matters.
End ==
    /\ stage = "return" /\ stage' = "idle"
    /\ mem' = [a \in DOMAIN mem |-> Old] /\ fifo' = << >> /\ adr' = 0 /\ writes' = TRUE
    /\ at' = 0 /\ err' = FALSE /\ left' = 0 /\ buf' = << >> /\ rc' = 0 /\ out' = << >>
    /\ late' = FALSE /\ job' = NoJob /\ done' = 0 /\ result' = 0 /\ UNCHANGED opened

\* What was to be read of the file is not there.
ReadFails == CardFails /\ err' = TRUE /\ Return(1) /\ UNCHANGED <<fpga, at, left, buf, rc, out, late>>

-----------------------------------------------------------------------------
(* Plain binaries and PRG files.                                            *)

\* A smaller file is repeated over a larger region.
Piece == Less(job.size, job.len)

UploadPiece ==
    /\ stage = "plain"
    /\ IF done < job.size THEN FileToMem(job.base + done, Piece, 0, job.len) /\ UNCHANGED call
       ELSE Return(result) /\ UNCHANGED <<fpga, xfer, late>>

\* spec is the load address, which is read first.
UploadPrg ==
    /\ stage = "prg"
    /\ \/ job.len = 0 /\ Return(1) /\ UNCHANGED <<fpga, xfer, late>>
       \/ job.len # 0 /\ FileToMem(job.base + job.spec, job.size, 2, job.len) /\ UNCHANGED call
       \/ job.len # 0 /\ ReadFails

\* FileToMem has returned; its result is not looked at.
Uploaded ==
    /\ stage = "sent" /\ UNCHANGED call
    /\ IF job.format = "crt"
       THEN stage' = "crt" /\ UNCHANGED <<fpga, xfer, late>>
       ELSE IF ~job.verify
       THEN stage' = "checked" /\ rc' = 0 /\ UNCHANGED <<fpga, file, left, buf, out, late>>
       ELSE IF job.format = "plain"
       THEN FileToMemVerify(job.base + done, Piece, 0, job.len)
       ELSE FileToMemVerify(job.base + job.spec, job.size, 2, job.len)

\* Mutant: the offset stays, so that the first piece is sent again.
CheckedAgain ==
    /\ stage = "checked" /\ result' = rc
    /\ IF rc = 0 /\ job.format = "plain"
       THEN stage' = "plain" /\ UNCHANGED <<job, done, opened>>
       ELSE stage' = "return" /\ opened' = 0 /\ UNCHANGED <<job, done>>
    /\ UNCHANGED <<fpga, xfer, late>>

Checked ==
    /\ stage = "checked" /\ result' = rc
    /\ IF rc = 0 /\ job.format = "plain"
       THEN stage' = "plain" /\ done' = done + Piece /\ UNCHANGED <<job, opened>>
       ELSE stage' = "return" /\ opened' = 0 /\ UNCHANGED <<job, done>>
    /\ UNCHANGED <<fpga, xfer, late>>

-----------------------------------------------------------------------------
(* CRT files.  spec is the sequence of blocks, [good, start, size, from];   *)
(* the result stays 1, whatever the blocks are.  The headers of the file    *)
(* and of each block are read first.                                        *)

UploadBlock ==
    /\ stage = "crt"
    /\ \/ IF err \/ done = Len(job.spec) \/ ~job.spec[done + 1].good
          THEN Return(1) /\ UNCHANGED <<fpga, xfer, late>>
          ELSE LET b == job.spec[done + 1]
               IN /\ FileToMem(job.base + b.start, b.size, b.from, job.len)
                  /\ done' = done + 1 /\ UNCHANGED <<job, result, opened>>
       \/ ReadFails

-----------------------------------------------------------------------------
(* Swizzled files.  spec is a sequence of tokens: a to h, the bytes taken   *)
(* from the file, are 1 to 8, `_' is 0, `0' is -1 and `1' is -2.            *)

Taken(spec) == Cardinality({i \in 1 .. Len(spec) : spec[i] > 0})

Consume == Taken(job.spec)

BadSpec ==
    \/ Len(job.spec) % 2 # 0 \/ Len(job.spec) > 8 \/ job.len % Consume # 0
    \/ done < job.len /\ \E i \in 1 .. Len(job.spec) : job.spec[i] > Consume

SwizzleEnd ==
    /\ stage = "swizzle"
    /\ BadSpec \/ done >= job.len
    /\ Return(IF BadSpec THEN 1 ELSE 0)
    /\ UNCHANGED <<fpga, xfer, late>>

\* "File read error"
SwizzleUnread == stage = "swizzle" /\ ~BadSpec /\ done < job.len /\ ReadFails

\* Mutant: the address advances by what was taken from the file.
SwizzlePacked ==
    LET n == Len(job.spec)
        base == job.base + done
    IN /\ stage = "swizzle" /\ ~BadSpec /\ done < job.len /\ stage' = "swait"
       /\ \E old \in MemToBuf(base, n) :
             LET piece == [i \in 1 .. n |->
                     IF job.spec[i] > 0 THEN done + job.spec[i]
                     ELSE IF job.spec[i] = 0 THEN old[i] ELSE job.spec[i]]
             IN /\ BufToMem(piece, base)
                /\ late' = (late \/ fifo' # piece \/ \E i \in 1 .. n : old[i] = Garbage)
       /\ UNCHANGED <<xfer, call>>

\* Memory is read, modified and written; without a `_' reading it changes
\* nothing.  No result is looked at.
SwizzlePiece ==
    LET n == Len(job.spec)
        base == job.base + (done \div Consume) * n
    IN /\ stage = "swizzle" /\ ~BadSpec /\ done < job.len /\ stage' = "swait"
       /\ \E old \in MemToBuf(base, n) :
             LET piece == [i \in 1 .. n |->
                     IF job.spec[i] > 0 THEN done + job.spec[i]
                     ELSE IF job.spec[i] = 0 THEN old[i] ELSE job.spec[i]]
             IN /\ BufToMem(piece, base)
                /\ late' = (late \/ fifo' # piece \/ \E i \in 1 .. n : old[i] = Garbage)
       /\ UNCHANGED <<xfer, call>>

SwizzleWait ==
    /\ stage = "swait" /\ stage' = "swizzle"
    /\ InTime \/ TimesOut
    /\ done' = done + Consume /\ UNCHANGED <<fpga, xfer, job, result, opened>>

-----------------------------------------------------------------------------
(* The data line: sent and read back, or sent twice.                        *)

DataBytes == Bytes(0, job.size)

SendData ==
    /\ stage = "data" /\ stage' = "dwait"
    /\ BufToMem(DataBytes, job.base) /\ late' = (late \/ fifo' # DataBytes)
    /\ UNCHANGED <<xfer, call>>

DataWait ==
    /\ stage = "dwait" /\ UNCHANGED <<fpga, xfer>>
    /\ \/ InTime /\ done = 1 /\ Return(0)
       \/ /\ InTime /\ done = 0
          /\ IF job.verify THEN stage' = "dcheck" /\ UNCHANGED call
             ELSE stage' = "data" /\ done' = 1 /\ UNCHANGED <<job, result, opened>>
       \/ TimesOut /\ Return(1)

\* If MemToBuf fails, its result is not looked at and anything is compared.
DataCheck ==
    /\ stage = "dcheck" /\ UNCHANGED <<fpga, xfer>>
    /\ \/ InTime /\ Return(IF MemToBuf(job.base, job.size) \cap {DataBytes} = {} THEN 1 ELSE 0)
       \/ TimesOut /\ \E r \in {0, 1} : Return(r)

-----------------------------------------------------------------------------
(* Downloads.                                                               *)

\* Without a size there is nothing to store, and the file stays open.
Download ==
    /\ stage = "download"
    /\ IF job.size # 0 THEN MemToFile(job.base, job.size) /\ UNCHANGED <<mem, call>>
       ELSE /\ stage' = "return" /\ result' = 1
            /\ UNCHANGED <<fpga, xfer, late, job, done, opened>>

\* The size of the file is written when it is closed; if that fails, it is empty.
Stored ==
    /\ stage = "stored" /\ Return(rc) /\ UNCHANGED <<fpga, at, left, buf, rc, late>>
    /\ UNCHANGED <<err, out>> \/ (CardFails /\ err' = TRUE /\ out' = << >>)

-----------------------------------------------------------------------------
\* The firmware's next step in a call.
Firmware ==
    \/ End \/ UploadPiece \/ UploadPrg \/ Uploaded \/ Checked \/ UploadBlock
    \/ SwizzleEnd \/ SwizzleUnread \/ SwizzlePiece \/ SwizzleWait \/ SendData \/ DataWait \/ DataCheck
    \/ Download \/ Stored
    \/ /\ \/ ReadFile("read", "send", "finish", job.len)
          \/ ReadFile("vread", "compare", "checked", job.len)
          \/ SendChunk \/ ChunkLost \/ BufferSent \/ SendStops \/ FinishFile
          \/ CompareChunk \/ FetchChunk \/ StoreBuffer
       /\ UNCHANGED call

UploadStep == Firmware \/ (Drain /\ UNCHANGED call)

\* The firmware is alone in the call, and the FPGA goes on or the time.
UploadFairness == WF_uploadVars(Firmware) /\ WF_uploadVars(Drain /\ UNCHANGED call)

-----------------------------------------------------------------------------
(* Properties.                                                              *)

\* What the code takes for granted of a call: the memory it names is there, and a
\* plain file that is smaller than its region fits into it several times.  Nothing
\* of this is looked at.
JobFits(j) ==
    LET size == AutoSize(j)
    IN /\ j \in [format : {j.format}, base : Nat, size : Nat, len : Nat,
                 verify : BOOLEAN, spec : {j.spec}]
       /\ j.format = "plain" =>
             /\ j.base + size <= MemSize
             /\ size # 0 => j.len # 0 /\ (size <= j.len \/ size % j.len = 0)
       /\ j.format = "prg" =>
             j.spec \in Nat /\ j.base + j.spec + Less(size, Body(j)) <= MemSize
       /\ j.format = "crt" =>
             /\ j.spec \in Seq([good : BOOLEAN, start : Nat, size : Nat, from : Nat])
             /\ \A k \in 1 .. Len(j.spec) :
                   j.base + j.spec[k].start + j.spec[k].size <= MemSize
       /\ j.format = "swizzle" =>
             /\ j.spec \in Seq(Int) /\ Len(j.spec) <= MemBuf /\ Taken(j.spec) > 0
             /\ j.base + (j.len \div Taken(j.spec)) * Len(j.spec) <= MemSize
       /\ j.format = "data" => size <= MemBuf /\ j.base + size <= MemSize
       /\ j.format = "download" => size # 0 /\ j.base + size <= MemSize

JobsFit == \A j \in Jobs : JobFits(j)

\* The bytes a call is to write, and what with.
ExpectedOf(j) ==
    LET Block(a) == CHOOSE b \in {j.spec[k] : k \in 1 .. Len(j.spec)} :
                        a \in j.base + b.start .. j.base + b.start + b.size - 1
        n == Len(j.spec)
        m == Taken(j.spec)
    IN CASE j.format = "plain" ->
              [a \in j.base .. j.base + j.size - 1 |-> ((a - j.base) % j.len) + 1]
         [] j.format = "prg" ->
              [a \in j.base + j.spec .. j.base + j.spec + Less(j.size, Body(j)) - 1 |->
                  a - j.base - j.spec + 3]
         [] j.format = "crt" ->
              [a \in UNION {j.base + b.start .. j.base + b.start + b.size - 1 :
                               b \in {j.spec[k] : k \in 1 .. n}} |->
                  a - j.base - Block(a).start + Block(a).from + 1]
         [] j.format = "swizzle" ->
              [a \in j.base .. j.base + (j.len \div m) * n - 1 |->
                  LET t == j.spec[((a - j.base) % n) + 1]
                  IN IF t > 0 THEN ((a - j.base) \div n) * m + t ELSE t]
         [] j.format = "data" ->
              [a \in j.base .. j.base + j.size - 1 |-> a - j.base + 1]
         [] OTHER -> << >>

Expected == ExpectedOf(job)

UploadTypeOK ==
    /\ fifo \in Seq(Int) /\ Len(fifo) <= MemBuf /\ adr \in 0 .. MemSize
    /\ at \in 0 .. job.len /\ left \in Nat /\ Len(buf) <= FileBuf
    /\ rc \in 0 .. 2 /\ result \in 0 .. 1 /\ late \in BOOLEAN /\ err \in BOOLEAN

\* An upload writes nowhere but where it is to write, also when it is interrupted
\* by a timeout or the card fails, and no call leaves a file open.
UploadKeepsOff ==
    /\ job.format # "download" => \A a \in DOMAIN mem \ DOMAIN Expected : mem[a] = Old
    /\ stage \in {"idle", "return"} => opened = 0

\* A call that returns without an error has done all of its job, unless the card
\* failed: FileToMem's result is not looked at, and FileToMemVerify takes a file that
\* cannot be read for one that ends.  Only for a swizzled file such a failure is told.
\* For a verified upload of a plain binary or a PRG file that holds whatever waits
\* timed out; for the others while the FPGA is in time and the card has room.
UploadRight ==
    stage = "return" /\ result = 0 =>
        /\ err => job.format \notin {"swizzle", "data"}
        /\ ~err /\ (~late \/ (job.verify /\ job.format \in {"plain", "prg"})) =>
              /\ \A a \in DOMAIN Expected : mem[a] = Expected[a]
              /\ job.format = "download" /\ job.size <= CardRoom =>
                    out = [i \in 1 .. job.size |-> job.base + i]

\* Wherever the card fails in an upload, or the file ends, no byte in the memory is
\* a wrong one: it is that of the file, or the memory was not written there.
UploadNoneWrong ==
    job.format \in {"plain", "prg"} /\ ~late =>
        \A a \in DOMAIN Expected : mem[a] \in {Old, Expected[a]}

\* What holds of every call, of whatever format and however FPGA and card answer.
UploadInv == UploadTypeOK /\ UploadKeepsOff /\ UploadRight /\ UploadNoneWrong

\* "MCh:File written", "ROM upload to FPGA failed": an error is told whenever a
\* call did not do all of its job.
ErrorTold ==
    stage = "return" /\ result = 0 =>
        /\ \A a \in DOMAIN Expected : mem[a] = Expected[a]
        /\ job.format = "download" => out = [i \in 1 .. job.size |-> job.base + i]

\* A CRT file whose blocks are good is loaded without an error.
CrtLoads ==
    stage = "return" /\ job.format = "crt" /\ result # 0 =>
        \E k \in 1 .. Len(job.spec) : ~job.spec[k].good

\* Every call returns: a core that is slow or dead does not hang the firmware.
UploadEnds == stage # "idle" ~> stage = "idle"
=============================================================================
