----------------------------- MODULE MassStorage -----------------------------
(***************************************************************************)
(* The card as a USB drive (Replay_Boot/usb/msc.c over usb/usb_hardware.c):*)
(* a host sends a command (CBW), data goes one way or the other, and the   *)
(* device sends a status (CSW).  The device works on one command at a time *)
(* in usb_poll, called by the main loop, and waits in loops for the host.  *)
(* A length is in half packets: a full packet is 2, a shorter one 1.       *)
(* Endpoint 0 is left out, except that it answers only while usb_poll runs.*)
(***************************************************************************)
EXTENDS SdCard

CONSTANTS
    Commands,       \* what the host sends: [op, lba, n, host, in]
    ResetAny,       \* may the host reset the bus in the middle of a command?
    ClearHalt,      \* may the host clear a stall (by endpoint 0)?
    Stays,          \* does the host go on with what it began?
    Persists        \* does it begin commands after going astray, before a reset?

Op == {"ready", "fixed", "inquiry", "sense", "read", "write", "prevent", "unknown"}
ASSUME HostAssumption ==
    /\ Commands \subseteq [op : Op, lba : Nat, n : Nat, host : Nat, in : BOOLEAN]
    /\ {ResetAny, ClearHalt, Stays, Persists} \subseteq BOOLEAN

VARIABLES
    stage,          \* where the device is; "main" outside of usb_poll
    cbw,            \* s_ProcessState.cbw
    i,              \* blocks done of a read or write
    tosend,         \* usb_send: packets that are not in the FIFO yet
    busy,           \* usb_send waits for TXCOMP
    buf, remaining, \* usb_recv: TwoSectors and read_remaining
    recvbank,       \* the bank of endpoint 2 that usb_poll looks at
    sense,          \* s_REQUEST_SENSEdata.SENSEKEY
    inPipe,         \* endpoint 1: the packet in the FIFO, or none
    txcomp,         \* the host has taken it
    outPipe,        \* endpoint 2: packets in its two banks
    fillbank,       \* the bank the next one goes to
    busReset,       \* ENDBUSRES
    phase,          \* the host: idle, dataIn, dataOut, status, or after a bad CBW
    cmd,            \* its command, and what it writes
    got,            \* packets it got, or put, in the data phase
    told,           \* the status it got last
    disk,           \* history: what it may expect to find on the card
    astray          \* history: the host did what the device does not survive

device == <<stage, cbw, i, tosend, busy, buf, remaining, recvbank, sense>>
bus == <<inPipe, txcomp, outPipe, fillbank, busReset>>
host == <<phase, cmd, got, told, disk, astray>>
mscVars == <<device, bus, host, cardVars>>

Full == 2
Short == 1
BlockLen == Full * BlockPackets
None == [kind |-> "none", len |-> 0, load |-> << >>]
Packet(kind, len, load) == [kind |-> kind, len |-> len, load |-> load]

\* Block b in packets, as the version v of it.
Contents(b, v) == [k \in 1 .. BlockPackets |-> <<"data", b, k, v>>]
NoCommand == [op |-> "ready", lba |-> 0, n |-> 0, host |-> 0, in |-> FALSE, v |-> 0]
Range(c) == c.lba .. c.lba + c.n - 1
Lesser(a, b) == IF a < b THEN a ELSE b

MscInit ==
    /\ stage = "main" /\ cbw = NoCommand /\ i = 0 /\ tosend = << >> /\ busy = FALSE
    /\ buf = << >> /\ remaining = 0 /\ recvbank = 0 /\ sense = "none"
    /\ inPipe = None /\ txcomp = FALSE /\ outPipe = << >> /\ fillbank = 0 /\ busReset = FALSE
    /\ phase = "idle" /\ cmd = NoCommand /\ got = << >> /\ told = "passed"
    /\ disk = [b \in BlockNo |-> Contents(b, 0)] /\ astray = FALSE
    /\ CardInit(disk)

-----------------------------------------------------------------------------
(* usb_poll and usb_recv: packets from the host.                            *)

\* Mutant: the ping-pong is not reset with the bus.
SeeResetOnly ==
    /\ stage \in {"main", "recv"} /\ busReset /\ busReset' = FALSE
    /\ UNCHANGED <<device, inPipe, txcomp, outPipe, fillbank, host, cardVars>>

SeeReset ==
    /\ stage \in {"main", "recv"} /\ busReset /\ busReset' = FALSE
    /\ recvbank' = 0
    /\ UNCHANGED <<stage, cbw, i, tosend, busy, buf, remaining, sense>>
    /\ UNCHANGED <<inPipe, txcomp, outPipe, fillbank, host, cardVars>>

\* The next packet is in the bank that is expected.
first == outPipe[1]
Received ==
    /\ outPipe # << >> /\ first.bank = recvbank
    /\ outPipe' = Tail(outPipe) /\ recvbank' = 1 - recvbank
    /\ UNCHANGED <<inPipe, txcomp, fillbank, busReset, host, cardVars>>

\* msc_packet_recv: a CBW, or both endpoints are stalled.
PollPacket ==
    /\ stage = "main" /\ ~busReset /\ Received
    /\ IF first.kind = "cbw" THEN stage' = "command" /\ cbw' = first.load /\ i' = 0
       ELSE stage' = "stallIn" /\ UNCHANGED <<cbw, i>>
    /\ UNCHANGED <<tosend, busy, buf, remaining, sense>>

\* usb_recv_cb: whatever comes is data.
Recv ==
    /\ stage = "recv" /\ Received
    /\ buf' = Append(buf, first.load)
    /\ remaining' = remaining - Lesser(first.len, remaining)
    /\ stage' = IF remaining' = 0 THEN "store" ELSE "recv"
    /\ UNCHANGED <<cbw, i, tosend, busy, sense>>

-----------------------------------------------------------------------------
(* usb_send.                                                                *)

Send(packets, next) == tosend' = packets /\ stage' = next

Put ==
    /\ stage \in {"send", "csw"} /\ tosend # << >> /\ ~busy
    /\ inPipe' = tosend[1] /\ tosend' = Tail(tosend) /\ busy' = TRUE
    /\ UNCHANGED <<stage, cbw, i, buf, remaining, recvbank, sense>>
    /\ UNCHANGED <<txcomp, outPipe, fillbank, busReset, host, cardVars>>

Sent ==
    /\ busy /\ txcomp /\ busy' = FALSE /\ txcomp' = FALSE
    /\ UNCHANGED <<stage, cbw, i, tosend, buf, remaining, recvbank, sense>>
    /\ UNCHANGED <<inPipe, outPipe, fillbank, busReset, host, cardVars>>

AllSent == tosend = << >> /\ ~busy

-----------------------------------------------------------------------------
(* process_command, process_transfer_mode and process_status.               *)

DeviceLength(c) ==
    CASE c.op = "fixed" -> Short
      [] c.op \in {"inquiry", "sense"} -> c.n
      [] c.op \in {"read", "write"} -> c.n * BlockLen
      [] OTHER -> 0

HostWants(c) == IF c.host = 0 THEN "none" ELSE IF c.in THEN "in" ELSE "out"
DeviceWants(c) ==
    CASE c.op \in {"fixed", "inquiry", "sense", "read"} -> "in"
      [] c.op = "write" -> "out"
      [] OTHER -> "none"

\* The status for the result of a command, by what host and device want (the 13 cases).
Status(c, result) ==
    LET h == HostWants(c)
        d == DeviceWants(c)
    IN IF c.op = "unknown" THEN "failed"
       ELSE IF d = "none" \/ (h = d /\ c.host >= DeviceLength(c)) THEN result
       ELSE "phase"

Residue(c) ==
    LET h == HostWants(c)
        d == DeviceWants(c)
    IN IF d = "none" THEN c.host
       ELSE IF h # d THEN 0
       ELSE IF c.host < DeviceLength(c) THEN c.host
       ELSE c.host - DeviceLength(c)

\* Mutant: every packet is filled.
AnswerWhole(c) ==
    [k \in 1 .. (DeviceLength(c) + 1) \div Full |-> Packet("data", Full, <<c.op, sense>>)]

\* An answer that is not a whole number of packets ends with a short one.
Answer(c) ==
    LET load == IF c.op = "sense" THEN <<"sense", sense>> ELSE <<c.op>>
    IN [k \in 1 .. (DeviceLength(c) + 1) \div Full |->
           Packet("data", IF k * Full <= DeviceLength(c) THEN Full ELSE Short, load)]

Command ==
    /\ stage = "command"
    /\ \/ /\ cbw.op \in {"fixed", "inquiry", "sense"} /\ Send(Answer(cbw), "send")
          /\ UNCHANGED sense
       \/ /\ cbw.op \in {"read", "write"} /\ stage' = cbw.op
          /\ UNCHANGED <<tosend, sense>>
       \/ /\ cbw.op \in {"ready", "prevent", "unknown"} /\ stage' = "status"
          /\ sense' = IF cbw.op = "ready" THEN sense ELSE "illegal"
          /\ UNCHANGED tosend
    /\ UNCHANGED <<cbw, i, busy, buf, remaining, recvbank, bus, host, cardVars>>

\* READ(10): block after block, and whether the card could be read is not asked.
Read ==
    /\ stage = "read"
    /\ IF i < cbw.n
       THEN \E data \in {block[cbw.lba + i], Unknown} :
               /\ CardRead(cbw.lba + i, data)
               /\ Send([k \in 1 .. BlockPackets |-> Packet("data", Full, data[k])], "send")
               /\ i' = i + 1
       ELSE stage' = "status" /\ UNCHANGED <<i, tosend, cardVars>>
    /\ UNCHANGED <<cbw, busy, buf, remaining, recvbank, sense, bus, host>>

SendDone ==
    /\ stage = "send" /\ AllSent
    /\ stage' = IF cbw.op = "read" THEN "read" ELSE "status"
    /\ UNCHANGED <<cbw, i, tosend, busy, buf, remaining, recvbank, sense, bus, host, cardVars>>

\* The blocks of a WRITE(10) that are received at a time.
Pair == Lesser(2, cbw.n - i)

Write ==
    /\ stage = "write"
    /\ IF i < cbw.n THEN stage' = "recv" /\ buf' = << >> /\ remaining' = Pair * BlockLen
       ELSE stage' = "status" /\ UNCHANGED <<buf, remaining>>
    /\ UNCHANGED <<cbw, i, tosend, busy, recvbank, sense, bus, host, cardVars>>

\* Mutant: every pair goes where the first went.
StoreFirst ==
    /\ stage = "store"
    /\ CardWrite(cbw.lba, [j \in 1 .. Pair |->
                    SubSeq(buf, (j - 1) * BlockPackets + 1, j * BlockPackets)])
    /\ i' = i + Pair /\ stage' = "write"
    /\ UNCHANGED <<cbw, tosend, busy, buf, remaining, recvbank, sense, bus, host>>

Store ==
    /\ stage = "store"
    /\ CardWrite(cbw.lba + i, [j \in 1 .. Pair |->
                    SubSeq(buf, (j - 1) * BlockPackets + 1, j * BlockPackets)])
    /\ i' = i + Pair /\ stage' = "write"
    /\ UNCHANGED <<cbw, tosend, busy, buf, remaining, recvbank, sense, bus, host>>

\* process_status: sense data is kept only by a command that failed.
ProcessStatus ==
    /\ stage = "status"
    /\ LET s == Status(cbw, IF cbw.op = "prevent" THEN "failed" ELSE "passed")
       IN /\ Send(<<Packet("csw", Short, [status |-> s, residue |-> Residue(cbw)])>>, "csw")
          /\ sense' = IF s # "failed" THEN "none"
                      ELSE IF sense = "none" THEN "recovered" ELSE sense
    /\ UNCHANGED <<cbw, i, busy, buf, remaining, recvbank, bus, host, cardVars>>

StatusDone ==
    /\ stage = "csw" /\ AllSent /\ stage' = "main"
    /\ UNCHANGED <<cbw, i, tosend, busy, buf, remaining, recvbank, sense, bus, host, cardVars>>

Device ==
    \/ SeeReset \/ PollPacket \/ Recv \/ Put \/ Sent \/ Command \/ Read \/ SendDone
    \/ Write \/ Store \/ ProcessStatus \/ StatusDone

-----------------------------------------------------------------------------
(* The host.                                                                *)

ToDevice(kind, len, load) ==
    /\ Len(outPipe) < 2 /\ ~busReset
    /\ outPipe' = Append(outPipe, [kind |-> kind, len |-> len, load |-> load, bank |-> fillbank])
    /\ fillbank' = 1 - fillbank
    /\ UNCHANGED <<inPipe, txcomp, busReset, device, cardVars>>

\* The k-th packet of the blocks from lba on, and of the data of a write.
PacketOf(blocks, lba, k) ==
    blocks[lba + (k - 1) \div BlockPackets][((k - 1) % BlockPackets) + 1]
Written(c, k) == PacketOf([b \in BlockNo |-> Contents(b, c.v)], c.lba, k)

\* Host and device agree on what a command moves, and in which direction; or
\* the host takes more than there is, and a short packet tells it the end.
Agrees(c) ==
    /\ HostWants(c) = DeviceWants(c)
    /\ \/ c.host = DeviceLength(c)
       \/ c.in /\ c.host > DeviceLength(c) /\ DeviceLength(c) % Full # 0

\* The host begins something.
Begins == phase = "idle" /\ (astray => Persists)

HostCommand ==
    /\ Begins
    /\ \E c \in Commands, v \in {0, 1} :
          /\ c.op # "write" => v = 0
          /\ cmd' = [op |-> c.op, lba |-> c.lba, n |-> c.n, host |-> c.host, in |-> c.in,
                     v |-> v]
          /\ ToDevice("cbw", Short, cmd')
          /\ phase' = IF c.host = 0 THEN "status" ELSE IF c.in THEN "dataIn" ELSE "dataOut"
    /\ got' = << >> /\ astray' = (astray \/ ~Agrees(cmd'))
    /\ UNCHANGED <<told, disk>>

HostPut ==
    /\ phase = "dataOut"
    /\ ToDevice("data", Full, Written(cmd, Len(got) + 1))
    /\ got' = Append(got, Packet("data", Full, Written(cmd, Len(got) + 1)))
    /\ phase' = IF Full * Len(got') >= cmd.host THEN "status" ELSE "dataOut"
    /\ UNCHANGED <<cmd, told, disk, astray>>

TakeIn ==
    /\ inPipe # None /\ inPipe' = None /\ txcomp' = TRUE
    /\ UNCHANGED <<outPipe, fillbank, busReset, device>>

\* A short packet ends the data, as the full length does.
HostTake ==
    /\ phase = "dataIn" /\ TakeIn
    /\ got' = Append(got, inPipe)
    /\ phase' = IF inPipe.len = Short \/ Full * Len(got') >= cmd.host THEN "status" ELSE "dataIn"
    /\ UNCHANGED <<cmd, told, disk, astray, cardVars>>

\* The card as a host knows it after a command.
HostKnows(c) ==
    IF failed THEN block
    ELSE [b \in BlockNo |-> IF c.op = "write" /\ b \in Range(c) THEN Contents(b, c.v) ELSE disk[b]]

HostStatus ==
    /\ phase = "status" /\ TakeIn
    /\ phase' = "idle"
    /\ told' = IF inPipe.kind = "csw" THEN inPipe.load.status ELSE "garbled"
    /\ disk' = HostKnows(cmd) /\ failed' = FALSE
    /\ UNCHANGED <<cmd, got, astray, block, writeStateActive, recent>>

\* A CBW that is none, and what the host meets afterwards: two stalls.
HostBad ==
    /\ Begins /\ ToDevice("junk", Short, << >>)
    /\ phase' = "badIn" /\ UNCHANGED <<cmd, got, told, disk, astray>>

\* usb_send_stall(1) ends.  A host that clears the halt now waits for endpoint 0.
HostStallIn ==
    /\ phase = "badIn" /\ stage = "stallIn" /\ stage' = "stallOut"
    /\ \/ phase' = "badOut" /\ UNCHANGED astray
       \/ ClearHalt /\ phase' = "clear" /\ astray' = TRUE
    /\ UNCHANGED <<cbw, i, tosend, busy, buf, remaining, recvbank, sense>>
    /\ UNCHANGED <<bus, cmd, got, told, disk, cardVars>>

\* usb_send_stall(2) ends.
HostStallOut ==
    /\ phase = "badOut" /\ stage = "stallOut" /\ stage' = "main" /\ phase' = "idle"
    /\ UNCHANGED <<cbw, i, tosend, busy, buf, remaining, recvbank, sense>>
    /\ UNCHANGED <<bus, cmd, got, told, disk, astray, cardVars>>

\* The host resets the bus, or the user takes the card back and gives it away
\* again (MSC_Stop, MSC_Start): the pipes are emptied.  Between commands that
\* brings host and device together again, whatever went before.
Reset ==
    /\ stage = "main" \/ ResetAny
    /\ ~busReset /\ busReset' = TRUE
    /\ inPipe' = None /\ txcomp' = FALSE /\ outPipe' = << >> /\ fillbank' = 0
    /\ phase' = "idle" /\ disk' = block /\ failed' = FALSE
    /\ astray' = (stage # "main") /\ told' = IF astray THEN "passed" ELSE told
    /\ UNCHANGED <<device, cmd, got, block, writeStateActive, recent>>

HostGoes ==
    Stays /\ (HostPut \/ HostTake \/ HostStatus \/ HostStallIn \/ HostStallOut)

Host ==
    \/ HostCommand \/ HostPut \/ HostTake \/ HostStatus
    \/ HostBad \/ HostStallIn \/ HostStallOut \/ Reset

MscNext == Device \/ Host

MscSpec == MscInit /\ [][MscNext]_mscVars

\* The main loop calls usb_poll and what it calls runs on; a host goes on with
\* the command it began.
MscFairSpec == MscSpec /\ WF_mscVars(Device) /\ WF_mscVars(HostGoes)

-----------------------------------------------------------------------------
(* Properties.                                                              *)

MscTypeOK ==
    /\ stage \in {"main", "command", "read", "send", "recv", "write", "store", "status", "csw",
               "stallIn", "stallOut"}
    /\ cbw.op \in Op /\ i \in 0 .. cbw.n /\ remaining \in Nat
    /\ busy \in BOOLEAN /\ txcomp \in BOOLEAN /\ busReset \in BOOLEAN
    /\ recvbank \in {0, 1} /\ fillbank \in {0, 1}
    /\ sense \in {"none", "illegal", "recovered"}
    /\ told \in {"passed", "failed", "phase", "garbled"}

\* Host and device agree where they are: no status is taken for data, no data for a
\* status or a command.
InStep ==
    /\ inPipe.kind = "data" => phase = "dataIn"
    /\ inPipe.kind = "csw" => phase = "status"
    /\ stage = "stallIn" => phase = "badIn"
    /\ stage = "recv" => \A k \in DOMAIN outPipe : outPipe[k].kind = "data"
    /\ stage = "main" => \A k \in DOMAIN outPipe : k = 1 => outPipe[k].kind # "data"

\* The protocol, until the host goes astray and again after its next reset, and the
\* pause between writing and reading that the card needs, always.
MscInv == MscTypeOK /\ FillBetween /\ (astray \/ InStep)

Moved == IF got = << >> THEN 0 ELSE Full * (Len(got) - 1) + got[Len(got)].len

\* A host that only watches the status gets what is on the card where it reads,
\* and finds what it wrote where it wrote it and nowhere else, unless the card
\* failed; the residue is what was not moved; and the sense data that it asks
\* for after a failure tells the failure.
DataFine ==
    /\ \A b \in BlockNo :
          block[b] = disk[b] \/ (phase # "idle" /\ cmd.op = "write" /\ b \in Range(cmd))
    /\ inPipe.kind = "csw" /\ phase = "status" =>
          /\ inPipe.load.status = IF cmd.op \in {"prevent", "unknown"} THEN "failed" ELSE "passed"
          /\ inPipe.load.residue = cmd.host - Moved
          /\ cmd.op = "read" /\ ~failed =>
                got = [k \in 1 .. cmd.n * BlockPackets |->
                          Packet("data", Full, PacketOf(disk, cmd.lba, k))]
          /\ cmd.op = "write" /\ ~failed => block = HostKnows(cmd)
          /\ cmd.op = "sense" /\ told = "failed" => got[1].load[2] # "none"

DataRight == astray \/ DataFine

\* Every command gets its status, and the main loop its turn, unless the host
\* goes astray.
CommandEnds ==
    /\ phase # "idle" ~> phase = "idle" \/ astray
    /\ stage # "main" ~> stage = "main" \/ astray

\* What a host would need: a card that failed is not reported as good.
FailureTold ==
    ~astray /\ inPipe.kind = "csw" /\ phase = "status" /\ failed => inPipe.load.status # "passed"
=============================================================================
