--------------------------- MODULE MCMassStorage ---------------------------
(* MassStorage for TLC.  A block is 2 packets instead of 8; 3 blocks are a   *)
(* pair and one more, the two ways a WRITE(10) receives blocks.              *)
EXTENDS MassStorage

C(op, lba, n, h, in) == [op |-> op, lba |-> lba, n |-> n, host |-> h, in |-> in]

Plain ==
    {C("ready", 0, 0, 0, FALSE), C("prevent", 0, 0, 0, FALSE), C("unknown", 0, 0, 0, FALSE),
     C("fixed", 0, 0, 1, TRUE), C("fixed", 0, 0, 4, TRUE),
     C("sense", 0, 1, 1, TRUE), C("inquiry", 0, 3, 3, TRUE)}
ReadWrite(lba, n) ==
    {C("read", lba, n, n * BlockLen, TRUE), C("write", lba, n, n * BlockLen, FALSE)}

\* Commands of hosts that agree with the device.
SomeCommands == Plain \cup ReadWrite(0, 3) \cup ReadWrite(1, 1)

\* A host that wants data from a command that the device does not know.
UnknownIn == {C("unknown", 0, 0, 4, TRUE)}
\* One that wants less than its command says.
LessThanRead == {C("read", 0, 1, Full, TRUE)}
\* One that waits for data, as the device does.
BothWait == {C("write", 0, 1, BlockLen, TRUE)}

\* All of these; the read of one block is left to the read of three.
AnyCommands ==
    (SomeCommands \ {C("read", 1, 1, BlockLen, TRUE)})
        \cup UnknownIn \cup LessThanRead \cup BothWait

\* CommandEnds for any host, which is more than the code keeps (README.md, section 6):
\* usb_send and usb_recv wait for a host that went astray.
AlwaysEnds == (phase # "idle" ~> phase = "idle") /\ (stage # "main" ~> stage = "main")

\* A command is never taken for the data of a write: broken by a reset in the middle of
\* one (README.md, section 6).
NoCommandStored == stage = "recv" => \A k \in DOMAIN outPipe : outPipe[k].kind # "cbw"
=============================================================================
