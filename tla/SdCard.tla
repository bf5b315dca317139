------------------------------- MODULE SdCard -------------------------------
(***************************************************************************)
(* The SD card behind its driver (Replay_Boot/card.c).  Every step of a    *)
(* transfer may time out or be refused by the card: the driver then gives  *)
(* up at once, without a retry, and returns an error.  Whenever writing    *)
(* turns to reading, or back, it reads block 0 for nothing, because some   *)
(* cards hang when what was just written is read back at once.             *)
(***************************************************************************)
EXTENDS Naturals, Sequences

CONSTANTS
    Blocks,         \* blocks of the card, 0 .. Blocks - 1
    BlockPackets,   \* what a block is made of: the USB packets that carry it
    CardFails       \* may the card fail?

ASSUME CardAssumption ==
    Blocks \in Nat \ {0} /\ BlockPackets \in Nat \ {0} /\ CardFails \in BOOLEAN

VARIABLES
    block,              \* the contents of the card
    writeStateActive,
    recent,             \* history: the last two accesses of the card
    failed              \* history: a transfer failed since it was cleared

cardVars == <<block, writeStateActive, recent, failed>>

BlockNo == 0 .. Blocks - 1
Unknown == [k \in 1 .. BlockPackets |-> <<"unknown">>]

CardInit(contents) ==
    /\ block = contents
    /\ writeStateActive = FALSE
    /\ recent = <<"none", "none">> /\ failed = FALSE

Accessed(access, fill) ==
    recent' = IF fill THEN <<"fill", access>> ELSE <<recent[2], access>>

\* Bound: one failure for every command of the user of the card.
MayFail == CardFails /\ ~failed

\* Card_ReadM of one block, and what is in the buffer afterwards.
CardRead(b, data) ==
    /\ Accessed("read", writeStateActive) /\ writeStateActive' = FALSE
    /\ \/ data = block[b] /\ UNCHANGED failed
       \/ MayFail /\ data = Unknown /\ failed' = TRUE
    /\ UNCHANGED block

\* Blocks b, b + 1, ... become data[1], data[2], ...
Stored(b, data) ==
    [x \in BlockNo |-> IF x - b + 1 \in DOMAIN data THEN data[x - b + 1] ELSE block[x]]

\* Mutant: the state is never noted.
CardWriteUnnoted(b, data) ==
    /\ Accessed("write", ~writeStateActive) /\ UNCHANGED writeStateActive
    /\ \/ block' = Stored(b, data) /\ UNCHANGED failed
       \/ MayFail /\ failed' = TRUE /\ \E k \in 1 .. Len(data) :
             \E d \in {data[k], Unknown, block[b + k - 1]} :
                block' = Stored(b, Append(SubSeq(data, 1, k - 1), d))

\* Card_WriteM of some blocks; one that fails at a block leaves the old data, the new
\* or something else in it, and those behind it alone.
CardWrite(b, data) ==
    /\ Accessed("write", ~writeStateActive) /\ writeStateActive' = TRUE
    /\ \/ block' = Stored(b, data) /\ UNCHANGED failed
       \/ MayFail /\ failed' = TRUE /\ \E k \in 1 .. Len(data) :
             \E d \in {data[k], Unknown, block[b + k - 1]} :
                block' = Stored(b, Append(SubSeq(data, 1, k - 1), d))

\* No read follows a write, and no write a read, without the read of block 0 between.
FillBetween == recent \notin {<<"read", "write">>, <<"write", "read">>}
=============================================================================
