------------------------------ MODULE UsartTx ------------------------------
(***************************************************************************)
(* The transmit side of the serial port (Replay_Boot/hardware/usart.c):    *)
(* USART_Putc fills a circular buffer, and hands what it has filled to the *)
(* DMA controller of the chip (PDC) at the end of a line, at the end of    *)
(* the buffer and when the buffer is full, while the PDC sends what it was *)
(* given before.  The PDC has a current and a next area, each an address   *)
(* and a count.                                                            *)
(***************************************************************************)
EXTENDS Naturals, Sequences

CONSTANTS
    BufLen,         \* TXBUFLEN
    Ids,            \* bound: characters are numbered modulo Ids
    MaxLine         \* characters of the longest line that is printed

ASSUME LengthAssumption ==
    BufLen \in Nat \ {0} /\ Ids \in Nat /\ Ids > BufLen /\ MaxLine \in Nat \ {0}

VARIABLES
    txbuf, txptr, wrptr, barrier,
    cur, nxt,       \* the PDC's [ptr, count]: TPR and TCR, TNPR and TNCR
    pc,             \* where USART_Putc is
    line,           \* characters of the line that is being printed
    owed,           \* history: the characters printed and not yet sent
    garbled,        \* history: something else was sent than was owed
    stale,          \* history: barrier is not where the current area began
    full            \* history: the ring was overfilled as Overfills tells,
                    \* where the history of what is owed ends

buffer == <<txbuf, txptr, wrptr, barrier>>
vars == <<buffer, cur, nxt, pc, line, owed, garbled, stale, full>>

Area == [ptr : 0 .. BufLen, count : 0 .. BufLen - 1]

TypeOK ==
    /\ txbuf \in [0 .. BufLen - 1 -> 0 .. Ids]
    /\ {txptr, wrptr, barrier} \subseteq 0 .. BufLen - 1
    /\ cur \in Area /\ nxt \in Area
    /\ cur.ptr + cur.count <= BufLen /\ nxt.ptr + nxt.count <= BufLen
    /\ pc \in {"ready", "flush", "queue"}
    /\ line \in 0 .. MaxLine - 1
    /\ owed \in Seq(0 .. Ids - 1) /\ {garbled, stale, full} \subseteq BOOLEAN

Init ==
    /\ txbuf = [a \in 0 .. BufLen - 1 |-> Ids]
    /\ txptr = 0 /\ wrptr = 0 /\ barrier = 0
    /\ cur = [ptr |-> 0, count |-> 0] /\ nxt = [ptr |-> 0, count |-> 0]
    /\ pc = "ready" /\ line = 0 /\ owed = << >>
    /\ garbled = FALSE /\ stale = FALSE /\ full = FALSE

-----------------------------------------------------------------------------
(* USART_Putc.                                                              *)

\* Mutant: a full buffer is no reason to flush.
MustFlushUnbarred(newline, w) == newline \/ w = 0

\* Mutant: the end of a line is no reason to flush where the buffer begins.
MustFlushLate(newline, w) == (newline /\ w # 1) \/ w = 0 \/ w = barrier

MustFlush(newline, w) == newline \/ w = 0 \/ w = barrier

\* The number of the next character.
Id == IF owed = << >> THEN 0 ELSE (owed[Len(owed)] + 1) % Ids

\* The two ways to overfill the ring that its pointers do not show: over what a
\* reloaded area has not sent, as the barrier stayed behind, and with a line that
\* takes the whole ring from its start, whose length is 0 modulo BufLen.
Overfills ==
    \/ stale /\ cur.count > 0 /\ Len(owed) >= BufLen
    \/ cur.count = 0 /\ Len(owed) >= BufLen - 1

\* It waits until the next area is free, and stores the character.
Putc(newline) ==
    /\ pc = "ready" /\ nxt.count = 0
    /\ Len(owed) < Ids              \* bound
    /\ newline \/ line + 1 < MaxLine
    /\ txbuf' = [txbuf EXCEPT ![wrptr] = Id]
    /\ wrptr' = (wrptr + 1) % BufLen
    /\ pc' = IF MustFlush(newline, wrptr') THEN "flush" ELSE "ready"
    /\ line' = IF newline THEN 0 ELSE line + 1
    /\ full' = (full \/ Overfills)
    /\ owed' = IF full' THEN << >> ELSE Append(owed, Id)
    /\ UNCHANGED <<txptr, barrier, cur, nxt, garbled, stale>>

\* What is filled and not yet handed over; a length of BufLen becomes 0.
Filled == [ptr |-> txptr, count |-> (BufLen + wrptr - txptr) % BufLen]

\* Mutant: what was handed over is handed over again.
FlushKeeps ==
    /\ pc = "flush"
    /\ IF cur.count = 0 /\ nxt.count = 0
       THEN cur' = Filled /\ barrier' = txptr /\ stale' = FALSE /\ pc' = "ready"
       ELSE pc' = "queue" /\ UNCHANGED <<cur, barrier, stale>>
    /\ UNCHANGED <<txbuf, txptr, wrptr, nxt, line, owed, garbled, full>>

\* The PDC is idle: what is filled becomes its current area.
Flush ==
    /\ pc = "flush"
    /\ IF cur.count = 0 /\ nxt.count = 0
       THEN cur' = Filled /\ barrier' = txptr /\ txptr' = wrptr /\ stale' = FALSE /\ pc' = "ready"
       ELSE pc' = "queue" /\ UNCHANGED <<cur, barrier, txptr, stale>>
    /\ UNCHANGED <<txbuf, wrptr, nxt, line, owed, garbled, full>>

\* The PDC was busy: it becomes the next area.
Queue ==
    /\ pc = "queue" /\ pc' = "ready"
    /\ IF nxt.count = 0 THEN nxt' = Filled /\ txptr' = wrptr ELSE UNCHANGED <<nxt, txptr>>
    /\ UNCHANGED <<txbuf, wrptr, barrier, cur, line, owed, garbled, stale, full>>

-----------------------------------------------------------------------------
(* The PDC.                                                                 *)

Send ==
    /\ cur.count > 0
    /\ garbled' = (garbled \/ (~full /\ (owed = << >> \/ txbuf[cur.ptr] # Head(owed))))
    /\ owed' = IF owed = << >> THEN owed ELSE Tail(owed)
    /\ cur' = [ptr |-> cur.ptr + 1, count |-> cur.count - 1]
    /\ UNCHANGED <<buffer, nxt, pc, line, stale, full>>

\* At its end the current area is replaced by the next.
Reload ==
    /\ cur.count = 0 /\ nxt.count > 0
    /\ cur' = nxt /\ nxt' = [nxt EXCEPT !.count = 0]
    /\ stale' = (barrier # nxt.ptr)
    /\ UNCHANGED <<buffer, pc, line, owed, garbled, full>>

Work == Flush \/ Queue \/ Send \/ Reload

Next == Work \/ \E newline \in BOOLEAN : Putc(newline)

Spec == Init /\ [][Next]_vars

\* USART_Putc runs on, and the PDC sends what it is given.
FairSpec == Spec /\ WF_vars(Work)

-----------------------------------------------------------------------------
(* Properties.                                                              *)

\* What the PDC sends is what was printed, in that order: no character is
\* overwritten in the buffer before it was sent.
InOrder == ~garbled

\* No character is lost: what was printed and not sent is in the current area,
\* in the next, or still to be handed over, and those are its lengths.
NothingLost ==
    pc = "ready" => Len(owed) = cur.count + nxt.count + Filled.count

\* For lines of any length the PDC reads no place outside the ring, and the
\* buffer, its two areas and what was printed agree: while the barrier stands at
\* the start of the current area it stops every overwriting, and only the two
\* ways of Overfills lose or garble a character.
Inv == TypeOK /\ (full \/ (InOrder /\ NothingLost))

\* The ring is never overfilled.  The code keeps this for lines up to half of the
\* ring and no further (README.md, section 6).
NeverFull == ~full

\* When printing stops, every line that was finished is sent.
LinesAreSent == <>[][Work]_vars => <>[](line = 0 /\ ~full => owed = << >>)
=============================================================================
