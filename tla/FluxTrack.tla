----------------------------- MODULE FluxTrack -----------------------------
(***************************************************************************)
(* Flux images (SCP) in the floppy driver, fileio_drv01_floppy.c: which    *)
(* words of a track the core gets for its next read, as the head steps and *)
(* the disk turns.  Positions in the file are bytes, in a track 16 bit     *)
(* words.                                                                  *)
(***************************************************************************)
EXTENDS Integers, Sequences

CONSTANTS
    FluxDisks,      \* the images: [first, last, revs, track], see FluxAssumption
    BurstWords,     \* the most words of one read (1024)
    BlkBytes,       \* size of a sector and of the bounce buffer (512)
    NoHead          \* scp_cur_track of a disk just inserted (255)

\* A track of an image: where its header is (0: there is none), whether the
\* header has its mark and the number of its track, and of each revolution the
\* length in words and its place behind the header.
ASSUME FluxAssumption ==
    /\ BurstWords \in Nat \ {0} /\ BlkBytes \in Nat \ {0} /\ NoHead \in Nat
    /\ \A k \in FluxDisks :
          /\ k.first \in Nat /\ k.last \in Nat /\ k.first <= k.last /\ k.last < NoHead
          /\ k.revs \in Nat \ {0}
          /\ k.track \in [k.first .. k.last -> [at : Nat, good : BOOLEAN, number : Nat,
                 len : [1 .. k.revs -> Nat \ {0}], off : [1 .. k.revs -> Nat]]]

\* drv01_desc_t: the head's track, the address of its header (0: no such
\* track), the header read last, revolution and offset.
NoHeader(k) == [at |-> 0, good |-> FALSE, number |-> 0,
                len |-> [i \in 1 .. k.revs |-> 0], off |-> [i \in 1 .. k.revs |-> 0]]
ScpInserted(k) ==
    [disk |-> k, cur |-> NoHead, addr |-> 0, header |-> NoHeader(k), rev |-> 0, offset |-> 0]

\* Mutant: the offset is kept on a shorter track.
SteppedFar(s, t, fails) ==
    IF t = s.cur THEN s
    ELSE IF t \notin s.disk.first .. s.disk.last \/ s.disk.track[t].at = 0
         THEN [s EXCEPT !.cur = t, !.addr = 0]
    ELSE LET h == IF fails THEN s.header ELSE s.disk.track[t]
         IN [s EXCEPT !.cur = t, !.header = h, !.rev = 0,
                      !.addr = IF h.good /\ h.number = t THEN s.disk.track[t].at ELSE 0]

\* A step to track t: its header is read, if the image has it and the card does
\* not fail; the head stays at the same angle, if the new track is that long.
Stepped(s, t, fails) ==
    IF t = s.cur THEN s
    ELSE IF t \notin s.disk.first .. s.disk.last \/ s.disk.track[t].at = 0
         THEN [s EXCEPT !.cur = t, !.addr = 0]
    ELSE LET h == IF fails THEN s.header ELSE s.disk.track[t]
         IN [s EXCEPT !.cur = t, !.header = h, !.rev = 0,
                      !.addr = IF h.good /\ h.number = t THEN s.disk.track[t].at ELSE 0,
                      !.offset = IF @ > h.len[1] THEN 0 ELSE @]

Length(s) == s.header.len[s.rev + 1]

\* What may be sent at once, in bytes, and where it is in the file.
Wanted(s) ==
    LET words == Length(s) - s.offset
    IN 2 * (IF words > BurstWords THEN BurstWords ELSE words)
Place(s) == s.addr + s.header.off[s.rev + 1] + 2 * s.offset

\* Does it go through the buffer, up to the end of the sector, or directly?
Bounced(s) == Place(s) % BlkBytes # 0 \/ Wanted(s) % BlkBytes # 0

\* Mutant: the end of the sector is not looked at.
SentUncut(s) == (Wanted(s) \div 2) * 2

Sent(s) ==
    IF ~Bounced(s) THEN Wanted(s)
    ELSE LET room == BlkBytes - (Place(s) % BlkBytes)
             bytes == IF Wanted(s) > room THEN room ELSE Wanted(s)
         IN (bytes \div 2) * 2

\* The words sent, and the mark before the first one of a revolution.
FluxOf(s) ==
    IF s.addr = 0 THEN << >>
    ELSE (IF s.offset = 0 THEN <<<<"index">>>> ELSE << >>)
         \o [i \in 1 .. Sent(s) \div 2 |-> <<s.cur, s.rev, s.offset + i - 1>>]

\* The disk turns on, to the next revolution at the end of one.
Turned(s) ==
    IF s.addr = 0 THEN s
    ELSE IF s.offset + Sent(s) \div 2 < Length(s)
         THEN [s EXCEPT !.offset = @ + Sent(s) \div 2]
    ELSE [s EXCEPT !.offset = 0, !.rev = (@ + 1) % s.disk.revs]

\* Wherever the head is: inside the revolution, so that what remains of it does
\* not wrap; a read through the buffer fits into it; and as long as the
\* revolution goes on every read has words of it, so that the core never waits
\* for the rest of a track.
FluxInside(s) ==
    s.addr # 0 =>
        /\ s.rev < s.disk.revs /\ s.offset <= Length(s)
        /\ Bounced(s) => Sent(s) <= BlkBytes - (Place(s) % BlkBytes)
        /\ s.offset < Length(s) => Sent(s) > 0
=============================================================================
