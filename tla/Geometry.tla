------------------------------ MODULE Geometry ------------------------------
(***************************************************************************)
(* The cylinders, heads and sectors per track that the ATA driver makes up *)
(* for what is inserted (Replay_Boot/fileio_drv08_ata.c): for an image as  *)
(* WinUAE does, for an image without an RDB so that the RDB fits in front  *)
(* of it, and for the card or one of its partitions.  Sizes are whole      *)
(* sectors; the fields of drv08_desc_t have 16 bits.                       *)
(***************************************************************************)
EXTENDS Naturals

Wrap16(n) == n % 65536

\* The largest number of a set, as a loop that remembers the last one finds it.
Largest(set) == CHOOSE n \in set : \A m \in set : m <= n

-----------------------------------------------------------------------------
(* Drv08_GetHardfileGeometry.                                               *)

SectorsPerTrack == {63, 127, 255}
Tries == [s : SectorsPerTrack, h : 4 .. 16]

CylindersOf(total, t) == total \div (t.h * t.s)

\* Up to 512 MB there are at most 1023 cylinders; above, the last of three tests
\* decides.
Fits(total, t) ==
    CylindersOf(total, t) <= IF total <= 1024 * 1024 THEN 1023 ELSE 65535

Sooner(t, u) == t.s < u.s \/ (t.s = u.s /\ t.h <= u.h)

Fitting(total) == {t \in Tries : Fits(total, t)}

First(set) == CHOOSE t \in set : \A u \in set : Sooner(t, u)

\* The first try that fits.  If none does, both loops run to their ends.
HardfileGeometry(total) ==
    LET t == First(Fitting(total))
    IN IF total = 0 THEN [c |-> 0, h |-> 0, s |-> 0]
       ELSE IF Fitting(total) = {}
       THEN [c |-> Wrap16(total \div (16 * 255)), h |-> 17, s |-> 255]
       ELSE [c |-> Wrap16(CylindersOf(total, t)), h |-> t.h, s |-> t.s]

-----------------------------------------------------------------------------
(* Drv08_CreateRDB.                                                         *)

Odd == {s \in 1 .. 253 : s % 2 = 1}

\* Two cylinders hold the RDB.
RdbCylinders == 2

\* Mutant: the cylinders are divided by the sectors only.
NakedGeometryTall(total) ==
    LET s == Largest({s \in Odd : total % s = 0})
        q == total \div s
        hs == {h \in 4 .. 15 : q % h = 0}
        h == IF hs = {} THEN HardfileGeometry(total).h ELSE Largest(hs)
    IN [c |-> Wrap16(q + RdbCylinders), h |-> h, s |-> s]

\* The largest odd number of sectors and then the largest number of heads that
\* leave no rest; the heads of HardfileGeometry if all leave one.
NakedGeometry(total) ==
    LET s == Largest({s \in Odd : total % s = 0})
        q == total \div s
        hs == {h \in 4 .. 15 : q % h = 0}
        h == IF hs = {} THEN HardfileGeometry(total).h ELSE Largest(hs)
    IN [c |-> Wrap16((q \div h) + RdbCylinders), h |-> h, s |-> s]

\* lba_offset: the sectors in front of the image.
RdbSectors(g) == g.s * g.h * RdbCylinders

-----------------------------------------------------------------------------
(* The branch of FileIO_Drv08_InsertInit for the card and its partitions.   *)

CardTracks(lba) == lba \div Largest({s \in 1 .. 254 : lba % s = 0})

\* Is there a number of heads that leaves no rest?  If not, InsertInit divides
\* by 0.
CardDivides(lba) == \E h \in 4 .. 15 : CardTracks(lba) % h = 0

CardGeometry(lba) ==
    LET h == Largest({h \in 4 .. 15 : CardTracks(lba) % h = 0})
    IN [c |-> Wrap16(CardTracks(lba) \div h), h |-> h,
        s |-> Largest({s \in 1 .. 254 : lba % s = 0})]

-----------------------------------------------------------------------------
\* total_sectors of Drv08_IdentifyDevice.
Capacity(g) == g.c * g.h * g.s
=============================================================================
