------------------------------ MODULE MCDrv08 ------------------------------
(* Drv08 for TLC.  The image without an RDB has 4 heads and tracks of 3      *)
(* sectors, so that the made-up RDB has 24 sectors; commands that begin      *)
(* before, at and behind its end and over the end of a track and a cylinder, *)
(* near the end of other images, and with an invalid sector 0.               *)
EXTENDS Drv08

Disk(f, m, s, o) == [format |-> f, mode |-> m, size |-> s, start |-> o]

AllMedia == {Disk("none", "rw", 0, 0), Disk("HDF", "rw", 9, 0),
             Disk("HDF", "readonly", 3, 0), Disk("ISO", "protected", 9, 0),
             Disk("NAKED", "rw", 12, 0), Disk("MMC", "rw", 1024, 0), Disk("MMC", "rw", 512, 3)}

Chs(c, h, s) == [mode |-> "chs", c |-> c, h |-> h, s |-> s]
Lba(n) == [mode |-> "lba", n |-> n]

AllAddresses == {Lba(0), Lba(8), Lba(24), Chs(0, 0, 3), Chs(1, 3, 3)}

FewMedia == {Disk("NAKED", "rw", 12, 0)}
FewAddresses == {Lba(23), Lba(24)}

CardMedia == {Disk("MMC", "rw", 1024, 0)}
CardAddresses == {Lba(0), Lba(1), Chs(0, 0, 0), Chs(0, 1, 2)}

\* An image of 256 MB.
LargeMedia == {Disk("NAKED", "rw", 524288, 0)}
=============================================================================
