------------------------------ MODULE HardFile ------------------------------
(***************************************************************************)
(* How the ATA driver finds a sector of a hard disk image                  *)
(* (Drv08_HardFileSeek and Drv08_BuildHardfileIndex in                     *)
(* Replay_Boot/fileio_drv08_ata.c).  FatFs can only follow a cluster chain *)
(* forwards, so the driver keeps a table of the clusters at every step of  *)
(* the file, filled when it is needed, and the place of the last seek, and *)
(* writes the position and the cluster that it looks up straight into the  *)
(* FatFs file object.                                                      *)
(*                                                                         *)
(* Positions count sectors; a cluster is its place in the chain of the     *)
(* file.  As in FatFs, the cluster of position p > 0 is the one that holds *)
(* the sector before p.                                                    *)
(***************************************************************************)
EXTENDS Integers

CONSTANTS
    ClusterSize,    \* sectors of a cluster
    SectorBytes,    \* 512
    Entries,        \* entries of the table, 1024
    MinStep,        \* the smallest step, 2^16 bytes, in sectors
    Sizes,          \* sizes of the images
    Room,           \* the card has room for a file to grow to this size
    Lba,            \* the sectors that the core asks for
    Burst           \* sectors of one transfer

ASSUME SizeAssumption ==
    /\ ClusterSize \in Nat \ {0} /\ SectorBytes \in Nat \ {0}
    /\ Entries \in Nat \ {0} /\ MinStep \in Nat \ {0}
    /\ Room \in Nat /\ Sizes \subseteq 1 .. Room
    /\ Lba \subseteq Nat /\ Burst \subseteq Nat \ {0}

Unset == -1         \* 0xffffffff

\* What lies behind the table is index_size, no cluster of the file.
Foreign == -2 - Room

VARIABLES
    pc,             \* where Drv08_HardFileSeek is
    fp,             \* the FatFs file: [fptr, clust, size, err]
    writable,       \* was it opened for writing?
    step,           \* 1 << index_size
    index,          \* the clusters at i * step
    mru,            \* the last place sought: [lba, clust]
    lba, i,         \* lba and i of Drv08_HardFileSeek
    found           \* did the last seek succeed?

vars == <<pc, fp, writable, step, index, mru, lba, i, found>>

Smaller(a, b) == IF a < b THEN a ELSE b
Larger(a, b) == IF a < b THEN b ELSE a

\* The cluster of position p > 0.
Loc(p) == (p - 1) \div ClusterSize

Idx == lba \div step

TypeOK ==
    /\ pc \in {"idle", "fill", "jump", "seek"}
    /\ fp \in [fptr : Nat, clust : Int, size : 1 .. Room, err : BOOLEAN]
    /\ writable \in BOOLEAN /\ step \in Nat \ {0}
    /\ index \in [0 .. Entries -> Int]
    /\ mru \in [lba : Int, clust : Int]
    /\ lba \in Nat /\ i \in 0 .. Entries /\ found \in BOOLEAN

-----------------------------------------------------------------------------
(* FatFs, external: f_lseek as FF_Seek calls it, f_read and f_write.        *)

\* The cluster at p > 0: from the current cluster if that is not behind p,
\* else from the start of the chain.  At 0 the field is left alone.
Chain(f, p) ==
    IF p = 0 THEN f.clust
    ELSE IF f.fptr > 0 /\ Loc(p) >= Loc(f.fptr)
         THEN f.clust + (Loc(p) - Loc(f.fptr))
         ELSE Loc(p)

\* How far f_lseek gets: a file that may be written is made longer.
Reach(f, p) ==
    IF p <= f.size THEN p ELSE IF writable THEN Smaller(p, Room) ELSE f.size

MoveTo(f, p) ==
    [fptr |-> p, clust |-> Chain(f, p), size |-> Larger(f.size, p), err |-> f.err]

Sought(f, p) == IF p = f.fptr \/ f.err THEN f ELSE MoveTo(f, Reach(f, p))

\* An error of the card leaves the file anywhere, and fails every later call.
Broken(f) ==
    {[fptr |-> p, clust |-> c, size |-> f.size, err |-> TRUE] :
        p \in IF f.err THEN {} ELSE {0, f.size}, c \in {0, Loc(f.size)}}

-----------------------------------------------------------------------------
\* Drv08_BuildHardfileIndex.  The step, in bytes, is at least the size divided
\* by Entries, rounded down; there is one such step.
StepsOf(size) ==
    {s \in 1 .. MinStep + 2 * size :
        /\ \E k \in 0 .. size : s = MinStep * 2^k
        /\ s * SectorBytes >= (size * SectorBytes) \div Entries
        /\ s = MinStep \/ (s \div 2) * SectorBytes < (size * SectorBytes) \div Entries}

NoIndex == [n \in 0 .. Entries |-> IF n = Entries THEN Foreign ELSE Unset]
NoMru == [lba |-> -1, clust |-> 0]

\* FileIO_Drv08_InsertInit has looked at the file, and left it at p.
Opened(size, p) ==
    [fptr |-> p, clust |-> IF p = 0 THEN 0 ELSE Loc(p), size |-> size, err |-> FALSE]

Init ==
    /\ \E s \in Sizes : \E p \in 0 .. s : fp = Opened(s, p) /\ step \in StepsOf(s)
    /\ writable \in BOOLEAN
    /\ index = NoIndex /\ mru = NoMru
    /\ pc = "idle" /\ lba = 0 /\ i = 0 /\ found = FALSE

\* Another image is inserted.
Insert ==
    /\ pc = "idle"
    /\ \E s \in Sizes : \E p \in 0 .. s : fp' = Opened(s, p) /\ step' \in StepsOf(s)
    /\ writable' \in BOOLEAN
    /\ index' = NoIndex /\ mru' = NoMru
    /\ lba' = 0 /\ i' = 0 /\ found' = FALSE
    /\ UNCHANGED pc

-----------------------------------------------------------------------------
(* Drv08_HardFileSeek.                                                      *)

\* The driver sets fptr and clust of the file object.
Placed(p, c) == [fptr |-> p, clust |-> c, size |-> fp.size, err |-> fp.err]

\* Mutant: the position of the last seek is used without its cluster.
RecallHalf(l) == IF l = mru.lba THEN Placed(l, fp.clust) ELSE fp

\* "if we just visited this block, we know the file offset and cluster"
Recall(l) == IF l = mru.lba THEN Placed(l, mru.clust) ELSE fp

\* Is l far from where the file f is, or its step not known yet?
Reposition(f, l) ==
    LET new == l \div ClusterSize
        cur == f.fptr \div ClusterSize
    IN new < cur \/ new > cur + 1 \/ index[l \div step] = Unset

\* "step backwards until we find a valid cluster"
Start(k, idx) ==
    /\ k = 0 \/ index[k] # Unset
    /\ \A n \in k + 1 .. idx : index[n] = Unset

\* Assert(idx < 1024) reports the entry behind the table and goes on.
Call(l) ==
    /\ pc = "idle" /\ l \div step <= Entries
    /\ lba' = l /\ fp' = Recall(l)
    /\ IF ~Reposition(fp', l) THEN pc' = "seek" /\ UNCHANGED i
       ELSE IF index[l \div step] = Unset
            THEN pc' = "fill" /\ i' \in 0 .. l \div step /\ Start(i', l \div step)
            ELSE pc' = "jump" /\ UNCHANGED i
    /\ UNCHANGED <<writable, step, index, mru, found>>

\* Mutant: the loop runs one entry too far.
FillOverrun ==
    /\ pc = "fill"
    /\ pc' = IF i > Idx THEN "jump" ELSE "fill"
    /\ i' = i + 1
    /\ IF index[i] # Unset THEN UNCHANGED <<fp, index>>
       ELSE /\ fp' \in {Sought(fp, i * step)} \cup Broken(fp)
            /\ index' = [index EXCEPT ![i] = fp'.clust]
    /\ UNCHANGED <<writable, step, mru, lba, found>>

\* Mutant: the cluster is taken before the file is moved.
FillEarly ==
    /\ pc = "fill"
    /\ pc' = IF i = Idx THEN "jump" ELSE "fill"
    /\ i' = i + 1
    /\ IF index[i] # Unset THEN UNCHANGED <<fp, index>>
       ELSE /\ fp' \in {Sought(fp, i * step)} \cup Broken(fp)
            /\ index' = [index EXCEPT ![i] = fp.clust]
    /\ UNCHANGED <<writable, step, mru, lba, found>>

\* One entry of the table.  What FF_Seek returns is not looked at.
Fill ==
    /\ pc = "fill"
    /\ pc' = IF i = Idx THEN "jump" ELSE "fill"
    /\ i' = i + 1
    /\ IF index[i] # Unset THEN UNCHANGED <<fp, index>>
       ELSE /\ fp' \in {Sought(fp, i * step)} \cup Broken(fp)
            /\ index' = [index EXCEPT ![i] = fp'.clust]
    /\ UNCHANGED <<writable, step, mru, lba, found>>

Jump ==
    /\ pc = "jump" /\ pc' = "seek"
    /\ fp' = Placed(Idx * step, index[Idx])
    /\ UNCHANGED <<writable, step, index, mru, lba, i, found>>

\* The last FF_Seek, which does not look at an error if the file is there.
Seek ==
    /\ pc = "seek" /\ pc' = "idle"
    /\ \/ fp' = Sought(fp, lba) /\ found' = (fp.fptr = lba \/ ~fp.err)
       \/ fp.fptr # lba /\ fp' \in Broken(fp) /\ found' = FALSE
    /\ mru' = [lba |-> fp'.fptr, clust |-> fp'.clust]
    /\ UNCHANGED <<writable, step, index, lba, i>>

-----------------------------------------------------------------------------
\* FF_Read, FF_ReadDirect and FF_Write after a seek that succeeded.  Behind the
\* end FatFs computes what remains without a sign: it reads on to the end of
\* the last cluster, then fails.
Read(n) ==
    /\ pc = "idle" /\ found /\ ~fp.err
    /\ \/ /\ fp.fptr <= fp.size
          /\ fp' = MoveTo(fp, Smaller(fp.fptr + n, fp.size))
       \/ /\ fp.fptr > fp.size
          /\ fp' = IF Loc(fp.fptr + n) = Loc(fp.fptr) /\ fp.fptr % ClusterSize # 0
                   THEN Placed(fp.fptr + n, fp.clust) ELSE [fp EXCEPT !.err = TRUE]
       \/ fp' \in Broken(fp)
    /\ UNCHANGED <<pc, writable, step, index, mru, lba, i, found>>

\* Writes that start beyond Room are left out.
Write(n) ==
    /\ pc = "idle" /\ found /\ ~fp.err /\ writable /\ fp.fptr <= Room
    /\ \/ fp' = MoveTo(fp, Smaller(fp.fptr + n, Room))
       \/ fp' \in Broken(fp)
    /\ UNCHANGED <<pc, writable, step, index, mru, lba, i, found>>

Next ==
    \/ Insert
    \/ \E l \in Lba : Call(l)
    \/ Fill \/ Jump \/ Seek
    \/ \E n \in Burst : Read(n) \/ Write(n)

Spec == Init /\ [][Next]_vars

-----------------------------------------------------------------------------
(* Properties.                                                              *)

\* The table covers what is asked for.
InTable ==
    \A size \in Sizes, l \in Lba : \A s \in StepsOf(size) : l \div s < Entries

\* Unless the card failed, the file object that the driver writes to behind
\* FatFs's back stays one that FatFs could have made: the cluster is the one of
\* the position, so every sector is read from and written to its own place.
FilePointerRight ==
    ~fp.err /\ fp.fptr \in 1 .. fp.size => fp.clust = Loc(fp.fptr)

\* Neither the table nor the last place ever leads to a wrong cluster.
TablesRight ==
    ~fp.err =>
        /\ \A n \in 1 .. Entries - 1 :
              index[n] # Unset /\ n * step <= fp.size => index[n] = Loc(n * step)
        /\ mru.lba \in 1 .. fp.size => mru.clust = Loc(mru.lba)

\* What holds of the file object and the driver's tables after any sequence of
\* seeks, reads, writes and errors.
Inv == TypeOK /\ FilePointerRight /\ TablesRight
=============================================================================
