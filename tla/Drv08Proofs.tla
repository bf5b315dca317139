---------------------------- MODULE Drv08Proofs ----------------------------
(***************************************************************************)
(* Proofs about modules Geometry and Drv08: for media of every size, and   *)
(* whatever commands change the image, the disk that IDENTIFY describes is *)
(* there; and every transfer moves the sectors that were asked for, with   *)
(* registers and FIFO in order.                                            *)
(***************************************************************************)
EXTENDS Drv08, WellFoundedInduction, SequenceTheorems, TLAPS

(* Arithmetic.                                                              *)

\* Division without a rest, with the divisor as a variable.
LEMMA DivTimes ==
    ASSUME NEW n \in Nat, NEW d \in Nat \ {0}
    PROVE  n \div d \in Nat /\ (n \div d) * d <= n /\ n < (n \div d) * d + d
OBVIOUS

\* Multiplication keeps an order.
LEMMA TimesOrder ==
    ASSUME NEW a \in Nat, NEW b \in Nat, NEW k \in Nat, a <= b
    PROVE  a * k \in Nat /\ a * k <= b * k
OBVIOUS

LEMMA TimesAssociates ==
    ASSUME NEW a \in Nat, NEW b \in Nat, NEW c \in Nat
    PROVE  (a * b) * c = a * (b * c) /\ a * b = b * a /\ a * b \in Nat
OBVIOUS

\* What the 16 bits of a field leave is never more.
LEMMA WrapBelow ==
    ASSUME NEW n \in Nat
    PROVE  Wrap16(n) \in Nat /\ Wrap16(n) <= n /\ (n < 65536 => Wrap16(n) = n)
BY DEF Wrap16

-----------------------------------------------------------------------------
(* The loops find something.                                                *)

\* Natural numbers have a smallest one.
LEMMA SmallestFound ==
    ASSUME NEW T, T \subseteq Nat, T # {}
    PROVE  \E x \in T : \A y \in T : x <= y
<1>1. PICK x \in T : \A y \in T : ~(<<y, x>> \in OpToRel(<, Nat))
  BY NatLessThanWellFounded, WFMin
<1>2. ASSUME NEW y \in T PROVE x <= y
  <2>1. ~(y < x)
    BY <1>1 DEF OpToRel
  <2> QED
    BY <2>1
<1> QED
  BY <1>2

\* The loops of InsertInit and CreateRDB end with the largest number.
LEMMA LargestFound ==
    ASSUME NEW S, S \subseteq 0 .. 300, S # {}
    PROVE  Largest(S) \in S
<1> DEFINE T == {k \in Nat : 300 - k \in S}
<1>1. PICK e \in S : TRUE
  OBVIOUS
<1>2. 300 - e \in T
  BY <1>1
<1>3. PICK x \in T : \A y \in T : x <= y
  <2>1. T \subseteq Nat /\ T # {}
    BY <1>2
  <2> HIDE DEF T
  <2> QED
    BY <2>1, SmallestFound
<1>4. \A m \in S : m <= 300 - x
  <2> SUFFICES ASSUME NEW m \in S PROVE m <= 300 - x
    OBVIOUS
  <2>1. 300 - m \in T
    OBVIOUS
  <2>2. x <= 300 - m
    BY <1>3, <2>1
  <2>3. x \in Nat /\ m \in Nat
    BY <1>3
  <2> QED
    BY <2>2, <2>3
<1>5. 300 - x \in S
  BY <1>3
<1>6. \E n \in S : \A m \in S : m <= n
  BY <1>4, <1>5
<1> QED
  BY <1>6 DEF Largest

\* Of the tries that fit there is a first one, which the loops of
\* Drv08_GetHardfileGeometry find.
LEMMA FirstFound ==
    ASSUME NEW fit, fit \subseteq Tries, fit # {}
    PROVE  First(fit) \in fit
<1> DEFINE Key(t) == 17 * t.s + t.h
           K == {Key(t) : t \in fit}
<1>1. \A t \in fit : t.s \in SectorsPerTrack /\ t.h \in 4 .. 16
  BY DEF Tries
<1>2. \A t \in fit : Key(t) \in Nat
  BY <1>1 DEF SectorsPerTrack
<1>3. PICK k \in K : \A l \in K : k <= l
  <2>1. K \subseteq Nat /\ K # {}
    BY <1>2
  <2> QED
    BY <2>1, SmallestFound
<1>4. PICK t \in fit : k = Key(t)
  BY <1>3
<1>5. ASSUME NEW u \in fit PROVE Sooner(t, u)
  <2>1. Key(t) <= Key(u)
    BY <1>3, <1>4
  <2> QED
    BY <2>1, <1>1 DEF Sooner, SectorsPerTrack
<1>6. \E f \in fit : \A u \in fit : Sooner(f, u)
  BY <1>5
<1> QED
  BY <1>6 DEF First

-----------------------------------------------------------------------------
(* The three geometries.                                                    *)

\* Whatever is left of the cylinders by the 16 bits, they are on the disk.
LEMMA CylindersFit ==
    ASSUME NEW n \in Nat, NEW h \in Nat \ {0}, NEW s \in Nat \ {0},
           NEW c \in Nat, c <= n \div (h * s)
    PROVE  (c * h) * s <= n
<1>1. h * s \in Nat \ {0}
  OBVIOUS
<1>2. c * (h * s) <= (n \div (h * s)) * (h * s)
  BY <1>1, DivTimes, TimesOrder
<1>3. (n \div (h * s)) * (h * s) <= n
  BY <1>1, DivTimes
<1> QED
  BY <1>1, <1>2, <1>3, DivTimes, TimesAssociates

\* What the fields of a geometry can be.
Geometries == {g \in [c : Nat, h : 0 .. 16, s : 0 .. 255] : g.h # 0 => g.s # 0}

\* Images of up to 127 GB.
Sized == {n \in Nat : n \div 4080 <= 65535}

\* Up to 512 MB, cylinders of 16 heads and 255 sectors are few enough.
LEMMA LastFits ==
    ASSUME NEW n \in Nat, NEW q \in Nat, q * 4080 <= n, n <= 1024 * 1024
    PROVE  q <= 1023
OBVIOUS

\* A geometry is found for every size, and its heads and sectors are positive.
LEMMA HardfileChosen ==
    ASSUME NEW n \in Sized, n # 0
    PROVE  \E t \in Tries : /\ Fits(n, t)
                            /\ HardfileGeometry(n) =
                                  [c |-> Wrap16(CylindersOf(n, t)), h |-> t.h, s |-> t.s]
<1> DEFINE last == [s |-> 255, h |-> 16]
           q == n \div 4080
<1>1. last \in Fitting(n)
  <2>1. last \in Tries
    BY DEF Tries, SectorsPerTrack
  <2>2. CylindersOf(n, last) = q
    BY DEF CylindersOf
  <2>3. n \in Nat /\ q \in Nat /\ q * 4080 <= n
    BY DivTimes DEF Sized
  <2>4. n <= 1024 * 1024 => q <= 1023
    BY <2>3, LastFits
  <2>5. q <= 65535
    BY DEF Sized
  <2> QED
    BY <2>1, <2>2, <2>4, <2>5 DEF Fits, Fitting
<1>2. First(Fitting(n)) \in Fitting(n)
  BY <1>1, FirstFound DEF Fitting
<1>3. HardfileGeometry(n) = LET t == First(Fitting(n))
                            IN [c |-> Wrap16(CylindersOf(n, t)), h |-> t.h, s |-> t.s]
  BY <1>1 DEF HardfileGeometry
<1> QED
  BY <1>2, <1>3 DEF Fitting

\* An image of up to 127 GB has room for the geometry made up for it, and loses
\* less than a cylinder.
LEMMA HardfileFits ==
    ASSUME NEW n \in Sized
    PROVE  LET g == HardfileGeometry(n)
           IN /\ g \in Geometries /\ Capacity(g) <= n
              /\ n # 0 => n < Capacity(g) + g.h * g.s
<1>1. CASE n = 0
  BY <1>1 DEF HardfileGeometry, Capacity, Geometries
<1>2. CASE n # 0
  <2>1. n \in Nat \ {0}
    BY <1>2 DEF Sized
  <2>2. PICK t \in Tries :
            /\ Fits(n, t)
            /\ HardfileGeometry(n) =
                  [c |-> Wrap16(CylindersOf(n, t)), h |-> t.h, s |-> t.s]
    BY <1>2, HardfileChosen
  <2>3. t.h \in Nat \ {0} /\ t.s \in Nat \ {0} /\ t.h \in 1 .. 16 /\ t.s \in 1 .. 255
    BY DEF Tries, SectorsPerTrack
  <2> DEFINE h == t.h
             s == t.s
             c == CylindersOf(n, t)
  <2>4. c = n \div (h * s) /\ h * s \in Nat \ {0}
    BY <2>3 DEF CylindersOf
  <2>5. c \in Nat /\ c * (h * s) <= n /\ n < c * (h * s) + h * s
    BY <2>1, <2>4, DivTimes
  <2>6. Wrap16(c) = c
    <3>1. c <= 65535
      BY <2>2, <2>5 DEF Fits
    <3> QED
      BY <2>5, <3>1, WrapBelow
  <2>7. HardfileGeometry(n) = [c |-> c, h |-> h, s |-> s]
    BY <2>2, <2>6
  <2>8. Capacity(HardfileGeometry(n)) = c * (h * s)
    BY <2>3, <2>5, <2>7, TimesAssociates DEF Capacity
  <2> DEFINE g == HardfileGeometry(n)
  <2>9. g.h * g.s = h * s /\ g \in Geometries
    BY <2>3, <2>5, <2>7 DEF Geometries
  <2>10. Capacity(g) <= n /\ n < Capacity(g) + g.h * g.s
    BY <2>5, <2>8, <2>9
  <2> QED
    BY <2>9, <2>10
<1> QED
  BY <1>1, <1>2

\* With two cylinders for the RDB in front, an image without one has room for the
\* geometry made up for it.
LEMMA NakedFits ==
    ASSUME NEW n \in Sized
    PROVE  LET g == NakedGeometry(n)
           IN /\ g \in Geometries /\ RdbSectors(g) \in Nat
              /\ Capacity(g) <= n + RdbSectors(g)
<1> DEFINE S == {s \in Odd : n % s = 0}
           s == Largest(S)
           q == n \div s
           H == {h \in 4 .. 15 : q % h = 0}
           h == IF H = {} THEN HardfileGeometry(n).h ELSE Largest(H)
           c == q \div h
<1>1. n \in Nat
  BY DEF Sized
<1>2. s \in S
  <2>1. 1 \in S
    BY <1>1 DEF Odd
  <2>2. S \subseteq 0 .. 300
    BY DEF Odd
  <2> HIDE DEF S
  <2>3. Largest(S) \in S
    BY <2>1, <2>2, LargestFound
  <2> QED
    BY <2>3
<1>3. s \in Nat \ {0} /\ s \in 1 .. 255
  <2> HIDE DEF s
  <2>1. s \in Odd
    BY <1>2
  <2> QED
    BY <2>1 DEF Odd
<1>4. q \in Nat /\ q * s <= n
  BY <1>1, <1>3, DivTimes
<1>5. h \in Nat \ {0} /\ h \in 1 .. 16
  <2>1. CASE H = {}
    <3>1. n # 0
      <4>1. n = 0 => q % 4 = 0
        BY <1>3, <1>4, SMTT(30)
      <4> QED
        BY <2>1, <4>1
    <3>2. PICK t \in Tries : HardfileGeometry(n).h = t.h
      BY <3>1, HardfileChosen
    <3> QED
      BY <2>1, <3>2 DEF Tries
  <2>2. CASE H # {}
    <3>1. H \subseteq 0 .. 300
      OBVIOUS
    <3>2. Largest(H) \in H
      BY <2>2, <3>1, LargestFound
    <3> QED
      BY <2>2, <3>2
  <2> QED
    BY <2>1, <2>2
<1>6. NakedGeometry(n) = [c |-> Wrap16(c + 2), h |-> h, s |-> s]
  BY DEF NakedGeometry, RdbCylinders
<1>7. c \in Nat /\ c * h <= q
  <2> HIDE DEF q, h
  <2> QED
    BY <1>4, <1>5, DivTimes
<1> HIDE DEF s, q, h, c
<1>8. Wrap16(c + 2) \in Nat /\ Wrap16(c + 2) <= c + 2
  <2>1. c + 2 \in Nat
    BY <1>7
  <2> QED
    BY <2>1, WrapBelow
<1> DEFINE w == Wrap16(c + 2)
<1> HIDE DEF w
<1>9. (w * h) * s <= n + s * h * 2
  <2>1. w * h \in Nat /\ w * h <= (c + 2) * h
    BY <1>5, <1>7, <1>8, TimesOrder DEF w
  <2>2. (c + 2) * h = c * h + 2 * h /\ c * h \in Nat
    BY <1>5, <1>7
  <2>3. w * h <= q + 2 * h
    BY <1>4, <1>5, <1>7, <2>1, <2>2
  <2>4. (w * h) * s <= (q + 2 * h) * s
    BY <1>3, <1>4, <1>5, <2>1, <2>3, TimesOrder
  <2>5. (q + 2 * h) * s = q * s + s * h * 2
    BY <1>3, <1>4, <1>5
  <2>6. q * s \in Nat /\ s * h * 2 \in Nat /\ (w * h) * s \in Nat
    BY <1>3, <1>4, <1>5, <2>1
  <2> QED
    BY <1>1, <1>4, <2>4, <2>5, <2>6
<1> QED
  BY <1>3, <1>5, <1>6, <1>8, <1>9 DEF w, Capacity, RdbSectors, RdbCylinders, Geometries

\* A card or partition has room for its geometry if InsertInit gets one.
LEMMA CardFits ==
    ASSUME NEW n \in Nat, CardDivides(n)
    PROVE  CardGeometry(n) \in Geometries /\ Capacity(CardGeometry(n)) <= n
<1> DEFINE S == {s \in 1 .. 254 : n % s = 0}
           s == Largest(S)
           q == n \div s
           H == {h \in 4 .. 15 : q % h = 0}
           h == Largest(H)
           c == q \div h
<1>1. s \in S
  <2>1. 1 \in S
    OBVIOUS
  <2>2. S \subseteq 0 .. 300
    OBVIOUS
  <2> HIDE DEF S
  <2> QED
    BY <2>1, <2>2, LargestFound
<1>2. s \in Nat \ {0} /\ s \in 1 .. 255
  <2> HIDE DEF s
  <2>1. s \in 1 .. 254
    BY <1>1
  <2> QED
    BY <2>1
<1>3. q \in Nat /\ q * s <= n
  BY <1>2, DivTimes, ZenonT(40)
<1>4. h \in H
  <2>1. H # {}
    BY DEF CardDivides, CardTracks
  <2>2. H \subseteq 0 .. 300
    OBVIOUS
  <2> HIDE DEF H
  <2> QED
    BY <2>1, <2>2, LargestFound
<1>5. h \in Nat \ {0} /\ h \in 1 .. 16
  BY <1>4
<1>6. CardGeometry(n) = [c |-> Wrap16(c), h |-> h, s |-> s]
  BY DEF CardGeometry, CardTracks
<1>7. c \in Nat /\ c * h <= q
  <2> HIDE DEF q, h
  <2> QED
    BY <1>3, <1>5, DivTimes
<1> HIDE DEF s, q, h, c
<1>8. Wrap16(c) \in Nat /\ Wrap16(c) <= c
  BY <1>7, WrapBelow
<1> DEFINE w == Wrap16(c)
<1> HIDE DEF w
<1>9. (w * h) * s <= n
  <2>1. w * h \in Nat /\ w * h <= c * h
    BY <1>5, <1>7, <1>8, TimesOrder DEF w
  <2>2. w * h <= q /\ c * h \in Nat
    BY <1>3, <1>5, <1>7, <2>1
  <2>3. (w * h) * s <= q * s
    BY <1>2, <1>3, <2>1, <2>2, TimesOrder
  <2> QED
    BY <1>2, <1>3, <2>1, <2>3
<1> QED
  BY <1>2, <1>5, <1>6, <1>8, <1>9 DEF w, Capacity, Geometries

-----------------------------------------------------------------------------
(* The inductive invariant.                                                 *)

\* The sizes of what is inserted.
MediaSized == \A m \in Medium : m.size \in Sized

Disks == [format : {"none", "HDF", "NAKED", "MMC", "ISO"},
          mode : {"rw", "protected", "readonly"},
          size : Nat, geo : Geometries, offset : Nat]

Commands == [cmd : Data \cup Plain \cup {"SET_MULTIPLE", "none"},
             a : Address \cup {NoCmd.a}, count : Nat]

Sectors == Seq(Int \cup {"stale"})

\* An image only grows, because the driver's sums are sums of numbers.  Where it
\* is in a READ SECTORS does not matter.
CapacityInv ==
    /\ disk \in Disks /\ CapacityThere
    /\ spb \in Nat /\ tf \in Commands /\ cmd \in Commands
    /\ fpos \in Int /\ left \in Int /\ block \in Int /\ buf \in Sectors
    /\ pc \in {"mblock", "mwait", "msend"} => at \in Int

\* FileIO_Drv08_InsertInit never tells the host of sectors that are not there.
LEMMA InsertedFits ==
    ASSUME MediaSized, NEW d \in Inserted
    PROVE  /\ d \in Disks
           /\ Capacity(d.geo) <= d.size + (IF d.format = "NAKED" THEN d.offset ELSE 0)
<1>1. PICK m \in Medium : d = Insert(m)
  BY DEF Inserted
<1>2. m.size \in Sized /\ m.size \in Nat /\ m.start \in Nat
  BY MediumAssumption DEF MediaSized
<1>3. CASE m.format = "none"
  BY <1>1, <1>2, <1>3, MediumAssumption DEF Insert, Capacity, Disks, Geometries
<1>4. CASE m.format = "MMC"
  <2>1. CardDivides(m.size)
    BY <1>4, MediumAssumption
  <2> QED
    BY <1>1, <1>2, <1>4, <2>1, CardFits, MediumAssumption DEF Insert, Disks
<1>5. CASE m.format = "NAKED"
  BY <1>1, <1>2, <1>5, NakedFits, MediumAssumption DEF Insert, Disks
<1>6. CASE m.format \in {"HDF", "ISO"}
  BY <1>1, <1>2, <1>6, HardfileFits, MediumAssumption DEF Insert, Disks
<1> QED
  BY <1>3, <1>4, <1>5, <1>6, MediumAssumption

\* A geometry that was there stays there when the image grows.
LEMMA GrownFits ==
    ASSUME disk \in Disks, CapacityThere, fpos' \in Int,
           disk' = [disk EXCEPT !.size = Larger(@, fpos')]
    PROVE  disk' \in Disks /\ CapacityThere'
<1>1. Larger(disk.size, fpos') \in Nat /\ Larger(disk.size, fpos') >= disk.size
  BY DEF Larger, Disks
<1>2. disk' \in Disks /\ disk'.format = disk.format /\ disk'.geo = disk.geo
      /\ disk'.offset = disk.offset /\ disk'.size = Larger(disk.size, fpos')
  BY <1>1 DEF Disks
<1>3. Capacity(disk.geo) \in Nat
  <2>1. disk.geo.c \in Nat /\ disk.geo.h \in Nat /\ disk.geo.s \in Nat
    BY DEF Disks, Geometries
  <2> QED
    BY <2>1, TimesAssociates DEF Capacity
<1> QED
  BY <1>1, <1>2, <1>3 DEF CapacityThere, Disks



\* What the address registers hold comes to a number of a sector.
LEMMA ParamsNumber ==
    ASSUME disk \in Disks, NEW a \in Address \cup {NoCmd.a}
    PROVE  GetParams(a).lba \in Nat
<1>1. CASE a.mode = "lba"
  <2>1. a.n \in Nat
    BY <1>1, AddressAssumption, LbaAssumption DEF NoCmd
  <2> QED
    BY <1>1, <2>1 DEF GetParams, Start
<1>2. CASE a.mode # "lba"
  <2>1. a.c \in Nat /\ a.h \in Nat /\ a.s \in Nat
    BY <1>2, AddressAssumption DEF NoCmd
  <2>2. disk.geo.h \in Nat /\ disk.geo.s \in Nat
    BY DEF Disks, Geometries
  <2>3. a.c * disk.geo.h \in Nat
    BY <2>1, <2>2, TimesAssociates
  <2>4. (a.c * disk.geo.h + a.h) * disk.geo.s \in Nat
    BY <2>1, <2>2, <2>3, TimesAssociates
  <2>5. Chs2Lba(a.c, a.h, a.s) \in Nat
    BY <2>1, <2>4, LbaAssumption DEF Chs2Lba
  <2> QED
    BY <1>2, <2>5 DEF GetParams
<1> QED
  BY <1>1, <1>2

LEMMA SmallerInt ==
    ASSUME NEW a \in Int, NEW b \in Int
    PROVE  Smaller(a, b) \in Int /\ Larger(a, b) \in Int
BY DEF Smaller, Larger

LEMMA MinusInt ==
    ASSUME NEW a \in Int, NEW b \in Int
    PROVE  a - b \in Int
OBVIOUS

\* Where a command seeks to is a number as well.
LEMMA SeekToNumber ==
    ASSUME disk \in Disks, NEW c, NEW l \in Nat
    PROVE  SeekTo(c, l) - disk.offset \in Int
<1>1. disk.offset \in Int /\ l \in Int
  BY DEF Disks
<1>2. Larger(l, disk.offset) \in Int
  BY <1>1, SmallerInt
<1>3. SeekTo(c, l) \in Int
  BY <1>2 DEF SeekTo
<1> QED
  BY <1>1, <1>3, MinusInt

LEMMA CountNumber ==
    ASSUME NEW n \in Nat
    PROVE  SectorCount(n) \in Nat
BY CountAssumption DEF SectorCount

-----------------------------------------------------------------------------
(* The helpers of the driver keep the invariant.                            *)

\* A seek may make the image longer.
LEMMA SeekKeeps ==
    ASSUME CapacityInv, NEW p \in Int, SeekFile(p)
    PROVE  disk' \in Disks /\ CapacityThere' /\ fpos' \in Int
<1>1. CASE disk.format = "MMC"
  BY <1>1 DEF SeekFile, CapacityInv, CapacityThere
<1>2. CASE disk.format # "MMC"
  <2>1. fpos' \in Int
    BY <1>2, SmallerInt, LbaAssumption DEF SeekFile, CapacityInv, Disks
  <2> QED
    BY <1>2, <2>1, GrownFits DEF SeekFile, CapacityInv
<1> QED
  BY <1>1, <1>2

\* What is written makes it longer, too.
LEMMA WriteKeeps ==
    ASSUME CapacityInv, WriteBuf
    PROVE  disk' \in Disks /\ CapacityThere' /\ fpos' \in Int /\ buf' \in Sectors
<1>1. Len(buf) \in Nat
  BY DEF CapacityInv, Sectors
<1>2. buf' \in Sectors
  BY DEF WriteBuf, Sectors
<1>3. CASE disk.format = "MMC"
  BY <1>2, <1>3 DEF WriteBuf, CapacityInv, CapacityThere
<1>4. CASE disk.format # "MMC"
  <2>1. Smaller(Len(buf), Room - fpos) \in Int
    BY <1>1, SmallerInt, LbaAssumption DEF CapacityInv
  <2>2. fpos' \in Int
    BY <1>4, <2>1 DEF WriteBuf, CapacityInv
  <2> QED
    BY <1>2, <1>4, <2>2, GrownFits DEF WriteBuf, CapacityInv
<1> QED
  BY <1>3, <1>4

LEMMA SendKeeps ==
    ASSUME CapacityInv, NEW i \in Int, Send(i)
    PROVE  fpos' \in Int
<1>1. disk.size \in Int /\ fpos \in Int
  BY DEF CapacityInv, Disks
<1>2. disk.size - Smaller(fpos, disk.size) \in Int
  <2>1. Smaller(fpos, disk.size) \in Int
    BY <1>1, SmallerInt
  <2> QED
    BY <1>1, <2>1, MinusInt
<1>3. Smaller(i, disk.size - Smaller(fpos, disk.size)) \in Int
  BY <1>2, SmallerInt
<1> QED
  BY <1>1, <1>3 DEF Send

LEMMA FetchKeeps ==
    ASSUME CapacityInv, Fetch
    PROVE  buf' \in Sectors
<1>1. Len(buf) \in Nat /\ SectorCount(cmd.count) \in Nat
  BY CountNumber DEF CapacityInv, Sectors, Commands
<1> DEFINE got == SectorCount(cmd.count) - left + Len(buf)
<1>2. got + 1 \in Int \cup {"stale"}
  BY <1>1 DEF CapacityInv
<1>3. buf' = Append(buf, got + 1) \/ buf' = Append(buf, "stale")
  BY DEF Fetch
<1> HIDE DEF got
<1>4. buf \in Seq(Int \cup {"stale"})
  BY DEF CapacityInv, Sectors
<1> QED
  BY <1>2, <1>3, <1>4 DEF Sectors

\* A burst is a number of sectors.
LEMMA BurstNumber ==
    ASSUME CapacityInv, pc = "msend"
    PROVE  Burst \in Int
<1>1. Smaller(block, MaxBurst) \in Int
  BY SmallerInt, BurstAssumption DEF CapacityInv
<1>2. disk.offset - at \in Int
  BY DEF CapacityInv, Disks
<1> QED
  BY <1>1, <1>2, SmallerInt DEF Burst

-----------------------------------------------------------------------------
(* One step per action.                                                     *)

LEMMA DriverKeeps ==
    ASSUME CapacityInv, Driver
    PROVE  CapacityInv'
<1> USE DEF CapacityInv, CapacityThere, core, host, loop, history
<1>1. CASE Abort
  BY <1>1 DEF Abort, Accept
<1>2. CASE Simple
  BY <1>2 DEF Simple, Accept, Commands
<1>3. CASE BeginData
  <2>1. GetParams(tf.a).lba \in Nat
    BY ParamsNumber DEF Commands
  <2>2. SeekTo(tf, GetParams(tf.a).lba) - disk.offset \in Int
    BY <2>1, SeekToNumber
  <2>3. disk' \in Disks /\ CapacityThere' /\ fpos' \in Int
    BY <1>3, <2>2, SeekKeeps DEF BeginData
  <2>4. SectorCount(tf.count) \in Nat
    BY CountNumber DEF Commands
  <2>5. /\ left' \in Int /\ block' \in Int /\ at' \in Int
        /\ buf' \in Sectors
    BY <1>3, <2>1, <2>4 DEF BeginData, Sectors
  <2>6. spb' = spb /\ tf' = tf /\ cmd' = tf
    BY <1>3 DEF BeginData, Accept
  <2> QED
    BY <2>3, <2>5, <2>6
<1>4. CASE Return
  BY <1>4 DEF Return, Sectors
<1>5. CASE RWait
  BY <1>5 DEF RWait
<1>6. CASE RUpdate
  BY <1>6 DEF RUpdate
<1>7. CASE RSend
  <2>1. fpos' \in Int
    BY <1>7, SendKeeps DEF RSend
  <2> QED
    BY <1>7, <2>1 DEF RSend
<1>8. CASE MBlock
  BY <1>8, SmallerInt DEF MBlock
<1>9. CASE MWait
  BY <1>9 DEF MWait
<1>10. CASE MSend
  <2>1. Burst \in Int
    BY <1>10, BurstNumber DEF MSend
  <2>2. fpos' \in Int
    BY <1>10, <2>1, SendKeeps DEF MSend
  <2>3. (at + Burst) % LbaMod \in Int
    BY <1>10, <2>1, LbaAssumption DEF MSend
  <2> QED
    BY <1>10, <2>1, <2>2, <2>3 DEF MSend
<1>11. CASE WFetch
  <2>1. buf' \in Sectors
    BY <1>11, FetchKeeps DEF WFetch
  <2> QED
    BY <1>11, <2>1 DEF WFetch
<1>12. CASE WUpdate
  BY <1>12 DEF WUpdate
<1>13. CASE WFile
  <2>1. disk' \in Disks /\ CapacityThere' /\ fpos' \in Int /\ buf' \in Sectors
    BY <1>13, WriteKeeps DEF WFile
  <2> QED
    BY <1>13, <2>1 DEF WFile
<1>14. CASE XBlock
  BY <1>14, SmallerInt DEF XBlock
<1>15. CASE XFetch
  <2>1. buf' \in Sectors
    BY <1>15, FetchKeeps DEF XFetch
  <2> QED
    BY <1>15, <2>1 DEF XFetch
<1>16. CASE XWrite
  <2>1. disk' \in Disks /\ CapacityThere' /\ fpos' \in Int /\ buf' \in Sectors
    BY <1>16, WriteKeeps DEF XWrite
  <2>2. Len(buf) \in Nat
    BY DEF Sectors
  <2> QED
    BY <1>16, <2>1, <2>2 DEF XWrite
<1>17. CASE XUpdate
  BY <1>17 DEF XUpdate
<1> QED
  BY <1>1, <1>2, <1>3, <1>4, <1>5, <1>6, <1>7, <1>8, <1>9, <1>10, <1>11, <1>12, <1>13,
     <1>14, <1>15, <1>16, <1>17 DEF Driver

LEMMA OthersKeep ==
    ASSUME CapacityInv, Host \/ Command \/ UNCHANGED vars
    PROVE  CapacityInv'
<1> USE DEF CapacityInv, CapacityThere, core, host, loop, history
<1>1. CASE Host
  BY <1>1 DEF Host, HostReads, HostWrites, HostGivesUp
<1>2. CASE Command
  <2>1. PICK c \in Data \cup Plain \cup {"SET_MULTIPLE"}, a \in Address \cup {NoCmd.a},
             n \in Nat : CoreCommand(c, a, n)
    BY <1>2, CountAssumption DEF Command
  <2>2. tf' = [cmd |-> c, a |-> a, count |-> n]
    BY <2>1 DEF CoreCommand
  <2>3. tf' \in Commands
    BY <2>2 DEF Commands
  <2> QED
    BY <2>1, <2>3 DEF CoreCommand
<1>3. CASE UNCHANGED vars
  BY <1>3 DEF vars
<1> QED
  BY <1>1, <1>2, <1>3

\* A change of the medium is an insertion.
LEMMA MediumKeeps ==
    ASSUME MediaSized, CapacityInv, ChangeMedium
    PROVE  CapacityInv'
<1>1. disk' \in Disks /\ CapacityThere'
  BY InsertedFits DEF ChangeMedium, CapacityThere
<1> QED
  BY <1>1 DEF ChangeMedium, CapacityInv, core, host, loop

-----------------------------------------------------------------------------
(* The result.                                                              *)

\* Whatever is inserted, with all sizes up to 127 GB and however the 16 bits of the
\* cylinders wrap, and whatever commands follow: the geometry that the driver makes
\* up and IDENTIFY reports holds no sector that is not there.
THEOREM CapacityCorrect ==
    ASSUME MediaSized
    PROVE  Spec => []CapacityThere
<1>1. Init => CapacityInv
  <2> SUFFICES ASSUME Init PROVE CapacityInv
    OBVIOUS
  <2>1. disk \in Disks /\ CapacityThere
    BY InsertedFits DEF Init, CapacityThere
  <2>2. NoCmd \in Commands
    BY DEF NoCmd, Commands
  <2> QED
    BY <2>1, <2>2 DEF Init, CapacityInv, Sectors
<1>2. CapacityInv /\ [Next]_vars => CapacityInv'
  BY DriverKeeps, OthersKeep, MediumKeeps DEF Next
<1>3. CapacityInv => CapacityThere
  BY DEF CapacityInv
<1> QED
  BY <1>1, <1>2, <1>3, PTL DEF Spec

-----------------------------------------------------------------------------
(* Sector numbers: the arithmetic of addresses, and IncParams.              *)

\* The rest is smaller than the divisor.
LEMMA ModRange ==
    ASSUME NEW n \in Nat, NEW d \in Nat \ {0}
    PROVE  (n % d) \in 0 .. d - 1 /\ n = (n \div d) * d + (n % d)
OBVIOUS

\* A rest that is one is found.
LEMMA ModUnique ==
    ASSUME NEW q \in Nat, NEW d \in Nat \ {0}, NEW r \in 0 .. d - 1
    PROVE  (q * d + r) % d = r
OBVIOUS

\* A number below the divisor is its own rest.
LEMMA ModSmall ==
    ASSUME NEW a \in Nat, NEW d \in Nat \ {0}, a < d
    PROVE  a % d = a
OBVIOUS

\* A rest may be taken at once or at the end.
LEMMA ModAdd ==
    ASSUME NEW a \in Nat, NEW k \in Nat, NEW d \in Nat \ {0}
    PROVE  ((a % d) + k) % d = (a + k) % d
<1>1. PICK q \in Nat, r \in 0 .. d - 1 : a = q * d + r /\ a % d = r
  BY DivTimes, ModRange
<1>2. r + k \in Nat
  OBVIOUS
<1>3. PICK p \in Nat, m \in 0 .. d - 1 : r + k = p * d + m /\ (r + k) % d = m
  BY <1>2, DivTimes, ModRange
<1>4. a + k = (q + p) * d + m /\ q + p \in Nat
  <2>1. (q + p) * d = q * d + p * d /\ q * d \in Nat /\ p * d \in Nat
    OBVIOUS
  <2> QED
    BY <1>1, <1>3, <2>1
<1>5. (a + k) % d = m
  BY <1>4, ModUnique
<1> QED
  BY <1>1, <1>3, <1>5
OnDisk(x) ==
    /\ x \in [mode : {"lba", "chs"}, c : Nat, h : 0 .. 15, s : 0 .. 255, lba : 0 .. LbaMod - 1]
    /\ x.mode = "chs" => /\ x.lba = Chs2Lba(x.c, x.h, x.s)
                         /\ x.h < disk.geo.h /\ x.s <= disk.geo.s

\* The sector behind the last one of a track, or of a cylinder, is the first of the
\* next.
LEMMA ChsSteps ==
    ASSUME NEW H \in Nat, NEW S \in Nat, NEW c \in Nat, NEW h \in Nat
    PROVE  /\ (c * H + h) * S \in Nat
           /\ (c * H + (h + 1)) * S = (c * H + h) * S + S
           /\ h + 1 = H => ((c + 1) * H + 0) * S = (c * H + h) * S + S
<1>1. c * H \in Nat /\ (c + 1) * H = c * H + H
  OBVIOUS
<1> DEFINE k == c * H + h
<1>2. k \in Nat
  BY <1>1
<1>3. c * H + (h + 1) = k + 1 /\ (h + 1 = H => (c + 1) * H + 0 = k + 1)
  BY <1>1
<1> HIDE DEF k
<1>4. (k + 1) * S = k * S + S /\ k * S \in Nat
  BY <1>2
<1> QED
  BY <1>3, <1>4 DEF k

\* Before the last sector of a track, there is one more.
LEMMA StillOnTrack ==
    ASSUME NEW a \in 0 .. 255, NEW S \in 1 .. 255, a <= S, a # S
    PROVE  a + 1 \in 0 .. 255 /\ a + 1 <= S
OBVIOUS

\* Drv08_IncParams goes to the next sector, in both ways of addressing, and the
\* cylinder, head and sector stay those of the sector number.
LEMMA IncKeeps ==
    ASSUME disk \in Disks, NEW x, OnDisk(x)
    PROVE  OnDisk(IncParams(x)) /\ IncParams(x).lba = (x.lba + 1) % LbaMod
<1> DEFINE l == (x.lba + 1) % LbaMod
           y == [x EXCEPT !.lba = (@ + 1) % LbaMod]
           H == disk.geo.h
           S == disk.geo.s
<1>1. l \in 0 .. LbaMod - 1 /\ x.lba \in Nat
  BY LbaAssumption, ModRange DEF OnDisk
<1>2. y = [mode |-> x.mode, c |-> x.c, h |-> x.h, s |-> x.s, lba |-> l]
  BY DEF OnDisk
<1>3. CASE x.mode = "lba"
  BY <1>1, <1>2, <1>3 DEF IncParams, OnDisk
<1>4. CASE x.mode # "lba"
  <2>1. x.mode = "chs" /\ H \in 1 .. 16 /\ S \in 1 .. 255
    BY <1>4 DEF OnDisk, Disks, Geometries
  <2> DEFINE k == (x.c * H + x.h) * S
  <2>2. x.c \in Nat /\ x.h \in Nat /\ x.s \in Nat /\ H \in Nat /\ S \in Nat
    BY <2>1 DEF OnDisk
  <2>9. /\ k \in Nat /\ (x.c * H + (x.h + 1)) * S = k + S
        /\ x.h + 1 = H => ((x.c + 1) * H + 0) * S = k + S
    <3> HIDE DEF H, S
    <3> QED
      BY <2>2, ChsSteps
  <2>3. x.lba = (k + x.s + LbaMod - 1) % LbaMod
    BY <2>1 DEF OnDisk, Chs2Lba
  <2>4. k + x.s + LbaMod - 1 \in Nat
    BY <2>2, <2>9, LbaAssumption
  <2>5. l = (k + x.s + LbaMod - 1 + 1) % LbaMod
    BY <2>3, <2>4, ModAdd, LbaAssumption
  <2>10. x.mode = "chs" /\ x.c \in Nat /\ x.h \in 0 .. 15 /\ l \in 0 .. LbaMod - 1
    BY <1>1, <2>1 DEF OnDisk
  <2>11. x.s \in 0 .. 255 /\ x.s <= S /\ x.h < disk.geo.h
    BY <2>1 DEF OnDisk
  <2>6. CASE x.s # S
    <3>1. IncParams(x) = [mode |-> x.mode, c |-> x.c, h |-> x.h, s |-> x.s + 1, lba |-> l]
      BY <1>2, <1>4, <2>6 DEF IncParams
    <3>2. Chs2Lba(x.c, x.h, x.s + 1) = (k + (x.s + 1) + LbaMod - 1) % LbaMod
      BY DEF Chs2Lba
    <3>3. k + (x.s + 1) + LbaMod - 1 = k + x.s + LbaMod - 1 + 1
      BY <2>2, <2>9, LbaAssumption
    <3>4. Chs2Lba(x.c, x.h, x.s + 1) = l
      BY <2>5, <3>2, <3>3
    <3>5. x.s + 1 \in 0 .. 255 /\ x.s + 1 <= disk.geo.s /\ x.h < disk.geo.h
      BY <2>1, <2>6, <2>11, StillOnTrack
    <3> HIDE DEF l, k, y
    <3> QED
      BY <2>10, <3>1, <3>4, <3>5 DEF OnDisk, l
  <2>7. CASE x.s = S /\ x.h + 1 # H
    <3>1. IncParams(x) = [mode |-> x.mode, c |-> x.c, h |-> x.h + 1, s |-> 1, lba |-> l]
      BY <1>2, <1>4, <2>7 DEF IncParams
    <3>2. Chs2Lba(x.c, x.h + 1, 1) = ((x.c * H + (x.h + 1)) * S + 1 + LbaMod - 1) % LbaMod
      BY DEF Chs2Lba
    <3>3. (x.c * H + (x.h + 1)) * S = k + S
      BY <2>9
    <3>4. k + S + 1 + LbaMod - 1 = k + x.s + LbaMod - 1 + 1
      BY <2>1, <2>2, <2>7, <2>9, LbaAssumption
    <3>5. Chs2Lba(x.c, x.h + 1, 1) = l
      BY <2>5, <3>2, <3>3, <3>4
    <3> HIDE DEF l, k, y
    <3> QED
      BY <1>1, <2>1, <2>7, <3>1, <3>5 DEF OnDisk, l
  <2>8. CASE x.s = S /\ x.h + 1 = H
    <3>1. IncParams(x) = [mode |-> x.mode, c |-> x.c + 1, h |-> 0, s |-> 1, lba |-> l]
      BY <1>2, <1>4, <2>8 DEF IncParams
    <3>2. Chs2Lba(x.c + 1, 0, 1) = (((x.c + 1) * H + 0) * S + 1 + LbaMod - 1) % LbaMod
      BY DEF Chs2Lba
    <3>3. ((x.c + 1) * H + 0) * S = k + S
      BY <2>8, <2>9
    <3>4. k + S + 1 + LbaMod - 1 = k + x.s + LbaMod - 1 + 1
      BY <2>1, <2>2, <2>8, <2>9, LbaAssumption
    <3>5. Chs2Lba(x.c + 1, 0, 1) = l
      BY <2>5, <3>2, <3>3, <3>4
    <3> HIDE DEF l, k, y
    <3> QED
      BY <1>1, <2>1, <2>8, <3>1, <3>5 DEF OnDisk, l
  <2> QED
    BY <2>6, <2>7, <2>8
<1> QED
  BY <1>3, <1>4

-----------------------------------------------------------------------------
(* Many sectors further.                                                    *)

\* The sectors that lie k further.
Steps(x, n, f) ==
    f = [k \in 0 .. n |-> IF k = 0 THEN x ELSE IncParams(f[k - 1])]

\* There are such sectors, for every n: otherwise there is a smallest n without.
LEMMA StepsFound ==
    ASSUME NEW x, NEW n \in Nat
    PROVE  \E f : Steps(x, n, f)
<1> DEFINE T == {m \in Nat : ~\E f : Steps(x, m, f)}
<1>1. SUFFICES ASSUME T # {} PROVE FALSE
  BY <1>1
<1>2. PICK m \in T : \A k \in T : m <= k
  <2>1. T \subseteq Nat
    OBVIOUS
  <2> HIDE DEF T
  <2> QED
    BY <1>1, <2>1, SmallestFound
<1>3. m \in Nat /\ ~\E f : Steps(x, m, f)
  BY <1>2
<1>4. m # 0
  <2>1. Steps(x, 0, [k \in 0 .. 0 |-> x])
    BY DEF Steps
  <2> QED
    BY <1>3, <2>1
<1>5. m - 1 \in Nat /\ m - 1 \notin T
  BY <1>2, <1>3, <1>4
<1>6. PICK f : Steps(x, m - 1, f)
  BY <1>5
<1> DEFINE g == [k \in 0 .. m |-> IF k = m THEN IncParams(f[m - 1]) ELSE f[k]]
<1>7. \A k \in 0 .. m - 1 : f[k] = IF k = 0 THEN x ELSE IncParams(f[k - 1])
  BY <1>6 DEF Steps
<1>8. ASSUME NEW k \in 0 .. m PROVE g[k] = IF k = 0 THEN x ELSE IncParams(g[k - 1])
  <2>1. CASE k = m
    <3>1. g[k - 1] = f[m - 1]
      BY <1>3, <1>4, <2>1
    <3> QED
      BY <1>4, <2>1, <3>1
  <2>2. CASE k # m
    <3>1. k \in 0 .. m - 1 /\ g[k] = f[k]
      BY <1>3, <2>2
    <3>2. k # 0 => g[k - 1] = f[k - 1]
      BY <1>3, <2>2
    <3> QED
      BY <1>7, <3>1, <3>2
  <2> QED
    BY <2>1, <2>2
<1>9. Steps(x, m, g)
  <2>1. g = [k \in 0 .. m |-> g[k]]
    OBVIOUS
  <2>2. g = [k \in 0 .. m |-> IF k = 0 THEN x ELSE IncParams(g[k - 1])]
    BY <1>8
  <2> HIDE DEF g
  <2> QED
    BY <2>2 DEF Steps
<1> QED
  BY <1>3, <1>9

\* Each of them is as many sectors further as its index says.
LEMMA StepsKeep ==
    ASSUME disk \in Disks, NEW x, OnDisk(x), NEW n \in Nat, NEW f, Steps(x, n, f)
    PROVE  \A k \in 0 .. n : OnDisk(f[k]) /\ f[k].lba = (x.lba + k) % LbaMod
<1> DEFINE Right(k) == OnDisk(f[k]) /\ f[k].lba = (x.lba + k) % LbaMod
           T == {k \in 0 .. n : ~Right(k)}
<1>1. SUFFICES ASSUME T # {} PROVE FALSE
  BY <1>1
<1>2. PICK m \in T : \A k \in T : m <= k
  <2>1. T \subseteq Nat
    OBVIOUS
  <2> HIDE DEF T
  <2> QED
    BY <1>1, <2>1, SmallestFound
<1>3. m \in 0 .. n /\ ~Right(m)
  BY <1>2
<1>4. \A k \in 0 .. n : f[k] = IF k = 0 THEN x ELSE IncParams(f[k - 1])
  BY DEF Steps
<1>5. x.lba \in 0 .. LbaMod - 1
  BY DEF OnDisk
<1>6. CASE m = 0
  <2>1. f[m] = x
    BY <1>3, <1>4, <1>6
  <2>2. (x.lba + 0) % LbaMod = x.lba
    BY <1>5, LbaAssumption
  <2> QED
    BY <1>3, <1>6, <2>1, <2>2
<1>7. CASE m # 0
  <2>1. m - 1 \in 0 .. n /\ m \in Nat
    BY <1>3, <1>7
  <2>2. Right(m - 1)
    <3>1. m - 1 \notin T
      BY <1>2, <2>1
    <3> QED
      BY <2>1, <3>1
  <2>3. f[m] = IncParams(f[m - 1])
    BY <1>3, <1>4, <1>7
  <2>4. OnDisk(f[m]) /\ f[m].lba = (((x.lba + (m - 1)) % LbaMod) + 1) % LbaMod
    BY <2>2, <2>3, IncKeeps
  <2>5. x.lba + (m - 1) \in Nat /\ x.lba + (m - 1) + 1 = x.lba + m
    BY <1>5, <1>7, <2>1, LbaAssumption
  <2>6. f[m].lba = (x.lba + m) % LbaMod
    BY <2>4, <2>5, ModAdd, LbaAssumption
  <2> QED
    BY <1>3, <2>4, <2>6
<1> QED
  BY <1>6, <1>7

\* n sectors further, or n - 1 when the first one is where the command begins.
LEMMA AdvancedRight ==
    ASSUME disk \in Disks, NEW x, OnDisk(x), NEW n \in Nat, NEW isFirst \in BOOLEAN
    PROVE  /\ OnDisk(Advanced(x, n, isFirst))
           /\ Advanced(x, n, isFirst).lba =
                 (x.lba + (IF isFirst /\ n > 0 THEN n - 1 ELSE n)) % LbaMod
<1> DEFINE f == CHOOSE f : Steps(x, n, f)
           k == IF isFirst /\ n > 0 THEN n - 1 ELSE n
<1>1. Steps(x, n, f)
  BY StepsFound
<1>2. Advanced(x, n, isFirst) = f[k]
  BY DEF Advanced, Steps
<1>3. k \in 0 .. n
  OBVIOUS
<1> HIDE DEF f, k
<1>4. OnDisk(f[k]) /\ f[k].lba = (x.lba + k) % LbaMod
  BY <1>1, <1>3, StepsKeep
<1> QED
  BY <1>2, <1>4 DEF k

-----------------------------------------------------------------------------
(* What is kept: the drive, the command that runs, and where it is.         *)

\* A host that knows the geometry gives no head and sector outside of it (sector 0,
\* which it may give by mistake, is none of them).
Addressed ==
    \A m \in Medium, a \in Address :
        m.format # "none" /\ a.mode = "chs" =>
            a.h < Insert(m).geo.h /\ a.s <= Insert(m).geo.s

\* Every sector of an image has a number, with the made-up RDB before it.
RoomAddressed == \A m \in Medium : m.format # "MMC" => Insert(m).offset + Room < LbaMod

\* The sector of an address, with the geometry g.
LbaOf(g, a) ==
    IF a.mode = "lba" THEN a.n
    ELSE ((a.c * g.h + a.h) * g.s + a.s + LbaMod - 1) % LbaMod

\* An address that IncParams has kept together.
OnTrack(x, g) ==
    /\ x \in [mode : {"lba", "chs"}, c : Nat, h : 0 .. 15, s : 0 .. 255, lba : 0 .. LbaMod - 1]
    /\ x.mode = "chs" => /\ x.lba = ((x.c * g.h + x.h) * g.s + x.s + LbaMod - 1) % LbaMod
                         /\ x.h < g.h /\ x.s <= g.s

Begin == LbaOf(disk.geo, cmd.a)
Nth(l, n) == (l + n - 1) % LbaMod
Total == SectorCount(cmd.count)
Moved == Total - left

PlaceOf(format, offset, l) ==
    IF format = "MMC" THEN <<"card", (l + offset) % LbaMod>>
    ELSE IF l < offset THEN <<"rdb", l % 3>>
    ELSE <<"file", l - offset>>

Place == {"card", "rdb", "file"} \X Int

Given(c) ==
    /\ c \in Commands
    /\ c.cmd \in Data => c.a \in Address /\ c.count \in 0 .. MaxCount - 1
    /\ c.cmd = "SET_MULTIPLE" => c.count \in Multiple

DiskRight(d) ==
    /\ d \in Disks
    /\ d.format # "MMC" => d.size \in 0 .. Room /\ d.offset + Room < LbaMod
    /\ d.format # "none" =>
          \A a \in Address : a.mode = "chs" => a.h < d.geo.h /\ a.s <= d.geo.s

DriveInv ==
    /\ DiskRight(disk)
    /\ spb \in Multiple \cup {0}
    /\ Given(tf) /\ Given(cmd)

Reading == {"rwait", "rupdate", "rsend", "mblock", "mwait", "msend"}
Writing == {"wfetch", "wupdate", "wfile", "xblock", "xfetch", "xwrite", "xupdate"}

TypeInv ==
    /\ busy \in BOOLEAN /\ req \in BOOLEAN /\ first \in BOOLEAN /\ failed \in BOOLEAN
    /\ fifo \in Nat /\ drained \in Nat /\ granted \in Nat /\ pushed \in 0 .. granted
    /\ pc \in {"idle", "return"} \cup Reading \cup Writing
    /\ left \in 0 .. MaxCount /\ block \in 0 .. left /\ fpos \in 0 .. Room
    /\ at \in 0 .. LbaMod - 1
    /\ buf \in Seq(Int) /\ sent \in Seq(Place) /\ written \in Seq(Place \X Int)
    /\ pc = "idle" => adr = Start
    /\ pc # "idle" => OnTrack(adr, disk.geo) /\ cmd.cmd \in Data /\ left <= Total

Active == pc \in Reading \cup Writing /\ (pc = "wfile" => left # 0)

CoreInv ==
    /\ req => busy /\ fifo = 0 /\ drained = 0 /\ granted = 0 /\ pushed = 0
    /\ Active => busy /\ ~req /\ tf = cmd
    /\ granted <= SectorCount(tf.count)
    /\ fifo <= MaxBurst + 1
    /\ pc \in {"rupdate", "rsend", "msend"} => fifo <= 1
    /\ pc \in Reading => drained + fifo <= Moved
    /\ Active /\ pc \in Writing => fifo = 0

LoopInv ==
    /\ pc \in Reading \cup Writing => disk.format # "none"
    /\ pc \in (Reading \cup Writing) \ {"wfile", "xupdate"} => left >= 1
    /\ pc = "return" => left = 0
    /\ pc \in {"mblock", "mwait", "msend", "xblock", "xfetch", "xwrite", "xupdate"} => spb >= 1
    /\ pc \in {"mwait", "msend", "xfetch", "xwrite"} => block >= 1
    /\ pc \in {"wfile", "xupdate"} => left < Total
    /\ pc \in {"rwait", "rupdate", "rsend", "wfetch", "wupdate", "wfile"} => block = 0

Behind == {"rwait", "rupdate", "mblock", "wfetch", "wupdate", "xblock", "xfetch", "xwrite"}

AdrInv ==
    /\ pc \in Behind => adr.lba = Nth(Begin, IF first THEN 1 ELSE Moved)
    /\ pc \in Behind => (first <=> Moved = 0)
    /\ pc \notin Behind /\ pc # "idle" => ~first
    /\ pc = "rsend" => adr.lba = Nth(Begin, Moved + 1)
    /\ pc \in {"mwait", "msend"} => adr.lba = Nth(Begin, Moved + block)
    /\ pc \in {"wfile", "xupdate", "return"} => adr.lba = Nth(Begin, Moved)

Index == IF pc = "wfile" THEN Moved ELSE Moved + 1

AtInv ==
    pc \in (Reading \cup Writing) \ {"rwait", "rupdate"} => at = Nth(Begin, Index)

\* The file is where sector l is, or at its end.
ReadsAt(d, p, l) == p = Larger(l, d.offset) - d.offset \/ p >= d.size

\* The file is where sector l is, or as long as it may be.
WritesAt(d, p, l) == l >= d.offset /\ p = Smaller(l - d.offset, Room)

FileInv ==
    ~failed /\ disk.format # "MMC" =>
        /\ pc \in Reading => ReadsAt(disk, fpos, Nth(Begin, Moved + 1))
        /\ pc \in Writing /\ (pc = "xupdate" => left # 0) => WritesAt(disk, fpos, Nth(Begin, Index))

RegsInv ==
    /\ req => regs = tf.a
    /\ ~req /\ pc \in (Reading \cup {"wfetch", "wupdate", "wfile", "return"}) =>
          LbaOf(disk.geo, regs) = adr.lba
    /\ ~req /\ pc = "idle" /\ (sent # << >> \/ written # << >>) =>
          LbaOf(disk.geo, regs) = Nth(Begin, Total)

SentRight ==
    \A n \in 1 .. Len(sent) : sent[n] = PlaceOf(disk.format, disk.offset, Nth(Begin, n))

WrittenRight ==
    \A n \in 1 .. Len(written) :
        written[n] = <<PlaceOf(disk.format, disk.offset, Nth(Begin, n)), n>>

HistInv ==
    /\ ~failed =>
          /\ SentRight /\ WrittenRight
          /\ pc \in Reading => Len(sent) = Moved
          /\ pc \in Writing => Len(written) + 1 = Index
          /\ pc \in {"idle", "return"} /\ written # << >> => Len(written) = Total
    /\ pc \in Reading => written = << >>

\* What is in the buffer are the sectors of the host behind the first n.
Fetched(b, n) == \A j \in 1 .. Len(b) : b[j] = n + j

BufInv ==
    /\ pc \in {"wfetch", "xblock", "xupdate"} => buf = << >>
    /\ pc \in {"wupdate", "wfile"} => Len(buf) = 1
    /\ pc = "xfetch" => Len(buf) < Smaller(block, MaxBlocks)
    /\ pc = "xwrite" => Len(buf) = Smaller(block, MaxBlocks)
    /\ pc \in Writing => Fetched(buf, Index - 1)

IInv == /\ DriveInv /\ TypeInv /\ CoreInv /\ LoopInv /\ AdrInv /\ AtInv
        /\ FileInv /\ RegsInv /\ HistInv /\ BufInv

-----------------------------------------------------------------------------
(* Lemmas about addresses.                                                  *)

\* k sectors behind sector n of a command is its sector n + k.
LEMMA NthStep ==
    ASSUME NEW l \in Nat, NEW n \in Nat \ {0}, NEW k \in Nat
    PROVE  (Nth(l, n) + k) % LbaMod = Nth(l, n + k)
<1>1. l + n - 1 \in Nat /\ l + n - 1 + k = l + (n + k) - 1
  OBVIOUS
<1> DEFINE a == l + n - 1
<1>2. ((a % LbaMod) + k) % LbaMod = (a + k) % LbaMod
  <2> HIDE DEF a
  <2> QED
    BY <1>1, ModAdd, LbaAssumption DEF a
<1>3. Nth(l, n) = a % LbaMod /\ Nth(l, n + k) = (a + k) % LbaMod
  BY <1>1 DEF Nth
<1> QED
  BY <1>2, <1>3

\* A sector of a command is one of the disk, and the first is where it begins.
LEMMA NthRange ==
    ASSUME NEW l \in Nat, NEW n \in Nat \ {0}
    PROVE  /\ Nth(l, n) \in 0 .. LbaMod - 1
           /\ l \in 0 .. LbaMod - 1 => Nth(l, 1) = l
<1>1. l + n - 1 \in Nat /\ l + 1 - 1 = l
  OBVIOUS
<1>2. l \in 0 .. LbaMod - 1 => l % LbaMod = l
  BY LbaAssumption
<1> QED
  BY <1>1, <1>2, ModRange, LbaAssumption DEF Nth

\* A command has a sector at least, and MaxCount at most.
LEMMA CountRange ==
    ASSUME NEW n \in Nat
    PROVE  SectorCount(n) \in Nat \ {0} /\ (n < MaxCount => SectorCount(n) <= MaxCount)
BY CountAssumption DEF SectorCount

\* An address that the host gave, for a disk with a geometry.
LEMMA ParamsRange ==
    ASSUME disk \in Disks, NEW a \in Address \cup {NoCmd.a}
    PROVE  GetParams(a).lba \in 0 .. LbaMod - 1
<1>1. CASE a.mode = "lba"
  <2>1. a.n \in 0 .. LbaMod - 1
    BY <1>1, AddressAssumption, LbaAssumption DEF NoCmd
  <2> QED
    BY <1>1, <2>1 DEF GetParams, Start
<1>2. CASE a.mode # "lba"
  <2>1. a.c \in Nat /\ a.h \in Nat /\ a.s \in Nat
    BY <1>2, AddressAssumption DEF NoCmd
  <2>2. disk.geo.h \in Nat /\ disk.geo.s \in Nat
    BY DEF Disks, Geometries
  <2> DEFINE k == (a.c * disk.geo.h + a.h) * disk.geo.s
  <2>3. k \in Nat
    BY <2>1, <2>2, ChsSteps
  <2>4. k + a.s + LbaMod - 1 \in Nat
    BY <2>1, <2>3, LbaAssumption
  <2>5. Chs2Lba(a.c, a.h, a.s) \in 0 .. LbaMod - 1
    BY <2>4, ModRange, LbaAssumption DEF Chs2Lba
  <2> QED
    BY <1>2, <2>5 DEF GetParams
<1> QED
  BY <1>1, <1>2

\* What Drv08_GetParams computes is the sector of the address.
LEMMA ParamsLba ==
    ASSUME NEW a
    PROVE  GetParams(a).lba = LbaOf(disk.geo, a)
BY DEF GetParams, LbaOf, Chs2Lba, Start

\* To be on the disk is to be on a track of its geometry.
LEMMA OnDiskTrack ==
    ASSUME NEW x
    PROVE  OnDisk(x) <=> OnTrack(x, disk.geo)
BY DEF OnDisk, OnTrack, Chs2Lba

\* The registers that Drv08_UpdateParams writes are those of the sector.
LEMMA ShownLba ==
    ASSUME NEW x, NEW g, OnTrack(x, g)
    PROVE  LbaOf(g, Shown(x)) = x.lba
BY DEF OnTrack, LbaOf, Shown

\* Where a command begins, and how long it is.
LEMMA BeginRange ==
    ASSUME DriveInv
    PROVE  Begin \in 0 .. LbaMod - 1 /\ Total \in Nat \ {0}
<1>1. cmd \in Commands /\ disk \in Disks
  BY DEF DriveInv, DiskRight, Given
<1>2. cmd.a \in Address \cup {NoCmd.a} /\ cmd.count \in Nat
  BY <1>1 DEF Commands
<1>3. Begin = GetParams(cmd.a).lba
  BY ParamsLba DEF Begin
<1> QED
  BY <1>1, <1>2, <1>3, ParamsRange, CountRange DEF Total

\* The address of a command is on the disk.
LEMMA ParamsOnDisk ==
    ASSUME DriveInv, disk.format # "none", NEW a \in Address
    PROVE  OnDisk(GetParams(a))
<1>1. GetParams(a).lba \in 0 .. LbaMod - 1
  BY ParamsRange DEF DriveInv, DiskRight
<1>2. CASE a.mode = "lba"
  BY <1>1, <1>2 DEF OnDisk, GetParams, Start
<1>3. CASE a.mode # "lba"
  <2>1. a.mode = "chs" /\ a.c \in Nat /\ a.h \in 0 .. 15 /\ a.s \in 0 .. 255
    BY <1>3, AddressAssumption
  <2>2. a.h < disk.geo.h /\ a.s <= disk.geo.s
    BY <2>1 DEF DriveInv, DiskRight
  <2>3. GetParams(a) = [mode |-> "chs", c |-> a.c, h |-> a.h, s |-> a.s,
                        lba |-> Chs2Lba(a.c, a.h, a.s)]
    BY <1>3 DEF GetParams
  <2> QED
    BY <1>1, <2>1, <2>2, <2>3 DEF OnDisk
<1> QED
  BY <1>2, <1>3

-----------------------------------------------------------------------------
(* What is sent.                                                            *)

\* What is inserted.
LEMMA InsertedRight ==
    ASSUME MediaSized, Addressed, RoomAddressed, NEW d \in Inserted
    PROVE  /\ d \in Disks
           /\ d.format # "MMC" => d.size \in 0 .. Room /\ d.offset + Room < LbaMod
           /\ d.format # "none" =>
                \A a \in Address : a.mode = "chs" => a.h < d.geo.h /\ a.s <= d.geo.s
<1>1. d \in Disks
  BY InsertedFits
<1>2. PICK m \in Medium : d = Insert(m)
  BY DEF Inserted
<1>3. d.format = m.format /\ d.size = m.size
  BY <1>2 DEF Insert
<1>4. d.format # "MMC" => d.size \in 0 .. Room
  BY <1>3, MediumAssumption, LbaAssumption
<1>5. d.format # "MMC" => d.offset + Room < LbaMod
  BY <1>2, <1>3 DEF RoomAddressed
<1>6. d.format # "none" =>
        \A a \in Address : a.mode = "chs" => a.h < d.geo.h /\ a.s <= d.geo.s
  BY <1>2, <1>3 DEF Addressed
<1> QED
  BY <1>1, <1>4, <1>5, <1>6

\* Where a sector is, without the variables of the drive.
LEMMA WherePlace ==
    ASSUME disk \in Disks, NEW l \in Nat
    PROVE  /\ Where(l) = PlaceOf(disk.format, disk.offset, l)
           /\ Where(l) \in Place
<1>1. disk.offset \in Nat
  BY DEF Disks
<1>2. (l + disk.offset) % LbaMod \in Int
  BY <1>1, ModRange, LbaAssumption
<1>3. l % 3 \in Int /\ l - disk.offset \in Int
  BY <1>1
<1> QED
  BY <1>2, <1>3 DEF Where, PlaceOf, Place

\* Behind the made-up RDB is the file.
LEMMA PlaceInFile ==
    ASSUME NEW format, NEW offset, NEW l, format # "MMC", ~(l < offset)
    PROVE  PlaceOf(format, offset, l) = <<"file", l - offset>>
BY DEF PlaceOf

\* The j-th sector behind one in the file is in the file, too.
LEMMA InFile ==
    ASSUME NEW a \in Nat, NEW i \in Nat, NEW j \in 1 .. i, NEW o \in Nat, NEW d \in Nat,
           a >= o, a + i < d
    PROVE  /\ a + j - 1 \in Nat /\ a + j - 1 < d /\ ~(a + j - 1 < o)
           /\ (a - o) + j - 1 = a + j - 1 - o
OBVIOUS

\* What is sent is what comes next, or the command has failed.
LEMMA SendRight ==
    ASSUME DriveInv, TypeInv, NEW i \in Nat \ {0}, Send(i),
           NEW n \in Nat, at = Nth(Begin, n + 1),
           disk.format # "MMC" /\ at < disk.offset => at + i <= disk.offset,
           ~failed => Len(sent) = n,
           ~failed => SentRight,
           ~failed /\ disk.format # "MMC" => ReadsAt(disk, fpos, at),
           disk' = disk, cmd' = cmd
    PROVE  /\ sent' \in Seq(Place) /\ fifo' \in fifo .. fifo + i
           /\ fpos' \in 0 .. Room /\ failed' \in BOOLEAN
           /\ ~failed' => ~failed /\ Len(sent') = n + i /\ SentRight'
           /\ ~failed' /\ disk.format # "MMC" => ReadsAt(disk', fpos', Nth(Begin, n + i + 1))
<1> DEFINE inFile == disk.format # "MMC" /\ at >= disk.offset
           can == IF inFile THEN Smaller(i, disk.size - Smaller(fpos, disk.size)) ELSE i
           More(k) == [j \in 1 .. k |->
                         IF inFile THEN <<"file", fpos + j - 1>> ELSE Where((at + j - 1) % LbaMod)]
<1>1. /\ disk \in Disks /\ disk.offset \in Nat /\ disk.size \in Nat
      /\ disk.format # "MMC" => disk.size \in 0 .. Room /\ disk.offset + Room < LbaMod
      /\ at \in Nat /\ at < LbaMod /\ fpos \in 0 .. Room /\ Room \in Nat /\ LbaMod \in Nat \ {0}
      /\ fifo \in Nat /\ failed \in BOOLEAN /\ sent \in Seq(Place)
  BY LbaAssumption DEF DriveInv, DiskRight, TypeInv, Disks
<1>2. PICK k \in IF disk.format # "MMC" /\ ~inFile THEN {i} ELSE {can, 0} :
          /\ sent' = sent \o More(k)
          /\ fifo' = fifo + k
          /\ fpos' = IF inFile THEN fpos + k ELSE fpos
          /\ failed' = (failed \/ k # i)
  BY DEF Send
<1>3. /\ k \in 0 .. i
      /\ inFile => fpos + k <= disk.size \/ k = 0
      /\ inFile /\ fpos >= disk.size => k = 0
  BY <1>1, <1>2, SMTT(30) DEF Smaller
<1>4. ASSUME NEW j \in Nat PROVE (at + j) % LbaMod = Nth(Begin, n + 1 + j)
  <2>1. Begin \in Nat /\ n + 1 \in Nat \ {0}
    BY BeginRange
  <2> QED
    BY <2>1, NthStep
<1>5. \A j \in 1 .. k : (at + j - 1) % LbaMod \in Nat
  <2> SUFFICES ASSUME NEW j \in 1 .. k PROVE (at + j - 1) % LbaMod \in Nat
    OBVIOUS
  <2>1. at + j - 1 \in Nat
    BY <1>1, <1>3
  <2> HIDE DEF inFile, can, More
  <2>2. (at + j - 1) % LbaMod \in 0 .. LbaMod - 1
    BY <1>1, <2>1, ModRange
  <2> QED
    BY <1>1, <2>2
<1>6. More(k) \in Seq(Place) /\ Len(More(k)) = k
  <2>1. \A j \in 1 .. k : <<"file", fpos + j - 1>> \in Place
    BY <1>1, <1>3 DEF Place
  <2>2. \A j \in 1 .. k : Where((at + j - 1) % LbaMod) \in Place
    BY <1>1, <1>5, WherePlace
  <2>3. k \in Nat
    BY <1>3
  <2> HIDE DEF inFile, can
  <2>4. \A j \in 1 .. k : More(k)[j] \in Place
    BY <2>1, <2>2
  <2>5. More(k) \in [1 .. k -> Place]
    BY <2>4
  <2> QED
    BY <2>3, <2>5
<1>7. /\ sent' \in Seq(Place) /\ Len(sent') = Len(sent) + k
      /\ \A j \in 1 .. Len(sent) + k :
            sent'[j] = IF j <= Len(sent) THEN sent[j] ELSE More(k)[j - Len(sent)]
  <2> HIDE DEF More
  <2> QED
    BY <1>1, <1>2, <1>6, ConcatProperties
<1>8. fifo' \in fifo .. fifo + i /\ failed' \in BOOLEAN
  BY <1>1, <1>2, <1>3
<1>9. fpos' \in 0 .. Room
  BY <1>1, <1>2, <1>3
<1>10. ASSUME ~failed'
       PROVE  ~failed /\ k = i /\ Len(sent) = n
  BY <1>2, <1>10
<1>11. ASSUME ~failed', disk.format # "MMC", ~inFile
       PROVE  ReadsAt(disk', fpos', Nth(Begin, n + i + 1))
  <2>1. at < disk.offset /\ at + i <= disk.offset
    BY <1>1, <1>11
  <2>2. (at + i) % LbaMod = at + i
    <3>1. at + i \in Nat /\ at + i < LbaMod
      BY <1>1, <1>11, <2>1, SMTT(30)
    <3> QED
      BY <1>1, <3>1, ModSmall
  <2>3. Nth(Begin, n + i + 1) = at + i
    <3>1. n + 1 + i = n + i + 1
      OBVIOUS
    <3> QED
      BY <1>4, <2>2, <3>1
  <2>4. fpos' = fpos /\ ReadsAt(disk, fpos, at)
    BY <1>2, <1>10, <1>11
  <2>5. Larger(at, disk.offset) = disk.offset /\ Larger(at + i, disk.offset) = disk.offset
    BY <1>1, <2>1 DEF Larger
  <2> QED
    BY <2>3, <2>4, <2>5 DEF ReadsAt, Begin
<1>12. ASSUME ~failed', inFile
       PROVE  /\ fpos = at - disk.offset /\ at + i < LbaMod
              /\ ReadsAt(disk', fpos', Nth(Begin, n + i + 1))
  <2>1. k = i /\ ~failed
    BY <1>10, <1>12
  <2>2. ~(fpos >= disk.size) /\ fpos + i <= disk.size
    BY <1>1, <1>3, <1>12, <2>1
  <2>3. fpos = at - disk.offset
    BY <1>1, <1>12, <2>1, <2>2 DEF ReadsAt, Larger
  <2>4. at + i < LbaMod
    BY <1>1, <1>12, <2>2, <2>3, SMTT(30)
  <2>5. (at + i) % LbaMod = at + i
    <3>1. at + i \in Nat
      BY <1>1
    <3> QED
      BY <1>1, <2>4, <3>1, ModSmall
  <2>6. Nth(Begin, n + i + 1) = at + i
    <3>1. n + 1 + i = n + i + 1
      OBVIOUS
    <3> QED
      BY <1>4, <2>5, <3>1
  <2>7. fpos' = at + i - disk.offset
    BY <1>1, <1>2, <1>12, <2>1, <2>3, SMTT(30)
  <2> QED
    BY <1>1, <1>12, <2>3, <2>4, <2>6, <2>7, SMTT(30) DEF Larger, ReadsAt, Begin
<1>13. ASSUME ~failed', NEW j \in 1 .. k
       PROVE  More(k)[j] = PlaceOf(disk.format, disk.offset, Nth(Begin, n + j))
  <2>1. j - 1 \in Nat /\ n + 1 + (j - 1) = n + j /\ at + j - 1 = at + (j - 1)
    BY <1>1, <1>3
  <2>2. (at + j - 1) % LbaMod = Nth(Begin, n + j)
    BY <1>4, <2>1
  <2>3. CASE ~inFile
    <3>1. More(k)[j] = Where((at + j - 1) % LbaMod)
      BY <2>3
    <3> QED
      BY <1>1, <1>5, <2>2, <3>1, WherePlace
  <2>4. CASE inFile
    <3> DEFINE e == at + j - 1
    <3>1. fpos = at - disk.offset /\ at + i < LbaMod /\ k = i
      BY <1>10, <1>12, <1>13, <2>4
    <3>2. e \in Nat /\ e < LbaMod /\ ~(e < disk.offset) /\ fpos + j - 1 = e - disk.offset
      <4>1. at \in Nat /\ i \in Nat /\ disk.offset \in Nat /\ LbaMod \in Nat
        BY <1>1
      <4>2. at >= disk.offset /\ at + i < LbaMod
        BY <2>4, <3>1
      <4>3. j \in 1 .. i
        BY <3>1
      <4> HIDE DEF inFile, can
      <4>4. /\ e \in Nat /\ e < LbaMod /\ ~(e < disk.offset)
            /\ (at - disk.offset) + j - 1 = e - disk.offset
        BY <4>1, <4>2, <4>3, InFile
      <4> QED
        BY <3>1, <4>4
    <3>3. More(k)[j] = <<"file", fpos + j - 1>>
      BY <2>4
    <3>4. e % LbaMod = Nth(Begin, n + j)
      BY <2>2
    <3> HIDE DEF e, More
    <3>5. e = Nth(Begin, n + j)
      BY <1>1, <3>2, <3>4, ModSmall
    <3>6. PlaceOf(disk.format, disk.offset, e) = <<"file", e - disk.offset>>
      BY <2>4, <3>2, PlaceInFile
    <3> QED
      BY <3>2, <3>3, <3>5, <3>6
  <2> QED
    BY <2>3, <2>4
<1>14. ASSUME ~failed'
       PROVE  Len(sent') = n + i /\ SentRight'
  <2>1. ~failed /\ k = i /\ Len(sent) = n /\ SentRight
    BY <1>10, <1>14
  <2> HIDE DEF More
  <2>2. ASSUME NEW j \in 1 .. Len(sent')
        PROVE  sent'[j] = PlaceOf(disk.format, disk.offset, Nth(Begin, j))
    <3>1. CASE j <= n
      BY <1>7, <2>1, <3>1 DEF SentRight
    <3>2. CASE ~(j <= n)
      <4>1. j - n \in 1 .. k /\ n + (j - n) = j
        BY <1>3, <1>7, <2>1, <3>2
      <4>2. sent'[j] = More(k)[j - n]
        BY <1>7, <2>1, <3>2
      <4> QED
        BY <1>13, <1>14, <4>1, <4>2
    <3> QED
      BY <3>1, <3>2
  <2>3. Begin' = Begin
    BY DEF Begin
  <2>4. SentRight'
    BY <2>2, <2>3 DEF SentRight
  <2> QED
    BY <1>7, <2>1, <2>4
<1> QED
  BY <1>7, <1>8, <1>9, <1>10, <1>11, <1>12, <1>14

-----------------------------------------------------------------------------
(* What is written, and where the file is.                                  *)

\* An image that grows is the same disk.
SameDisk == /\ disk' \in Disks /\ disk'.geo = disk.geo /\ disk'.format = disk.format
            /\ disk'.offset = disk.offset

\* Up to Room sectors it may.
LEMMA GrownRight ==
    ASSUME DiskRight(disk), fpos' \in 0 .. Room, disk.format # "MMC",
           disk' = [disk EXCEPT !.size = Larger(@, fpos')]
    PROVE  DiskRight(disk)' /\ SameDisk
<1>1. Room \in Nat /\ disk.size \in 0 .. Room /\ disk \in Disks
  BY LbaAssumption DEF DiskRight
<1>2. Larger(disk.size, fpos') \in 0 .. Room
  BY <1>1 DEF Larger
<1>3. SameDisk /\ disk'.size \in 0 .. Room
  BY <1>1, <1>2 DEF Disks, SameDisk
<1> QED
  BY <1>1, <1>3 DEF DiskRight, SameDisk

\* Drv08_HardFileSeek: the file is where it should be, or as near as it gets, and the
\* disk is the same.
LEMMA SeekRight ==
    ASSUME DiskRight(disk), NEW p \in Nat, SeekFile(p), fpos \in 0 .. Room
    PROVE  /\ DiskRight(disk)' /\ SameDisk /\ fpos' \in 0 .. Room
           /\ disk.format # "MMC" => fpos' = p \/ fpos' >= disk'.size
           /\ disk.format # "MMC" /\ disk.mode # "readonly" => fpos' = Smaller(p, Room)
<1>1. disk \in Disks /\ Room \in Nat
  BY LbaAssumption DEF DiskRight
<1>2. CASE disk.format = "MMC"
  BY <1>1, <1>2 DEF SeekFile, SameDisk, DiskRight
<1>3. CASE disk.format # "MMC"
  <2>1. disk.size \in 0 .. Room /\ disk.size \in Nat
    BY <1>3, LbaAssumption DEF DiskRight
  <2>2. /\ fpos' = IF p <= disk.size THEN p
                   ELSE IF disk.mode = "readonly" THEN disk.size ELSE Smaller(p, Room)
        /\ disk' = [disk EXCEPT !.size = Larger(@, fpos')]
    BY <1>3 DEF SeekFile
  <2>3. fpos' \in 0 .. Room
    BY <1>1, <2>1, <2>2 DEF Smaller
  <2>4. DiskRight(disk)' /\ SameDisk
    BY <1>3, <2>2, <2>3, GrownRight
  <2>5. disk'.size = Larger(disk.size, fpos')
    BY <1>1, <2>2 DEF Disks
  <2>6. fpos' = p \/ fpos' >= disk'.size
    BY <1>1, <2>1, <2>2, <2>3, <2>5 DEF Smaller, Larger
  <2>7. disk.mode # "readonly" => fpos' = Smaller(p, Room)
    BY <1>1, <2>1, <2>2 DEF Smaller
  <2> QED
    BY <1>3, <2>3, <2>4, <2>6, <2>7
<1> QED
  BY <1>2, <1>3

\* The smaller of two numbers that are in order.
LEMMA SmallerOf ==
    ASSUME NEW a \in Int, NEW b \in Int
    PROVE  a <= b => Smaller(a, b) = a
BY DEF Smaller

\* A file that has room for a sector has a number for it.
LEMMA Below ==
    ASSUME NEW a \in Nat, NEW n \in Nat, NEW o \in Nat, NEW r \in Nat, NEW d \in Nat,
           a - o + n <= r, o + r < d
    PROVE  a + n < d /\ a + n \in Nat
OBVIOUS

\* What is written is what comes next, and where it belongs, or the command has
\* failed.
LEMMA WriteRight ==
    ASSUME DriveInv, TypeInv, WriteBuf,
           NEW m \in Nat \ {0}, Len(buf) = m,
           NEW n \in Nat, at = Nth(Begin, n + 1),
           Fetched(buf, n),
           ~failed => Len(written) = n,
           ~failed => WrittenRight,
           ~failed /\ disk.format # "MMC" => WritesAt(disk, fpos, at),
           cmd' = cmd
    PROVE  /\ DiskRight(disk)' /\ SameDisk /\ fpos' \in 0 .. Room /\ failed' \in BOOLEAN
           /\ written' \in Seq(Place \X Int) /\ buf' = << >>
           /\ ~failed' => ~failed /\ Len(written') = n + m /\ WrittenRight'
           /\ ~failed' /\ disk.format # "MMC" => WritesAt(disk', fpos', Nth(Begin, n + m + 1))
<1> DEFINE card == disk.format = "MMC"
           can == IF card THEN m ELSE Smaller(m, Room - fpos)
           More(k) == [j \in 1 .. k |->
                         <<IF card THEN <<"card", (at + disk.offset + j - 1) % LbaMod>>
                           ELSE <<"file", fpos + j - 1>>, buf[j]>>]
<1>1. /\ DiskRight(disk) /\ disk \in Disks /\ disk.offset \in Nat /\ disk.size \in Nat
      /\ ~card => disk.size \in 0 .. Room /\ disk.offset + Room < LbaMod
      /\ at \in Nat /\ at < LbaMod /\ fpos \in 0 .. Room /\ Room \in Nat /\ LbaMod \in Nat \ {0}
      /\ failed \in BOOLEAN /\ written \in Seq(Place \X Int) /\ buf \in Seq(Int)
  BY LbaAssumption DEF DriveInv, TypeInv, Disks, DiskRight
<1>2. PICK k \in {can, 0} :
          /\ written' = written \o More(k)
          /\ fpos' = IF card THEN fpos ELSE fpos + k
          /\ disk' = IF card THEN disk ELSE [disk EXCEPT !.size = Larger(@, fpos')]
          /\ failed' = (failed \/ k # m)
  BY DEF WriteBuf
<1>3. /\ k \in 0 .. m /\ k \in Nat
      /\ ~card => fpos + k <= Room
  BY <1>1, <1>2, SMTT(30) DEF Smaller
<1>4. ASSUME NEW j \in Nat PROVE (at + j) % LbaMod = Nth(Begin, n + 1 + j)
  <2>1. Begin \in Nat /\ n + 1 \in Nat \ {0}
    BY BeginRange
  <2> QED
    BY <2>1, NthStep
<1>5. fpos' \in 0 .. Room
  BY <1>1, <1>2, <1>3, SMTT(30)
<1>6. DiskRight(disk)' /\ SameDisk
  <2>1. CASE card
    BY <1>1, <1>2, <2>1 DEF SameDisk, DiskRight
  <2>2. CASE ~card
    <3>1. disk' = [disk EXCEPT !.size = Larger(@, fpos')]
      BY <1>2, <2>2
    <3> QED
      BY <1>1, <1>5, <2>2, <3>1, GrownRight
  <2> QED
    BY <2>1, <2>2
<1>7. \A j \in 1 .. k : /\ (at + disk.offset + j - 1) % LbaMod \in Int
                        /\ fpos + j - 1 \in Int /\ buf[j] \in Int
  <2> SUFFICES ASSUME NEW j \in 1 .. k
               PROVE  /\ (at + disk.offset + j - 1) % LbaMod \in Int
                      /\ fpos + j - 1 \in Int /\ buf[j] \in Int
    OBVIOUS
  <2>1. at + disk.offset + j - 1 \in Nat /\ fpos + j - 1 \in Int
    BY <1>1, <1>3, SMTT(30)
  <2> HIDE DEF card, can
  <2>2. (at + disk.offset + j - 1) % LbaMod \in 0 .. LbaMod - 1
    BY <1>1, <2>1, ModRange
  <2>3. j \in 1 .. Len(buf)
    BY <1>3
  <2> QED
    BY <1>1, <2>1, <2>2, <2>3
<1>8. More(k) \in Seq(Place \X Int) /\ Len(More(k)) = k
  <2> HIDE DEF card, can
  <2>1. \A j \in 1 .. k : More(k)[j] \in Place \X Int
    BY <1>7 DEF Place
  <2>2. More(k) \in [1 .. k -> Place \X Int]
    BY <2>1
  <2> QED
    BY <1>3, <2>2
<1>9. /\ written' \in Seq(Place \X Int) /\ Len(written') = Len(written) + k
      /\ \A j \in 1 .. Len(written) + k :
            written'[j] = IF j <= Len(written) THEN written[j] ELSE More(k)[j - Len(written)]
  <2>1. written' = written \o More(k) /\ written \in Seq(Place \X Int)
    BY <1>1, <1>2
  <2> DEFINE S == Place \X Int
             t == More(k)
  <2>2. t \in Seq(S) /\ Len(t) = k /\ written' = written \o t /\ written \in Seq(S) /\ k \in Nat
    BY <1>3, <1>8, <2>1
  <2> HIDE DEF More, card, can, S, t
  <2>3. /\ written \o t \in Seq(S) /\ Len(written \o t) = Len(written) + Len(t)
        /\ \A j \in 1 .. Len(written) + Len(t) :
             (written \o t)[j] = IF j <= Len(written) THEN written[j] ELSE t[j - Len(written)]
    BY <2>2, ConcatProperties, Zenon
  <2>4. /\ written' \in Seq(S) /\ Len(written') = Len(written) + k
        /\ \A j \in 1 .. Len(written) + k :
              written'[j] = IF j <= Len(written) THEN written[j] ELSE t[j - Len(written)]
    BY <2>2, <2>3, Zenon
  <2> QED
    BY <2>4 DEF S, t
<1>10. ASSUME ~failed'
       PROVE  ~failed /\ k = m /\ Len(written) = n
  BY <1>2, <1>10
<1>11. ASSUME ~failed', ~card
       PROVE  /\ fpos = at - disk.offset /\ at >= disk.offset /\ at + m < LbaMod
              /\ Nth(Begin, n + m + 1) = at + m
              /\ fpos' = Smaller(Nth(Begin, n + m + 1) - disk.offset, Room)
  <2>1. k = m /\ ~failed /\ fpos + m <= Room
    BY <1>3, <1>10, <1>11
  <2>2. fpos = at - disk.offset /\ at >= disk.offset
    <3>1. at >= disk.offset /\ fpos = Smaller(at - disk.offset, Room)
      BY <1>11, <2>1 DEF WritesAt
    <3>2. fpos < Room /\ at - disk.offset \in Int
      BY <1>1, <2>1
    <3> QED
      BY <1>1, <3>1, <3>2 DEF Smaller
  <2>3. at + m < LbaMod /\ at + m \in Nat
    <3>1. disk.offset + Room < LbaMod
      BY <1>1, <1>11
    <3>2. at - disk.offset + m <= Room
      BY <2>1, <2>2
    <3> HIDE DEF card, can
    <3> QED
      BY <1>1, <3>1, <3>2, Below, SMTT(30)
  <2>4. (at + m) % LbaMod = at + m
    BY <1>1, <2>3, ModSmall
  <2>5. Nth(Begin, n + m + 1) = at + m
    <3>1. n + 1 + m = n + m + 1
      OBVIOUS
    <3> QED
      BY <1>4, <2>4, <3>1
  <2>6. fpos' = at + m - disk.offset
    BY <1>1, <1>2, <1>11, <2>1, <2>2
  <2> QED
    <3> DEFINE N == Nth(Begin, n + m + 1)
    <3>1. N - disk.offset = fpos' /\ fpos' \in Int /\ Room \in Int /\ fpos' <= Room
      BY <1>1, <1>5, <2>5, <2>6, SMTT(30)
    <3> HIDE DEF N
    <3>2. fpos' = Smaller(N - disk.offset, Room)
      BY <3>1, SmallerOf
    <3> QED
      BY <2>2, <2>3, <2>5, <3>2 DEF N
<1>12. ASSUME ~failed', NEW j \in 1 .. k
       PROVE  More(k)[j] = <<PlaceOf(disk.format, disk.offset, Nth(Begin, n + j)), n + j>>
  <2>1. j - 1 \in Nat /\ n + 1 + (j - 1) = n + j /\ j \in 1 .. m
    <3> HIDE DEF card, can
    <3> QED
      BY <1>3
  <2>2. buf[j] = n + j
    BY <2>1 DEF Fetched
  <2>3. CASE card
    <3>1. More(k)[j] = <<<<"card", (at + disk.offset + j - 1) % LbaMod>>, n + j>>
      BY <2>2, <2>3
    <3>2. (at + (j - 1)) % LbaMod = Nth(Begin, n + j)
      BY <1>4, <2>1
    <3> DEFINE e == at + (j - 1)
    <3>3. e \in Nat /\ at + disk.offset + j - 1 = e + disk.offset
      BY <1>1, <2>1, SMTT(30)
    <3> HIDE DEF e, More
    <3>4. (((e % LbaMod) + disk.offset) % LbaMod) = (e + disk.offset) % LbaMod
      BY <1>1, <3>3, ModAdd
    <3>5. e % LbaMod = Nth(Begin, n + j)
      BY <3>2 DEF e
    <3>6. PlaceOf(disk.format, disk.offset, Nth(Begin, n + j)) =
             <<"card", (Nth(Begin, n + j) + disk.offset) % LbaMod>>
      BY <2>3 DEF PlaceOf
    <3> QED
      BY <3>1, <3>3, <3>4, <3>5, <3>6
  <2>4. CASE ~card
    <3> DEFINE e == at + (j - 1)
    <3>1. fpos = at - disk.offset /\ at >= disk.offset /\ at + m < LbaMod
      BY <1>11, <1>12, <2>4
    <3>2. e \in Nat /\ e < LbaMod /\ ~(e < disk.offset) /\ fpos + j - 1 = e - disk.offset
      <4>1. /\ j \in Nat /\ 1 <= j /\ j <= m /\ at \in Nat /\ disk.offset \in Nat
            /\ LbaMod \in Nat /\ m \in Nat
        BY <1>1, <2>1
      <4> HIDE DEF card, can
      <4> QED
        BY <3>1, <4>1, SMTT(30)
    <3>3. More(k)[j] = <<<<"file", fpos + j - 1>>, n + j>>
      BY <2>2, <2>4
    <3>4. e % LbaMod = Nth(Begin, n + j)
      BY <1>4, <2>1
    <3> HIDE DEF e, More
    <3>5. e = Nth(Begin, n + j)
      BY <1>1, <3>2, <3>4, ModSmall
    <3>6. PlaceOf(disk.format, disk.offset, e) = <<"file", e - disk.offset>>
      BY <2>4, <3>2, PlaceInFile
    <3> QED
      BY <3>2, <3>3, <3>5, <3>6
  <2> QED
    BY <2>3, <2>4
<1>15. Begin' = Begin
  BY <1>6 DEF Begin, SameDisk
<1>13. ASSUME ~failed'
       PROVE  Len(written') = n + m /\ WrittenRight'
  <2>1. ~failed /\ k = m /\ Len(written) = n /\ WrittenRight
    BY <1>10, <1>13
  <2> HIDE DEF More
  <2>2. ASSUME NEW j \in 1 .. Len(written')
        PROVE  written'[j] = <<PlaceOf(disk.format, disk.offset, Nth(Begin, j)), j>>
    <3>1. CASE j <= n
      BY <1>9, <2>1, <3>1 DEF WrittenRight
    <3>2. CASE ~(j <= n)
      <4>1. j - n \in 1 .. k /\ n + (j - n) = j
        BY <1>3, <1>9, <2>1, <3>2
      <4>2. written'[j] = More(k)[j - n]
        BY <1>9, <2>1, <3>2
      <4> QED
        BY <1>12, <1>13, <4>1, <4>2
    <3> QED
      BY <3>1, <3>2
  <2>3. WrittenRight'
    BY <1>6, <1>15, <2>2 DEF WrittenRight, SameDisk
  <2> QED
    BY <1>9, <2>1, <2>3
<1>14. ASSUME ~failed', ~card
       PROVE  WritesAt(disk', fpos', Nth(Begin, n + m + 1))
  <2> DEFINE N == Nth(Begin, n + m + 1)
  <2>1. N >= disk.offset /\ fpos' = Smaller(N - disk.offset, Room)
    BY <1>1, <1>11, <1>14, SMTT(30)
  <2> QED
    BY <1>6, <1>15, <2>1 DEF WritesAt, SameDisk
<1>16. buf' = << >> /\ failed' \in BOOLEAN
  BY <1>1, <1>2 DEF WriteBuf
<1> QED
  BY <1>5, <1>6, <1>9, <1>10, <1>13, <1>14, <1>16

-----------------------------------------------------------------------------
(* READ SECTORS and READ MULTIPLE, step by step.                            *)

\* The drive stays in order when its file grows.
LEMMA DriveFrame ==
    ASSUME DriveInv, DiskRight(disk)', SameDisk, spb' = spb, tf' = tf, cmd' = cmd
    PROVE  DriveInv' /\ Begin' = Begin /\ Total' = Total
BY DEF DriveInv, SameDisk, Begin, Total

\* The drive stays in order when nothing of it changes.
LEMMA SameFrame ==
    ASSUME DriveInv, UNCHANGED <<disk, spb, tf, cmd>>
    PROVE  DriveInv' /\ Begin' = Begin /\ Total' = Total /\ SameDisk
<1>1. DiskRight(disk)' /\ SameDisk
  BY DEF DriveInv, DiskRight, SameDisk
<1> QED
  BY <1>1, DriveFrame

\* Numbers of a command that runs.
LEMMA LoopFacts ==
    ASSUME DriveInv, TypeInv, pc # "idle"
    PROVE  /\ Begin \in Nat /\ Total \in 1 .. MaxCount /\ left \in 0 .. Total /\ Moved \in 0 .. Total
           /\ block \in 0 .. left
           /\ cmd.a \in Address
<1>1. cmd.count \in Nat /\ cmd.count < MaxCount /\ MaxCount \in Nat /\ cmd.a \in Address
  BY CountAssumption DEF DriveInv, TypeInv, Given
<1>2. Total \in Nat \ {0} /\ Total <= MaxCount
  BY <1>1, CountRange DEF Total
<1>3. left \in Nat /\ left <= Total /\ block \in 0 .. left
  BY <1>1 DEF TypeInv
<1> QED
  BY <1>1, <1>2, <1>3, BeginRange DEF Moved

\* Only pc.
LEMMA RWaitKeeps ==
    ASSUME IInv, ~Slow, RWait
    PROVE  IInv'
<1> USE DEF IInv
<1>1. UNCHANGED <<disk, spb, core, cmd, loop, history>> /\ pc = "rwait" /\ pc' = "rupdate"
      /\ fifo <= 1
  BY DEF RWait, WaitFifo
<1>2. DriveInv' /\ Begin' = Begin /\ Total' = Total /\ SameDisk
  BY <1>1, SameFrame DEF core
<1>3. Moved' = Moved
  BY <1>1, <1>2 DEF Moved, loop
<1> USE <1>1, <1>2, <1>3 DEF core, host, loop, history
<1>4. TypeInv'
  BY DEF TypeInv, Reading, Writing
<1>5. CoreInv'
  BY DEF CoreInv, Active, Reading, Writing
<1>6. LoopInv'
  BY DEF LoopInv, Reading, Writing
<1>7. AdrInv' /\ AtInv'
  BY DEF AdrInv, AtInv, Behind, Reading, Writing
<1>8. FileInv'
  BY DEF FileInv, ReadsAt, Reading, Writing
<1>9. RegsInv'
  BY DEF RegsInv, Reading
<1>10. HistInv' /\ BufInv'
  BY DEF HistInv, BufInv, SentRight, WrittenRight, Reading, Writing
<1> QED
  BY <1>2, <1>4, <1>5, <1>6, <1>7, <1>8, <1>9, <1>10

\* The address is moved on to the n-th sector behind those that are done.
LEMMA Further ==
    ASSUME DriveInv, TypeInv, AdrInv, pc \in Behind, NEW n \in Nat \ {0},
           adr' = Advanced(adr, n, first)
    PROVE  OnTrack(adr', disk.geo) /\ adr'.lba = Nth(Begin, Moved + n)
<1>1. OnDisk(adr) /\ first \in BOOLEAN /\ disk \in Disks /\ adr.lba \in Nat
  <2>1. OnTrack(adr, disk.geo) /\ first \in BOOLEAN /\ disk \in Disks
    BY DEF TypeInv, DriveInv, DiskRight, Behind
  <2> QED
    BY <2>1, OnDiskTrack, LbaAssumption DEF OnTrack
<1> DEFINE k == IF first THEN n - 1 ELSE n
<1>2. OnDisk(adr') /\ adr'.lba = (adr.lba + k) % LbaMod
  <2>1. (IF first /\ n > 0 THEN n - 1 ELSE n) = k
    OBVIOUS
  <2> HIDE DEF k
  <2> QED
    BY <1>1, <2>1, AdvancedRight
<1>3. Begin \in Nat /\ Moved \in Nat
  BY LoopFacts DEF Behind
<1>4. CASE first
  <2>1. adr.lba = Nth(Begin, 1) /\ Moved = 0 /\ k = n - 1 /\ n - 1 \in Nat /\ 1 + (n - 1) = Moved + n
    BY <1>3, <1>4 DEF AdrInv
  <2>2. (Nth(Begin, 1) + (n - 1)) % LbaMod = Nth(Begin, 1 + (n - 1))
    BY <1>3, <2>1, NthStep
  <2> QED
    BY <1>2, <2>1, <2>2, OnDiskTrack
<1>5. CASE ~first
  <2>1. adr.lba = Nth(Begin, Moved) /\ Moved \in Nat \ {0} /\ k = n
    BY <1>3, <1>5 DEF AdrInv
  <2>2. (Nth(Begin, Moved) + n) % LbaMod = Nth(Begin, Moved + n)
    BY <1>3, <2>1, NthStep
  <2> QED
    BY <1>2, <2>1, <2>2, OnDiskTrack
<1> QED
  BY <1>1, <1>4, <1>5

\* A burst fits behind the sector that may be left in the FIFO.
LEMMA FifoGrows ==
    ASSUME NEW a \in Nat, NEW i \in Nat, NEW b \in a .. a + i, NEW d \in Nat, NEW n \in Nat,
           a <= 1, d + a <= n, i <= MaxBurst
    PROVE  b \in Nat /\ b <= MaxBurst + 1 /\ d + b <= n + i
BY BurstAssumption

\* READ SECTORS: the next sector's address, which the registers show.
LEMMA RUpdateKeeps ==
    ASSUME IInv, ~Slow, RUpdate
    PROVE  IInv'
<1> USE DEF IInv
<1>1. /\ UNCHANGED <<disk, spb, busy, req, tf, host, cmd, left, block, fpos, buf, history>>
      /\ pc = "rupdate" /\ pc' = "rsend" /\ first' = FALSE /\ at' = adr'.lba
      /\ adr' = Advanced(adr, 1, first) /\ regs' = IF first THEN regs ELSE Shown(adr')
  BY DEF RUpdate
<1>2. DriveInv' /\ Begin' = Begin /\ Total' = Total /\ disk' = disk
  BY <1>1, SameFrame
<1>3. Moved' = Moved /\ Moved \in Nat
  BY <1>1, <1>2, LoopFacts DEF Moved
<1>4. OnTrack(adr', disk.geo) /\ adr'.lba = Nth(Begin, Moved + 1)
  BY <1>1, Further DEF Behind
<1>5. at' \in 0 .. LbaMod - 1
  BY <1>1, <1>4 DEF OnTrack
<1>6. LbaOf(disk.geo, regs') = adr'.lba
  <2>1. CASE first
    <3>1. LbaOf(disk.geo, regs) = adr.lba /\ adr.lba = Nth(Begin, 1) /\ Moved = 0
      <4>1. ~req
        BY <1>1 DEF CoreInv, Active, Reading
      <4>2. LbaOf(disk.geo, regs) = adr.lba
        BY <1>1, <4>1 DEF RegsInv, Reading
      <4> QED
        BY <1>1, <2>1, <4>2 DEF AdrInv, Behind
    <3>2. Nth(Begin, Moved + 1) = Nth(Begin, 1)
      BY <3>1
    <3> QED
      BY <1>1, <1>4, <2>1, <3>1, <3>2
  <2>2. CASE ~first
    BY <1>1, <1>4, <2>2, ShownLba
  <2> QED
    BY <2>1, <2>2
<1> USE <1>1, <1>2, <1>3 DEF core, host, loop, history
<1>7. TypeInv'
  BY <1>4, <1>5 DEF TypeInv, Reading, Writing
<1>8. CoreInv'
  BY DEF CoreInv, Active, Reading, Writing
<1>9. LoopInv'
  BY DEF LoopInv, Reading, Writing
<1>10. AdrInv' /\ AtInv'
  BY <1>4 DEF AdrInv, AtInv, Index, Behind, Reading, Writing
<1>11. FileInv'
  BY DEF FileInv, ReadsAt, Reading, Writing
<1>12. RegsInv'
  <2>1. ~req'
    BY DEF CoreInv, Active, Reading
  <2> QED
    BY <1>6, <2>1 DEF RegsInv, Reading
<1>13. HistInv' /\ BufInv'
  BY DEF HistInv, BufInv, SentRight, WrittenRight, Reading, Writing
<1> QED
  BY <1>2, <1>7, <1>8, <1>9, <1>10, <1>11, <1>12, <1>13

\* READ SECTORS: a sector goes to the FIFO.
LEMMA RSendKeeps ==
    ASSUME IInv, ~Slow, RSend
    PROVE  IInv'
<1> USE DEF IInv
<1>1. /\ UNCHANGED <<disk, spb, busy, req, tf, regs, drained, granted, pushed, cmd, adr,
                     block, at, first, buf, written>>
      /\ pc = "rsend" /\ Send(1) /\ left' = left - 1
      /\ pc' = IF left' = 0 THEN "return" ELSE "rwait"
  BY DEF RSend
<1>2. DriveInv' /\ Begin' = Begin /\ Total' = Total /\ disk' = disk /\ cmd' = cmd
  BY <1>1, SameFrame
<1>3. /\ left \in 1 .. Total /\ Total \in 1 .. MaxCount /\ Moved \in Nat
      /\ Begin \in Nat /\ Moved' = Moved + 1 /\ left' \in 0 .. Total /\ left' \in 0 .. MaxCount
      /\ MaxCount \in Nat
  BY <1>1, <1>2, LoopFacts, CountAssumption DEF Moved, LoopInv, Reading
<1>4. PICK n \in Nat : n = Moved
  BY <1>3
<1>5. at = Nth(Begin, n + 1) /\ at \in Nat /\ disk.offset \in Nat
  BY <1>1, <1>4, LbaAssumption DEF AtInv, TypeInv, Index, Reading, DriveInv, DiskRight, Disks
<1>6. ~failed => Len(sent) = n /\ SentRight
  BY <1>1, <1>4 DEF HistInv, Reading
<1>7. ~failed /\ disk.format # "MMC" => ReadsAt(disk, fpos, at)
  BY <1>1, <1>4, <1>5 DEF FileInv, Reading
<1>8. /\ sent' \in Seq(Place) /\ fifo' \in fifo .. fifo + 1
      /\ fpos' \in 0 .. Room /\ failed' \in BOOLEAN
      /\ ~failed' => ~failed /\ Len(sent') = n + 1 /\ SentRight'
      /\ ~failed' /\ disk.format # "MMC" => ReadsAt(disk', fpos', Nth(Begin, n + 1 + 1))
  <2>1. disk.format # "MMC" /\ at < disk.offset => at + 1 <= disk.offset
    BY <1>5
  <2>2. DriveInv /\ TypeInv
    OBVIOUS
  <2>3. Send(1) /\ disk' = disk /\ cmd' = cmd /\ 1 \in Nat \ {0}
    BY <1>1, <1>2
  <2>4. at = Nth(Begin, n + 1) /\ (~failed => Len(sent) = n) /\ (~failed => SentRight)
    BY <1>5, <1>6
  <2> HIDE DEF IInv
  <2> QED
    BY <1>7, <2>1, <2>2, <2>3, <2>4, SendRight
<1>9. /\ fifo \in Nat /\ fifo <= 1 /\ drained \in Nat /\ drained + fifo <= n
      /\ busy /\ ~req /\ tf = cmd /\ granted <= SectorCount(tf.count)
      /\ MaxBurst \in Nat \ {0}
  BY <1>1, <1>4, BurstAssumption DEF CoreInv, Active, Reading, TypeInv
<1>10. block = 0 /\ ~first
  BY <1>1 DEF LoopInv, AdrInv, Behind
<1>11. adr.lba = Nth(Begin, n + 1)
  BY <1>1, <1>4 DEF AdrInv
<1>12. written = << >>
  BY <1>1 DEF HistInv, Reading
<1>13. fifo' \in Nat /\ fifo' <= MaxBurst + 1 /\ drained + fifo' <= n + 1
  <2>1. fifo' \in fifo .. fifo + 1
    BY <1>8
  <2>2. fifo \in Nat /\ fifo <= 1 /\ drained \in Nat /\ drained + fifo <= n /\ MaxBurst \in Nat \ {0}
    BY <1>9
  <2>3. 1 \in Nat /\ 1 <= MaxBurst
    BY <1>9
  <2> HIDE DEF IInv
  <2> QED
    BY <1>4, <2>1, <2>2, <2>3, FifoGrows
<1>14. Moved' = n + 1
  BY <1>3, <1>4
<1>15. TypeInv'
  <2>1. block' \in 0 .. left'
    BY <1>1, <1>3, <1>10
  <2> QED
    BY <1>1, <1>2, <1>3, <1>8, <1>13, <2>1 DEF TypeInv, Reading, Writing
<1>16. CoreInv'
  <2>1. /\ pc' \in {"rwait", "return"} /\ ~req' /\ busy' /\ tf' = cmd'
        /\ granted' = granted /\ drained' = drained
    BY <1>1, <1>9
  <2>2. granted' <= SectorCount(tf'.count)
    BY <1>1, <1>9
  <2>3. drained' + fifo' <= Moved'
    BY <1>13, <1>14, <2>1
  <2> HIDE DEF IInv
  <2> QED
    BY <1>13, <2>1, <2>2, <2>3 DEF CoreInv, Active, Reading, Writing
<1>17. LoopInv'
  BY <1>1, <1>2, <1>3, <1>10 DEF LoopInv, Reading, Writing
<1>18. AdrInv'
  BY <1>1, <1>2, <1>10, <1>11, <1>14 DEF AdrInv, Behind
<1>19. AtInv'
  BY <1>1 DEF AtInv, Reading, Writing
<1>20. FileInv'
  BY <1>1, <1>2, <1>8, <1>14 DEF FileInv, ReadsAt, Reading, Writing
<1>21. RegsInv'
  BY <1>1, <1>2 DEF RegsInv, Reading
<1>22. HistInv'
  BY <1>1, <1>2, <1>8, <1>12, <1>14 DEF HistInv, WrittenRight, Reading, Writing
<1>23. BufInv'
  BY <1>1 DEF BufInv, Reading, Writing
<1> QED
  BY <1>2, <1>15, <1>16, <1>17, <1>18, <1>19, <1>20, <1>21, <1>22, <1>23

\* READ MULTIPLE: the FIFO is nearly empty.
LEMMA MWaitKeeps ==
    ASSUME IInv, ~Slow, MWait
    PROVE  IInv'
<1> USE DEF IInv
<1>1. UNCHANGED <<disk, spb, core, cmd, loop, history>> /\ pc = "mwait" /\ pc' = "msend"
      /\ fifo <= 1
  BY DEF MWait, WaitFifo
<1>2. DriveInv' /\ Begin' = Begin /\ Total' = Total /\ SameDisk
  BY <1>1, SameFrame DEF core
<1>3. Moved' = Moved
  BY <1>1, <1>2 DEF Moved, loop
<1> USE <1>1, <1>2, <1>3 DEF core, host, loop, history
<1>4. TypeInv'
  BY DEF TypeInv, Reading, Writing
<1>5. CoreInv'
  BY DEF CoreInv, Active, Reading, Writing
<1>6. LoopInv'
  BY DEF LoopInv, Reading, Writing
<1>7. AdrInv' /\ AtInv'
  BY DEF AdrInv, AtInv, Index, Behind, Reading, Writing
<1>8. FileInv'
  BY DEF FileInv, ReadsAt, Reading, Writing
<1>9. RegsInv'
  BY DEF RegsInv, Reading
<1>10. HistInv' /\ BufInv'
  BY DEF HistInv, BufInv, SentRight, WrittenRight, Reading, Writing
<1> QED
  BY <1>2, <1>4, <1>5, <1>6, <1>7, <1>8, <1>9, <1>10

\* READ MULTIPLE: a block begins, and the registers show its last sector.
LEMMA MBlockKeeps ==
    ASSUME IInv, ~Slow, MBlock
    PROVE  IInv'
<1> USE DEF IInv
<1>1. /\ UNCHANGED <<disk, spb, busy, req, tf, host, cmd, left, at, fpos, buf, history>>
      /\ pc = "mblock" /\ pc' = "mwait" /\ block' = Smaller(left, spb) /\ first' = FALSE
      /\ adr' = Advanced(adr, block', first) /\ regs' = Shown(adr')
  BY DEF MBlock
<1>2. DriveInv' /\ Begin' = Begin /\ Total' = Total /\ disk' = disk
  BY <1>1, SameFrame
<1>3. Moved' = Moved /\ Moved \in Nat
  BY <1>1, <1>2, LoopFacts DEF Moved
<1>4. block' \in 1 .. left
  <2>1. left \in Nat /\ left >= 1 /\ spb \in Nat /\ spb >= 1
    BY <1>1, LoopFacts, CountAssumption DEF LoopInv, DriveInv, Reading, Writing
  <2> QED
    BY <1>1, <2>1 DEF Smaller
<1>5. PICK b \in Nat \ {0} : b = block'
  <2>1. left \in Nat
    BY <1>1, LoopFacts DEF TypeInv
  <2> QED
    BY <1>4, <2>1
<1>6. OnTrack(adr', disk.geo) /\ adr'.lba = Nth(Begin, Moved + b)
  BY <1>1, <1>5, Further DEF Behind
<1>7. LbaOf(disk.geo, regs') = adr'.lba
  BY <1>1, <1>6, ShownLba
<1> USE <1>1, <1>2, <1>3 DEF core, host, loop, history
<1>8. TypeInv'
  <2>1. block' \in 0 .. left'
    BY <1>4, <1>1
  <2> QED
    BY <1>6, <2>1 DEF TypeInv, Reading, Writing
<1>9. CoreInv'
  BY DEF CoreInv, Active, Reading, Writing
<1>10. LoopInv'
  <2>1. block' >= 1
    BY <1>4
  <2> QED
    BY <2>1 DEF LoopInv, Reading, Writing
<1>11. AdrInv' /\ AtInv'
  BY <1>5, <1>6 DEF AdrInv, AtInv, Index, Behind, Reading, Writing
<1>12. FileInv'
  BY DEF FileInv, ReadsAt, Reading, Writing
<1>13. RegsInv'
  <2>1. ~req'
    BY DEF CoreInv, Active, Reading
  <2> QED
    BY <1>7, <2>1 DEF RegsInv, Reading
<1>14. HistInv' /\ BufInv'
  BY DEF HistInv, BufInv, SentRight, WrittenRight, Reading, Writing
<1> QED
  BY <1>2, <1>8, <1>9, <1>10, <1>11, <1>12, <1>13, <1>14

\* A burst is within the block, the FIFO and the part of the disk that it begins in.
LEMMA BurstRight ==
    ASSUME DriveInv, TypeInv, block >= 1
    PROVE  /\ Burst \in 1 .. block /\ Burst <= MaxBurst
           /\ disk.format # "MMC" /\ at < disk.offset => at + Burst <= disk.offset
<1>1. block \in Nat \ {0} /\ MaxBurst \in Nat \ {0} /\ at \in Nat /\ disk.offset \in Nat
  <2>1. left \in Nat /\ block \in 0 .. left
    BY CountAssumption DEF TypeInv
  <2>2. block \in Nat
    BY <2>1
  <2> QED
    BY <2>2, BurstAssumption, LbaAssumption DEF TypeInv, DriveInv, DiskRight, Disks
<1> QED
  BY <1>1 DEF Burst, Smaller

\* READ MULTIPLE: a burst goes to the FIFO.
LEMMA MSendKeeps ==
    ASSUME IInv, ~Slow, MSend
    PROVE  IInv'
<1>0. /\ DriveInv /\ TypeInv /\ CoreInv /\ LoopInv /\ AdrInv /\ AtInv
      /\ FileInv /\ RegsInv /\ HistInv /\ BufInv
  BY DEF IInv
<1>1. /\ UNCHANGED <<disk, spb, busy, req, tf, regs, drained, granted, pushed, cmd, adr,
                     first, buf, written>>
      /\ pc = "msend" /\ Send(Burst) /\ left' = left - Burst /\ block' = block - Burst
      /\ at' = (at + Burst) % LbaMod
      /\ pc' = IF block' > 0 THEN "mwait" ELSE IF left' > 0 THEN "mblock" ELSE "return"
  BY DEF MSend
<1>2. DriveInv' /\ Begin' = Begin /\ Total' = Total /\ disk' = disk /\ cmd' = cmd
  BY <1>0, <1>1, SameFrame
<1>3. /\ block \in 1 .. left /\ left \in 1 .. Total /\ Total \in 1 .. MaxCount /\ MaxCount \in Nat
      /\ Moved \in Nat /\ Begin \in Nat /\ spb >= 1 /\ disk.format # "none"
  <2>1. block >= 1 /\ spb >= 1 /\ disk.format # "none"
    BY <1>0, <1>1 DEF LoopInv, Reading
  <2> QED
    BY <1>0, <1>1, <2>1, LoopFacts, CountAssumption
<1>4. PICK n \in Nat : n = Moved
  BY <1>3
<1>5. PICK i \in Nat \ {0} : i = Burst
  BY <1>0, <1>3, BurstRight
<1>6. /\ i \in 1 .. block /\ i <= MaxBurst
      /\ disk.format # "MMC" /\ at < disk.offset => at + i <= disk.offset
  BY <1>0, <1>3, <1>5, BurstRight
<1>7. /\ Send(i) /\ left' = left - i /\ block' = block - i /\ at' = (at + i) % LbaMod
  BY <1>1, <1>5
<1>8. left' \in 0 .. left /\ block' \in 0 .. left' /\ left' < left /\ left' <= Total /\ left' <= MaxCount
  BY <1>3, <1>6, <1>7
<1>9. Moved' = n + i /\ Moved' # 0 /\ Moved' \in Nat
  <2>1. Moved' = Total - (left - i) /\ n = Total - left
    BY <1>2, <1>4, <1>7 DEF Moved
  <2>2. Total - (left - i) = n + i
    BY <1>3, <1>6, <2>1
  <2>3. n \in Nat /\ i \in Nat \ {0}
    BY <1>4, <1>5
  <2>4. n + i \in Nat /\ n + i # 0
    BY <2>3
  <2> QED
    BY <2>1, <2>2, <2>4
<1>10. at = Nth(Begin, n + 1)
  BY <1>0, <1>1, <1>4 DEF AtInv, Index, Reading
<1>11. at' = Nth(Begin, Moved' + 1)
  <2>3. n + 1 \in Nat \ {0} /\ i \in Nat /\ Begin \in Nat
    BY <1>3, <1>4, <1>5
  <2>1. (Nth(Begin, n + 1) + i) % LbaMod = Nth(Begin, n + 1 + i)
    BY <2>3, NthStep, Zenon
  <2>2. n + 1 + i = Moved' + 1
    BY <1>4, <1>9
  <2> QED
    BY <1>7, <1>10, <2>1, <2>2
<1>12. at' \in 0 .. LbaMod - 1
  <2>1. Moved' + 1 \in Nat \ {0}
    BY <1>9
  <2> QED
    BY <1>3, <1>11, <2>1, NthRange
<1>13. ~failed => Len(sent) = n /\ SentRight
  BY <1>0, <1>1, <1>4 DEF HistInv, Reading
<1>14. ~failed /\ disk.format # "MMC" => ReadsAt(disk, fpos, at)
  BY <1>0, <1>1, <1>4, <1>10 DEF FileInv, Reading
<1>15. /\ sent' \in Seq(Place) /\ fifo' \in fifo .. fifo + i
       /\ fpos' \in 0 .. Room /\ failed' \in BOOLEAN
       /\ ~failed' => ~failed /\ Len(sent') = n + i /\ SentRight'
       /\ ~failed' /\ disk.format # "MMC" => ReadsAt(disk', fpos', Nth(Begin, n + i + 1))
  <2>1. DriveInv /\ TypeInv /\ disk' = disk /\ cmd' = cmd
    BY <1>0, <1>2
  <2>2. (~failed => Len(sent) = n) /\ (~failed => SentRight)
    BY <1>13
  <2> QED
    BY <1>6, <1>7, <1>10, <1>14, <2>1, <2>2, SendRight
<1>16. /\ fifo \in Nat /\ fifo <= 1 /\ drained \in Nat /\ drained + fifo <= n
       /\ busy /\ ~req /\ tf = cmd /\ granted <= SectorCount(tf.count)
  BY <1>0, <1>1, <1>4 DEF CoreInv, Active, Reading, TypeInv
<1>17. fifo' \in Nat /\ fifo' <= MaxBurst + 1 /\ drained + fifo' <= n + i
  <2>1. fifo' \in fifo .. fifo + i
    BY <1>15
  <2> QED
    BY <1>4, <1>6, <1>16, <2>1, FifoGrows
<1>18. ~first /\ adr.lba = Nth(Begin, n + block)
  BY <1>0, <1>1, <1>4 DEF AdrInv, Behind
<1>19. adr.lba = Nth(Begin, Moved' + block')
  <2>1. Moved' + block' = n + block
    BY <1>3, <1>4, <1>6, <1>7, <1>9
  <2> QED
    BY <1>18, <2>1
<1>20. /\ pc' \in {"mwait", "mblock", "return"}
       /\ pc' = "mwait" => block' >= 1
       /\ pc' # "mwait" => block' = 0
       /\ pc' \in {"mwait", "mblock"} => left' >= 1
       /\ pc' = "return" => left' = 0
  BY <1>1, <1>3, <1>8
<1>21. written = << >>
  BY <1>0, <1>1 DEF HistInv, Reading
<1>22. TypeInv'
  <2>1. left' \in 0 .. MaxCount
    BY <1>3, <1>8
  <2>2. OnTrack(adr, disk.geo) /\ cmd.cmd \in Data
    BY <1>0, <1>1 DEF TypeInv
  <2>3. pc' # "idle" /\ pc' \in {"idle", "return"} \cup Reading \cup Writing
    BY <1>20 DEF Reading, Writing
  <2>4. /\ busy' \in BOOLEAN /\ req' \in BOOLEAN /\ first' \in BOOLEAN
        /\ drained' \in Nat /\ granted' \in Nat /\ pushed' \in 0 .. granted'
        /\ buf' \in Seq(Int) /\ written' \in Seq(Place \X Int)
    BY <1>0, <1>1 DEF TypeInv
  <2> QED
    BY <1>1, <1>2, <1>8, <1>12, <1>15, <1>17, <2>1, <2>2, <2>3, <2>4 DEF TypeInv
<1>23. CoreInv'
  <2>1. /\ ~req' /\ busy' /\ tf' = cmd' /\ granted' <= SectorCount(tf'.count) /\ drained' = drained
    BY <1>1, <1>16
  <2>2. drained' + fifo' <= Moved'
    BY <1>9, <1>17, <2>1
  <2> QED
    BY <1>17, <1>20, <2>1, <2>2 DEF CoreInv, Active, Reading, Writing
<1>24. LoopInv'
  BY <1>1, <1>2, <1>3, <1>20 DEF LoopInv, Reading, Writing
<1>25. AdrInv'
  <2>1. pc' # "mwait" => adr' . lba = Nth(Begin, Moved')
    BY <1>1, <1>9, <1>19, <1>20
  <2>2. ~first' /\ adr'.lba = Nth(Begin, Moved' + block')
    BY <1>1, <1>18, <1>19
  <2> QED
    BY <1>2, <1>9, <1>20, <2>1, <2>2 DEF AdrInv, Behind
<1>26. AtInv'
  BY <1>2, <1>11, <1>20 DEF AtInv, Index, Reading, Writing
<1>27. FileInv'
  <2>1. ~failed' /\ disk'.format # "MMC" => ReadsAt(disk', fpos', Nth(Begin', Moved' + 1))
    BY <1>2, <1>9, <1>15
  <2> QED
    BY <1>20, <2>1 DEF FileInv, Reading, Writing
<1>28. RegsInv'
  <2>1. LbaOf(disk.geo, regs) = adr.lba
    BY <1>0, <1>1, <1>16 DEF RegsInv, Reading
  <2> QED
    BY <1>1, <1>2, <1>16, <1>20, <2>1 DEF RegsInv, Reading
<1>29. HistInv'
  <2>1. written' = << >> /\ (~failed' => SentRight' /\ Len(sent') = Moved')
    BY <1>1, <1>9, <1>15, <1>21
  <2>2. WrittenRight'
    BY <2>1 DEF WrittenRight
  <2> QED
    BY <1>20, <2>1, <2>2 DEF HistInv, Reading, Writing
<1>30. BufInv'
  BY <1>20 DEF BufInv, Writing
<1> QED
  BY <1>2, <1>22, <1>23, <1>24, <1>25, <1>26, <1>27, <1>28, <1>29, <1>30 DEF IInv

-----------------------------------------------------------------------------
(* WRITE SECTORS and WRITE MULTIPLE, step by step.                          *)

\* A host in time: the next sector of the host is in the buffer.
LEMMA FetchRight ==
    ASSUME DriveInv, TypeInv, ~Slow, Fetch, Moved \in Nat,
           NEW n \in Nat, n = Moved, Fetched(buf, n)
    PROVE  buf' \in Seq(Int) /\ Len(buf') = Len(buf) + 1 /\ Fetched(buf', n)
<1>1. buf \in Seq(Int) /\ Len(buf) \in Nat /\ n + Len(buf) + 1 \in Int
  BY DEF TypeInv
<1>2. buf' = Append(buf, n + Len(buf) + 1)
  BY DEF Fetch, Moved, Total
<1>3. buf' \in Seq(Int) /\ Len(buf') = Len(buf) + 1
  BY <1>1, <1>2
<1>4. ASSUME NEW j \in 1 .. Len(buf')
      PROVE  buf'[j] = n + j
  <2>1. CASE j <= Len(buf)
    BY <1>1, <1>2, <1>3, <2>1 DEF Fetched
  <2>2. CASE ~(j <= Len(buf))
    <3>1. j = Len(buf) + 1
      BY <1>1, <1>3, <2>2
    <3> QED
      BY <1>1, <1>2, <3>1
  <2> QED
    BY <2>1, <2>2
<1> QED
  BY <1>3, <1>4 DEF Fetched

\* The host gets a block more, and never more than the command has.
LEMMA GrantRight ==
    ASSUME spb \in Nat, granted \in Nat, NEW c, SectorCount(c.count) \in Nat,
           granted <= SectorCount(c.count), Grant(c)
    PROVE  granted' \in Nat /\ granted <= granted' /\ granted' <= SectorCount(c.count)
<1> DEFINE t == SectorCount(c.count)
           b == HostBlock(c)
<1>1. b \in Nat
  BY DEF HostBlock
<1>2. granted' = granted + Smaller(b, t - granted)
  BY DEF Grant
<1>3. t \in Nat /\ granted <= t
  OBVIOUS
<1> HIDE DEF t, b
<1>4. granted' \in Nat /\ granted <= granted' /\ granted' <= t
  BY <1>1, <1>2, <1>3 DEF Smaller
<1> QED
  BY <1>4 DEF t

\* The core is released: for the next block, which the command has, or for good.
LEMMA ReleaseRight ==
    ASSUME DriveInv, TypeInv, granted <= SectorCount(cmd.count), NEW l, Release(l),
           pushed' = pushed
    PROVE  /\ granted' \in Nat /\ pushed' \in 0 .. granted' /\ granted' <= SectorCount(cmd.count)
           /\ l > 0 => busy' = busy
           /\ ~(l > 0) => busy' = FALSE
           /\ busy' \in BOOLEAN
<1>1. spb \in Nat /\ granted \in Nat /\ pushed \in 0 .. granted /\ SectorCount(cmd.count) \in Nat
      /\ busy \in BOOLEAN
  <2>1. spb \in Nat /\ granted \in Nat /\ pushed \in 0 .. granted /\ busy \in BOOLEAN
    BY CountAssumption DEF DriveInv, TypeInv
  <2>2. cmd.count \in Nat
    BY CountAssumption DEF DriveInv, Given, Commands
  <2> QED
    BY <2>1, <2>2, CountRange
<1>2. CASE l > 0
  <2>1. Grant(cmd) /\ busy' = busy
    BY <1>2 DEF Release
  <2>2. granted' \in Nat /\ granted <= granted' /\ granted' <= SectorCount(cmd.count)
    BY <1>1, <2>1, GrantRight
  <2> QED
    BY <1>1, <1>2, <2>1, <2>2
<1>3. CASE ~(l > 0)
  <2>1. granted' = granted /\ busy' = FALSE
    BY <1>3 DEF Release
  <2> QED
    BY <1>1, <1>3, <2>1
<1> QED
  BY <1>2, <1>3

\* WRITE SECTORS: the host's sector is in the buffer.
LEMMA WFetchKeeps ==
    ASSUME IInv, ~Slow, WFetch
    PROVE  IInv'
<1> USE DEF IInv
<1>1. /\ UNCHANGED <<disk, spb, core, cmd, adr, left, block, at, first, fpos, history>>
      /\ pc = "wfetch" /\ pc' = "wupdate" /\ Fetch
  BY DEF WFetch
<1>2. DriveInv' /\ Begin' = Begin /\ Total' = Total /\ SameDisk
  BY <1>1, SameFrame DEF core
<1>3. Moved' = Moved /\ Moved \in Nat
  BY <1>1, <1>2, LoopFacts DEF Moved
<1>4. buf' \in Seq(Int) /\ Len(buf') = 1 /\ Fetched(buf', Moved)
  <2>1. buf = << >>
    BY <1>1 DEF BufInv
  <2>2. PICK n \in Nat : n = Moved
    BY <1>3
  <2>3. Fetched(buf, n) /\ Len(buf) = 0
    BY <2>1 DEF Fetched
  <2>4. DriveInv /\ TypeInv /\ Fetch /\ Moved \in Nat
    BY <1>1, <1>3
  <2> HIDE DEF IInv
  <2>5. buf' \in Seq(Int) /\ Len(buf') = Len(buf) + 1 /\ Fetched(buf', n)
    BY <2>2, <2>3, <2>4, FetchRight
  <2> QED
    BY <2>2, <2>3, <2>5
<1> USE <1>1, <1>2, <1>3 DEF core, host, loop, history
<1>5. TypeInv'
  BY <1>4 DEF TypeInv, Reading, Writing
<1>6. CoreInv'
  BY DEF CoreInv, Active, Reading, Writing
<1>7. LoopInv'
  BY DEF LoopInv, Reading, Writing
<1>8. AdrInv' /\ AtInv'
  BY DEF AdrInv, AtInv, Index, Behind, Reading, Writing
<1>9. FileInv'
  BY DEF FileInv, WritesAt, Index, Reading, Writing
<1>10. RegsInv'
  BY DEF RegsInv, Reading
<1>11. HistInv'
  BY DEF HistInv, Index, SentRight, WrittenRight, Reading, Writing
<1>12. BufInv'
  <2>1. Fetched(buf', Index' - 1)
    BY <1>4 DEF Index
  <2> QED
    BY <1>4, <2>1 DEF BufInv, Writing
<1> QED
  BY <1>2, <1>5, <1>6, <1>7, <1>8, <1>9, <1>10, <1>11, <1>12

\* WRITE SECTORS: the core is released before the sector is in the file.
LEMMA WUpdateKeeps ==
    ASSUME IInv, ~Slow, WUpdate
    PROVE  IInv'
<1>0. /\ DriveInv /\ TypeInv /\ CoreInv /\ LoopInv /\ AdrInv /\ AtInv
      /\ FileInv /\ RegsInv /\ HistInv /\ BufInv
  BY DEF IInv
<1>1. /\ UNCHANGED <<disk, spb, req, tf, fifo, drained, pushed, cmd, block, at, fpos, buf,
                     sent, written, failed>>
      /\ pc = "wupdate" /\ pc' = "wfile" /\ first' = FALSE
      /\ adr' = Advanced(adr, 1, first) /\ regs' = IF first THEN regs ELSE Shown(adr')
      /\ left' = left - 1 /\ Release(left')
  BY DEF WUpdate, history
<1>2. DriveInv' /\ Begin' = Begin /\ Total' = Total /\ disk' = disk
  BY <1>0, <1>1, SameFrame
<1>3. /\ left \in 1 .. Total /\ Total \in 1 .. MaxCount /\ MaxCount \in Nat
      /\ Moved \in Nat /\ Begin \in Nat /\ disk.format # "none" /\ block = 0
  BY <1>0, <1>1, LoopFacts, CountAssumption DEF LoopInv, Writing
<1>4. Moved' = Moved + 1
  <2>1. Moved = Total - left /\ Moved' = Total - (left - 1)
    BY <1>1, <1>2 DEF Moved
  <2> QED
    BY <1>3, <2>1
<1>5. left' \in 0 .. Total /\ left' \in 0 .. MaxCount /\ left' < Total /\ block' \in 0 .. left'
      /\ (left' # 0 <=> left' > 0)
  BY <1>1, <1>3
<1>6. OnTrack(adr', disk.geo) /\ adr'.lba = Nth(Begin, Moved')
  BY <1>0, <1>1, <1>4, Further DEF Behind
<1>7. fifo = 0 /\ ~req /\ busy /\ tf = cmd /\ granted <= SectorCount(tf.count)
  BY <1>0, <1>1 DEF CoreInv, Active, Writing
<1>8. LbaOf(disk.geo, regs') = adr'.lba
  <2>1. CASE first
    <3>1. LbaOf(disk.geo, regs) = adr.lba
      BY <1>0, <1>1, <1>7 DEF RegsInv
    <3>2. adr.lba = Nth(Begin, 1) /\ Moved = 0
      BY <1>0, <1>1, <2>1 DEF AdrInv, Behind
    <3>3. Moved' = 1 /\ regs' = regs
      BY <1>1, <1>4, <2>1, <3>2
    <3>4. adr'.lba = Nth(Begin, 1)
      BY <1>6, <3>3
    <3> QED
      BY <3>1, <3>2, <3>3, <3>4
  <2>2. CASE ~first
    BY <1>1, <1>6, <2>2, ShownLba
  <2> QED
    BY <2>1, <2>2
<1>9. /\ granted' \in Nat /\ pushed' \in 0 .. granted' /\ granted' <= SectorCount(cmd.count)
      /\ left' # 0 => busy' = busy
      /\ busy' \in BOOLEAN
  BY <1>0, <1>1, <1>5, <1>7, ReleaseRight
<1>10. TypeInv'
  <2>1. pc' # "idle" /\ pc' \in {"idle", "return"} \cup Reading \cup Writing
    BY <1>1 DEF Writing
  <2>2. left' <= Total' /\ OnTrack(adr', disk'.geo) /\ cmd'.cmd \in Data
    BY <1>0, <1>1, <1>2, <1>3, <1>5, <1>6 DEF TypeInv
  <2>3. /\ req' \in BOOLEAN /\ first' \in BOOLEAN /\ failed' \in BOOLEAN
        /\ fifo' \in Nat /\ drained' \in Nat /\ fpos' \in 0 .. Room /\ at' \in 0 .. LbaMod - 1
        /\ sent' \in Seq(Place) /\ buf' \in Seq(Int) /\ written' \in Seq(Place \X Int)
    BY <1>0, <1>1 DEF TypeInv
  <2> QED
    BY <1>5, <1>9, <2>1, <2>2, <2>3 DEF TypeInv
<1>11. CoreInv'
  <2>1. granted' <= SectorCount(tf'.count)
    BY <1>1, <1>7, <1>9
  <2>2. ~req' /\ tf' = cmd' /\ fifo' = 0 /\ (left' # 0 => busy') /\ pc' = "wfile"
    BY <1>1, <1>7, <1>9
  <2>3. 0 <= MaxBurst + 1
    BY BurstAssumption
  <2> QED
    BY <2>1, <2>2, <2>3 DEF CoreInv, Active, Reading, Writing
<1>12. LoopInv'
  BY <1>1, <1>2, <1>3, <1>5 DEF LoopInv, Reading, Writing
<1>13. AdrInv'
  BY <1>1, <1>2, <1>6 DEF AdrInv, Behind
<1>14. Index = Moved + 1 /\ Index' = Moved + 1
  BY <1>1, <1>4 DEF Index
<1>15. AtInv'
  BY <1>0, <1>1, <1>2, <1>14 DEF AtInv, Reading, Writing
<1>16. FileInv'
  BY <1>0, <1>1, <1>2, <1>14 DEF FileInv, Reading, Writing
<1>17. RegsInv'
  BY <1>1, <1>2, <1>7, <1>8 DEF RegsInv, Reading
<1>18. HistInv'
  <2>1. SentRight' = SentRight /\ WrittenRight' = WrittenRight
    BY <1>1, <1>2 DEF SentRight, WrittenRight
  <2>2. ~failed => SentRight /\ WrittenRight /\ Len(written) + 1 = Index
    BY <1>0, <1>1 DEF HistInv, Writing
  <2> QED
    BY <1>1, <1>14, <2>1, <2>2 DEF HistInv, Reading, Writing
<1>19. BufInv'
  BY <1>0, <1>1, <1>14 DEF BufInv, Writing
<1> QED
  BY <1>2, <1>10, <1>11, <1>12, <1>13, <1>15, <1>16, <1>17, <1>18, <1>19 DEF IInv

\* WRITE SECTORS: the sector is written, perhaps while the next command waits.
LEMMA WFileKeeps ==
    ASSUME IInv, ~Slow, WFile
    PROVE  IInv'
<1>0. /\ DriveInv /\ TypeInv /\ CoreInv /\ LoopInv /\ AdrInv /\ AtInv
      /\ FileInv /\ RegsInv /\ HistInv /\ BufInv
  BY DEF IInv
<1>1. /\ UNCHANGED <<spb, busy, req, tf, regs, fifo, drained, granted, pushed, cmd, adr,
                     left, block, first, sent>>
      /\ pc = "wfile" /\ WriteBuf /\ at' = (at + 1) % LbaMod
      /\ pc' = IF left = 0 THEN "return" ELSE "wfetch"
  BY DEF WFile, NextAt, core, host
<1>2. /\ left \in 0 .. Total /\ Total \in 1 .. MaxCount /\ left < Total
      /\ Moved \in Nat /\ Begin \in Nat /\ disk.format # "none" /\ block = 0
  BY <1>0, <1>1, LoopFacts, CountAssumption DEF LoopInv, Writing
<1>3. PICK n \in Nat : n + 1 = Moved
  <2>1. Moved # 0
    BY <1>2 DEF Moved
  <2>2. Moved - 1 \in Nat /\ (Moved - 1) + 1 = Moved
    BY <1>2, <2>1
  <2> QED
    BY <2>2
<1>4. Index = n + 1 /\ at = Nth(Begin, n + 1)
  <2>1. Index = n + 1
    BY <1>1, <1>3 DEF Index
  <2> QED
    BY <1>0, <1>1, <2>1 DEF AtInv, Writing
<1>5. Len(buf) = 1 /\ Fetched(buf, n)
  <2>1. Len(buf) = 1 /\ Fetched(buf, Index - 1)
    BY <1>0, <1>1 DEF BufInv, Writing
  <2>2. n + 1 - 1 = n
    BY <1>3
  <2> QED
    BY <1>4, <2>1, <2>2
<1>6. ~failed => SentRight /\ WrittenRight /\ Len(written) = n
  <2>1. ~failed => SentRight /\ WrittenRight /\ Len(written) + 1 = n + 1
    BY <1>0, <1>1, <1>4 DEF HistInv, Writing
  <2>2. Len(written) \in Nat
    BY <1>0 DEF TypeInv
  <2> QED
    BY <1>3, <2>1, <2>2
<1>7. ~failed /\ disk.format # "MMC" => WritesAt(disk, fpos, at)
  BY <1>0, <1>1, <1>4 DEF FileInv, Writing
<1>8. /\ DiskRight(disk)' /\ SameDisk /\ fpos' \in 0 .. Room /\ failed' \in BOOLEAN
      /\ written' \in Seq(Place \X Int) /\ buf' = << >>
      /\ ~failed' => ~failed /\ Len(written') = n + 1 /\ WrittenRight'
      /\ ~failed' /\ disk.format # "MMC" => WritesAt(disk', fpos', Nth(Begin, n + 1 + 1))
  <2>1. DriveInv /\ TypeInv /\ WriteBuf /\ 1 \in Nat \ {0} /\ Len(buf) = 1 /\ cmd' = cmd
    BY <1>0, <1>1, <1>5
  <2>2. (~failed => Len(written) = n) /\ (~failed => WrittenRight)
    BY <1>6
  <2> QED
    BY <1>3, <1>4, <1>5, <1>7, <2>1, <2>2, WriteRight
<1>9. DriveInv' /\ Begin' = Begin /\ Total' = Total
  BY <1>0, <1>1, <1>8, DriveFrame
<1>10. Moved' = n + 1 /\ n + 1 # 0
  BY <1>1, <1>3, <1>9 DEF Moved
<1>11. at' = Nth(Begin, n + 1 + 1) /\ at' \in 0 .. LbaMod - 1
  <2>1. n + 1 \in Nat \ {0} /\ 1 \in Nat /\ Begin \in Nat /\ n + 1 + 1 \in Nat \ {0}
    BY <1>2, <1>3
  <2>2. (Nth(Begin, n + 1) + 1) % LbaMod = Nth(Begin, n + 1 + 1)
    BY <2>1, NthStep, Zenon
  <2>3. Nth(Begin, n + 1 + 1) \in 0 .. LbaMod - 1
    BY <2>1, NthRange
  <2> QED
    BY <1>1, <1>4, <2>2, <2>3
<1>12. SameDisk
  BY <1>8
<1>13. /\ pc' \in {"return", "wfetch"}
       /\ pc' = "return" => left = 0
       /\ pc' = "wfetch" => left # 0 /\ left >= 1
  BY <1>1, <1>2
<1>14. ~first /\ adr.lba = Nth(Begin, n + 1)
  BY <1>0, <1>1, <1>3 DEF AdrInv, Behind
<1>15. Index' = n + 1 + 1
  BY <1>10, <1>13 DEF Index
<1>16. OnTrack(adr, disk.geo) /\ cmd.cmd \in Data /\ disk'.geo = disk.geo /\ disk'.format = disk.format
  BY <1>0, <1>1, <1>12 DEF TypeInv, SameDisk
<1>17. TypeInv'
  <2>1. pc' # "idle" /\ pc' \in {"idle", "return"} \cup Reading \cup Writing
    BY <1>13 DEF Writing
  <2>2. left' \in 0 .. MaxCount /\ block' \in 0 .. left' /\ left' <= Total'
    BY <1>0, <1>1, <1>2, <1>9 DEF TypeInv
  <2>3. /\ busy' \in BOOLEAN /\ req' \in BOOLEAN /\ first' \in BOOLEAN
        /\ fifo' \in Nat /\ drained' \in Nat /\ granted' \in Nat /\ pushed' \in 0 .. granted'
        /\ sent' \in Seq(Place) /\ buf' \in Seq(Int)
    BY <1>0, <1>1, <1>8 DEF TypeInv
  <2>4. OnTrack(adr', disk'.geo) /\ cmd'.cmd \in Data
    BY <1>1, <1>16
  <2> QED
    BY <1>8, <1>11, <2>1, <2>2, <2>3, <2>4 DEF TypeInv
<1>18. CoreInv'
  <2>1. pc' = "wfetch" => Active
    BY <1>1, <1>13 DEF Active, Writing
  <2>2. pc' = "wfetch" => busy' /\ ~req' /\ tf' = cmd' /\ fifo' = 0
    BY <1>0, <1>1, <2>1 DEF CoreInv, Writing
  <2>3. /\ req' => busy' /\ fifo' = 0 /\ drained' = 0 /\ granted' = 0 /\ pushed' = 0
        /\ granted' <= SectorCount(tf'.count) /\ fifo' <= MaxBurst + 1
    BY <1>0, <1>1 DEF CoreInv
  <2> QED
    BY <1>13, <2>2, <2>3 DEF CoreInv, Active, Reading, Writing
<1>19. LoopInv'
  BY <1>1, <1>2, <1>13, <1>16 DEF LoopInv, Reading, Writing
<1>20. AdrInv'
  BY <1>1, <1>9, <1>10, <1>13, <1>14 DEF AdrInv, Behind
<1>21. AtInv'
  BY <1>9, <1>11, <1>15 DEF AtInv
<1>22. FileInv'
  BY <1>8, <1>9, <1>13, <1>15, <1>16 DEF FileInv, Reading, Writing
<1>23. RegsInv'
  <2>1. (~req => LbaOf(disk.geo, regs) = adr.lba) /\ (req => regs = tf.a)
    BY <1>0, <1>1 DEF RegsInv
  <2> QED
    BY <1>1, <1>13, <1>16, <2>1 DEF RegsInv, Reading
<1>24. HistInv'
  <2>1. ~failed' => SentRight' /\ WrittenRight'
    <3>1. ~failed' => SentRight /\ WrittenRight'
      BY <1>6, <1>8
    <3>2. SentRight => SentRight'
      BY <1>1, <1>9, <1>12 DEF SentRight, SameDisk
    <3> QED
      BY <3>1, <3>2
  <2>2. ~failed' => Len(written') + 1 = Index'
    BY <1>8, <1>15
  <2>3. ~failed' /\ pc' = "return" => Len(written') = Total'
    <3>1. left = 0 => Moved = Total
      BY <1>2 DEF Moved
    <3> QED
      BY <1>3, <1>8, <1>9, <1>13, <3>1
  <2> QED
    BY <1>13, <2>1, <2>2, <2>3 DEF HistInv, Reading, Writing
<1>25. BufInv'
  <2>1. buf' = << >> /\ Fetched(buf', Index' - 1)
    BY <1>8 DEF Fetched
  <2> QED
    BY <1>13, <2>1 DEF BufInv, Writing
<1> QED
  BY <1>9, <1>17, <1>18, <1>19, <1>20, <1>21, <1>22, <1>23, <1>24, <1>25 DEF IInv

\* WRITE MULTIPLE: a block begins.
LEMMA XBlockKeeps ==
    ASSUME IInv, ~Slow, XBlock
    PROVE  IInv'
<1> USE DEF IInv
<1>1. /\ UNCHANGED <<disk, spb, core, cmd, adr, left, at, first, fpos, buf, history>>
      /\ pc = "xblock" /\ pc' = "xfetch" /\ block' = Smaller(left, spb)
  BY DEF XBlock
<1>2. DriveInv' /\ Begin' = Begin /\ Total' = Total /\ SameDisk
  BY <1>1, SameFrame DEF core
<1>3. Moved' = Moved /\ Moved \in Nat
  BY <1>1, <1>2, LoopFacts DEF Moved
<1>4. block' \in 1 .. left
  <2>1. left \in Nat /\ left >= 1 /\ spb \in Nat /\ spb >= 1
    BY <1>1, LoopFacts, CountAssumption DEF LoopInv, DriveInv, Reading, Writing
  <2> QED
    BY <1>1, <2>1 DEF Smaller
<1>5. block' \in 0 .. left' /\ block' >= 1
  <2>1. left \in Nat
    BY <1>1, LoopFacts DEF TypeInv
  <2> QED
    BY <1>1, <1>4, <2>1
<1> USE <1>1, <1>2, <1>3 DEF core, host, loop, history
<1>6. TypeInv'
  BY <1>5 DEF TypeInv, Reading, Writing
<1>7. CoreInv'
  BY DEF CoreInv, Active, Reading, Writing
<1>8. LoopInv'
  BY <1>5 DEF LoopInv, Reading, Writing
<1>9. AdrInv' /\ AtInv'
  BY DEF AdrInv, AtInv, Index, Behind, Reading, Writing
<1>10. FileInv'
  BY DEF FileInv, WritesAt, Index, Reading, Writing
<1>11. RegsInv'
  BY DEF RegsInv, Reading
<1>12. HistInv'
  BY DEF HistInv, Index, SentRight, WrittenRight, Reading, Writing
<1>13. BufInv'
  <2>1. buf = << >> /\ Fetched(buf', Index' - 1)
    BY DEF BufInv, Fetched
  <2>2. 0 < Smaller(block', MaxBlocks)
    <3>1. block' \in Nat /\ block' >= 1 /\ MaxBlocks \in Nat \ {0}
      BY <1>4, BurstAssumption DEF TypeInv
    <3> QED
      BY <3>1 DEF Smaller
  <2> QED
    BY <2>1, <2>2 DEF BufInv, Writing
<1> QED
  BY <1>2, <1>6, <1>7, <1>8, <1>9, <1>10, <1>11, <1>12, <1>13

\* WRITE MULTIPLE: another sector of the host is in the buffer.
LEMMA XFetchKeeps ==
    ASSUME IInv, ~Slow, XFetch
    PROVE  IInv'
<1> USE DEF IInv
<1>1. /\ UNCHANGED <<disk, spb, core, cmd, adr, left, block, at, first, fpos, history>>
      /\ pc = "xfetch" /\ Fetch
      /\ pc' = IF Len(buf') = Smaller(block, MaxBlocks) THEN "xwrite" ELSE "xfetch"
  BY DEF XFetch
<1>2. DriveInv' /\ Begin' = Begin /\ Total' = Total /\ SameDisk
  BY <1>1, SameFrame DEF core
<1>3. Moved' = Moved /\ Moved \in Nat
  BY <1>1, <1>2, LoopFacts DEF Moved
<1>4. buf' \in Seq(Int) /\ Len(buf') = Len(buf) + 1 /\ Fetched(buf', Moved)
  <2>1. PICK n \in Nat : n = Moved
    BY <1>3
  <2>2. Fetched(buf, n)
    <3>1. Fetched(buf, Index - 1)
      BY <1>1 DEF BufInv, Writing
    <3>2. Index = n + 1 /\ n + 1 - 1 = n
      BY <1>1, <2>1 DEF Index
    <3> HIDE DEF IInv
    <3> QED
      BY <3>1, <3>2
  <2>3. DriveInv /\ TypeInv /\ Fetch /\ Moved \in Nat
    BY <1>1, <1>3
  <2> HIDE DEF IInv
  <2>4. buf' \in Seq(Int) /\ Len(buf') = Len(buf) + 1 /\ Fetched(buf', n)
    BY <2>1, <2>2, <2>3, FetchRight
  <2> QED
    BY <2>1, <2>4
<1>5. Len(buf') <= Smaller(block, MaxBlocks)
  <2>1. Smaller(block, MaxBlocks) \in Nat
    BY <1>1, LoopFacts, BurstAssumption DEF Smaller
  <2>2. Len(buf) \in Nat /\ Len(buf) < Smaller(block, MaxBlocks)
    BY <1>1 DEF BufInv, TypeInv
  <2> QED
    BY <1>4, <2>1, <2>2
<1>6. pc' \in {"xwrite", "xfetch"}
  BY <1>1
<1>7. (pc' = "xwrite" <=> Len(buf') = Smaller(block, MaxBlocks)) /\ (pc' = "xfetch" <=> pc' # "xwrite")
  BY <1>1
<1>8. UNCHANGED <<disk, spb, busy, req, tf, regs, fifo, drained, granted, pushed, cmd, adr,
                  left, block, at, first, fpos, sent, written, failed>>
  BY <1>1 DEF core, host, history
<1>9. TypeInv'
  BY <1>1, <1>2, <1>4, <1>6, <1>8 DEF TypeInv, Reading, Writing
<1>10. CoreInv'
  BY <1>1, <1>2, <1>6, <1>8 DEF CoreInv, Active, Reading, Writing
<1>11. LoopInv'
  BY <1>1, <1>2, <1>6, <1>8 DEF LoopInv, Reading, Writing
<1>12. AdrInv'
  BY <1>1, <1>2, <1>3, <1>6, <1>8 DEF AdrInv, Behind
<1>13. Index = Moved + 1 /\ Index' = Moved + 1
  BY <1>1, <1>3, <1>6 DEF Index
<1>14. AtInv'
  BY <1>1, <1>2, <1>6, <1>8, <1>13 DEF AtInv, Reading, Writing
<1>15. FileInv'
  BY <1>1, <1>2, <1>6, <1>8, <1>13 DEF FileInv, Reading, Writing
<1>16. RegsInv'
  BY <1>6, <1>8 DEF RegsInv, Reading
<1>17. HistInv'
  BY <1>1, <1>2, <1>6, <1>8, <1>13 DEF HistInv, SentRight, WrittenRight, Reading, Writing
<1>18. BufInv'
  <2>1. Fetched(buf', Index' - 1)
    BY <1>3, <1>4, <1>13
  <2>2. pc' = "xfetch" => Len(buf') < Smaller(block', MaxBlocks)
    <3>1. Smaller(block, MaxBlocks) \in Nat /\ Len(buf') \in Nat
      BY <1>1, <1>4, LoopFacts, BurstAssumption DEF Smaller
    <3> QED
      BY <1>5, <1>7, <1>8, <3>1
  <2> QED
    BY <1>6, <1>7, <1>8, <2>1, <2>2 DEF BufInv, Writing
<1> QED
  BY <1>2, <1>9, <1>10, <1>11, <1>12, <1>14, <1>15, <1>16, <1>17, <1>18

\* WRITE MULTIPLE: the registers show the last sector of the block, and the core is
\* released.
LEMMA XUpdateKeeps ==
    ASSUME IInv, ~Slow, XUpdate
    PROVE  IInv'
<1>0. /\ DriveInv /\ TypeInv /\ CoreInv /\ LoopInv /\ AdrInv /\ AtInv
      /\ FileInv /\ RegsInv /\ HistInv /\ BufInv
  BY DEF IInv
<1>1. /\ UNCHANGED <<disk, spb, req, tf, fifo, drained, pushed, cmd, adr, left, block, at,
                     first, fpos, buf, sent, written, failed>>
      /\ pc = "xupdate" /\ regs' = Shown(adr) /\ Release(left)
      /\ pc' = IF left = 0 THEN "return" ELSE "xblock"
  BY DEF XUpdate, loop, history
<1>2. DriveInv' /\ Begin' = Begin /\ Total' = Total /\ disk' = disk
  BY <1>0, <1>1, SameFrame
<1>3. /\ left \in 0 .. Total /\ Total \in 1 .. MaxCount /\ MaxCount \in Nat /\ left < Total
      /\ Moved \in Nat /\ Begin \in Nat /\ disk.format # "none" /\ spb >= 1
  BY <1>0, <1>1, LoopFacts, CountAssumption DEF LoopInv, Writing
<1>4. Moved' = Moved /\ Moved # 0
  BY <1>1, <1>2, <1>3 DEF Moved
<1>5. fifo = 0 /\ ~req /\ busy /\ tf = cmd /\ granted <= SectorCount(tf.count)
  BY <1>0, <1>1 DEF CoreInv, Active, Writing
<1>6. LbaOf(disk.geo, regs') = adr.lba
  BY <1>0, <1>1, ShownLba DEF TypeInv
<1>7. /\ granted' \in Nat /\ pushed' \in 0 .. granted' /\ granted' <= SectorCount(cmd.count)
      /\ left # 0 => busy' = busy
      /\ busy' \in BOOLEAN
  <2>1. left # 0 => left > 0
    BY <1>3
  <2> QED
    BY <1>0, <1>1, <1>5, <2>1, ReleaseRight
<1>8. /\ pc' \in {"return", "xblock"}
      /\ pc' = "return" => left = 0
      /\ pc' = "xblock" => left # 0 /\ left >= 1
  BY <1>1, <1>3
<1>9. TypeInv'
  <2>1. pc' # "idle" /\ pc' \in {"idle", "return"} \cup Reading \cup Writing
    BY <1>8 DEF Writing
  <2>2. left' <= Total' /\ OnTrack(adr', disk'.geo) /\ cmd'.cmd \in Data
    BY <1>0, <1>1, <1>2, <1>3 DEF TypeInv
  <2>3. /\ req' \in BOOLEAN /\ first' \in BOOLEAN /\ failed' \in BOOLEAN
        /\ fifo' \in Nat /\ drained' \in Nat /\ fpos' \in 0 .. Room /\ at' \in 0 .. LbaMod - 1
        /\ sent' \in Seq(Place) /\ buf' \in Seq(Int) /\ written' \in Seq(Place \X Int)
        /\ left' \in 0 .. MaxCount /\ block' \in 0 .. left'
    BY <1>0, <1>1 DEF TypeInv
  <2> QED
    BY <1>7, <2>1, <2>2, <2>3 DEF TypeInv
<1>10. CoreInv'
  <2>1. granted' <= SectorCount(tf'.count)
    BY <1>1, <1>5, <1>7
  <2>2. ~req' /\ tf' = cmd' /\ fifo' = 0 /\ (pc' = "xblock" => busy')
    BY <1>1, <1>5, <1>7, <1>8
  <2>3. 0 <= MaxBurst + 1
    BY BurstAssumption
  <2> QED
    BY <1>8, <2>1, <2>2, <2>3 DEF CoreInv, Active, Reading, Writing
<1>11. LoopInv'
  BY <1>1, <1>2, <1>3, <1>8 DEF LoopInv, Reading, Writing
<1>12. AdrInv'
  <2>1. ~first /\ adr.lba = Nth(Begin, Moved)
    BY <1>0, <1>1 DEF AdrInv, Behind
  <2> QED
    BY <1>1, <1>2, <1>4, <1>8, <2>1 DEF AdrInv, Behind
<1>13. Index = Moved + 1 /\ Index' = Moved + 1
  BY <1>1, <1>4, <1>8 DEF Index
<1>14. AtInv'
  BY <1>0, <1>1, <1>2, <1>8, <1>13 DEF AtInv, Reading, Writing
<1>15. FileInv'
  BY <1>0, <1>1, <1>2, <1>8, <1>13 DEF FileInv, Reading, Writing
<1>16. RegsInv'
  BY <1>1, <1>2, <1>5, <1>6, <1>8 DEF RegsInv, Reading
<1>17. HistInv'
  <2>1. SentRight' = SentRight /\ WrittenRight' = WrittenRight
    BY <1>1, <1>2 DEF SentRight, WrittenRight
  <2>2. ~failed => SentRight /\ WrittenRight /\ Len(written) + 1 = Index
    BY <1>0, <1>1 DEF HistInv, Writing
  <2>3. ~failed /\ pc' = "return" => Len(written) = Total
    <3>1. left = 0 => Moved = Total
      BY <1>3 DEF Moved
    <3>2. Len(written) \in Nat
      BY <1>0 DEF TypeInv
    <3> QED
      BY <1>3, <1>8, <1>13, <2>2, <3>1, <3>2
  <2> QED
    BY <1>1, <1>2, <1>8, <1>13, <2>1, <2>2, <2>3 DEF HistInv, Reading, Writing
<1>18. BufInv'
  BY <1>0, <1>1, <1>8, <1>13 DEF BufInv, Writing
<1> QED
  BY <1>2, <1>9, <1>10, <1>11, <1>12, <1>14, <1>15, <1>16, <1>17, <1>18 DEF IInv

\* WRITE MULTIPLE: the buffer is written.
LEMMA XWriteKeeps ==
    ASSUME IInv, ~Slow, XWrite
    PROVE  IInv'
<1>0. /\ DriveInv /\ TypeInv /\ CoreInv /\ LoopInv /\ AdrInv /\ AtInv
      /\ FileInv /\ RegsInv /\ HistInv /\ BufInv
  BY DEF IInv
<1>1. /\ UNCHANGED <<spb, busy, req, tf, regs, fifo, drained, granted, pushed, cmd, sent>>
      /\ pc = "xwrite" /\ WriteBuf /\ at' = (at + Len(buf)) % LbaMod
      /\ adr' = Advanced(adr, Len(buf), first) /\ first' = FALSE
      /\ left' = left - Len(buf) /\ block' = block - Len(buf)
      /\ pc' = IF block' > 0 THEN "xfetch" ELSE "xupdate"
  BY DEF XWrite, NextAt, core, host
<1>2. /\ left \in 0 .. Total /\ left \in 1 .. Total /\ Total \in 1 .. MaxCount /\ MaxCount \in Nat
      /\ block \in 1 .. left /\ block \in Nat /\ left \in Nat /\ Total \in Nat
      /\ Moved \in Nat /\ Begin \in Nat /\ disk.format # "none" /\ spb >= 1
  <2>1. left >= 1 /\ block >= 1 /\ disk.format # "none" /\ spb >= 1
    BY <1>0, <1>1 DEF LoopInv, Writing
  <2> QED
    BY <1>0, <1>1, <2>1, LoopFacts, CountAssumption
<1>3. PICK n \in Nat : n = Moved
  BY <1>2
<1>4. PICK m \in Nat \ {0} : m = Len(buf) /\ m <= block
  <2>1. Len(buf) = Smaller(block, MaxBlocks)
    BY <1>0, <1>1 DEF BufInv
  <2>2. Smaller(block, MaxBlocks) \in 1 .. block
    BY <1>2, BurstAssumption DEF Smaller
  <2> QED
    BY <1>2, <2>1, <2>2
<1>5. Index = n + 1 /\ at = Nth(Begin, n + 1)
  <2>1. Index = n + 1
    BY <1>1, <1>3 DEF Index
  <2> QED
    BY <1>0, <1>1, <2>1 DEF AtInv, Writing
<1>6. Fetched(buf, n)
  <2>1. Fetched(buf, Index - 1)
    BY <1>0, <1>1 DEF BufInv, Writing
  <2>2. n + 1 - 1 = n
    BY <1>3
  <2> QED
    BY <1>5, <2>1, <2>2
<1>7. ~failed => SentRight /\ WrittenRight /\ Len(written) = n
  <2>1. ~failed => SentRight /\ WrittenRight /\ Len(written) + 1 = n + 1
    BY <1>0, <1>1, <1>5 DEF HistInv, Writing
  <2>2. Len(written) \in Nat
    BY <1>0 DEF TypeInv
  <2> QED
    BY <1>3, <2>1, <2>2
<1>8. ~failed /\ disk.format # "MMC" => WritesAt(disk, fpos, at)
  BY <1>0, <1>1, <1>5 DEF FileInv, Writing
<1>9. /\ DiskRight(disk)' /\ SameDisk /\ fpos' \in 0 .. Room /\ failed' \in BOOLEAN
      /\ written' \in Seq(Place \X Int) /\ buf' = << >>
      /\ ~failed' => ~failed /\ Len(written') = n + m /\ WrittenRight'
      /\ ~failed' /\ disk.format # "MMC" => WritesAt(disk', fpos', Nth(Begin, n + m + 1))
  <2>1. DriveInv /\ TypeInv /\ WriteBuf /\ Len(buf) = m /\ cmd' = cmd
    BY <1>0, <1>1, <1>4
  <2>2. (~failed => Len(written) = n) /\ (~failed => WrittenRight)
    BY <1>7
  <2> QED
    BY <1>5, <1>6, <1>8, <2>1, <2>2, WriteRight
<1>10. DriveInv' /\ Begin' = Begin /\ Total' = Total
  BY <1>0, <1>1, <1>9, DriveFrame
<1>11. /\ left' = left - m /\ block' = block - m
       /\ left' \in 0 .. left /\ block' \in 0 .. left' /\ left' < Total /\ left' <= Total
       /\ left' <= MaxCount
  <2>1. left' = left - m /\ block' = block - m /\ m \in Nat \ {0} /\ m <= block
    BY <1>1, <1>4
  <2> QED
    BY <1>2, <2>1
<1>12. Moved' = n + m /\ n + m # 0 /\ n + m \in Nat
  <2>1. Moved' = Total - (left - m) /\ n = Total - left
    BY <1>3, <1>10, <1>11 DEF Moved
  <2>2. m \in Nat \ {0} /\ left \in Nat /\ Total \in Nat /\ n \in Nat
    BY <1>2, <1>3, <1>4
  <2>3. Total - (left - m) = n + m
    BY <2>1, <2>2
  <2>4. n + m \in Nat /\ n + m # 0
    BY <2>2
  <2> QED
    BY <2>1, <2>3, <2>4
<1>13. at' = Nth(Begin, n + m + 1) /\ at' \in 0 .. LbaMod - 1
  <2>1. n + 1 \in Nat \ {0} /\ m \in Nat /\ Begin \in Nat /\ n + m + 1 \in Nat \ {0}
        /\ n + 1 + m = n + m + 1
    BY <1>2, <1>3, <1>4
  <2>2. (Nth(Begin, n + 1) + m) % LbaMod = Nth(Begin, n + 1 + m)
    BY <2>1, NthStep, Zenon
  <2>3. Nth(Begin, n + m + 1) \in 0 .. LbaMod - 1
    BY <2>1, NthRange
  <2>4. at' = (at + m) % LbaMod
    BY <1>1, <1>4
  <2> QED
    BY <1>5, <2>1, <2>2, <2>3, <2>4
<1>14. OnTrack(adr', disk.geo) /\ adr'.lba = Nth(Begin, n + m)
  <2>1. adr' = Advanced(adr, m, first)
    BY <1>1, <1>4
  <2> QED
    BY <1>0, <1>1, <1>3, <2>1, Further DEF Behind
<1>15. /\ pc' \in {"xfetch", "xupdate"}
       /\ pc' = "xfetch" => block' >= 1 /\ left' >= 1
  BY <1>1, <1>2, <1>11
<1>16. Index' = n + m + 1
  BY <1>12, <1>15 DEF Index
<1>17. cmd.cmd \in Data /\ disk'.geo = disk.geo /\ disk'.format = disk.format
  BY <1>0, <1>1, <1>9 DEF TypeInv, SameDisk
<1>18. TypeInv'
  <2>1. pc' # "idle" /\ pc' \in {"idle", "return"} \cup Reading \cup Writing
    BY <1>15 DEF Writing
  <2>2. left' \in 0 .. MaxCount /\ block' \in 0 .. left' /\ left' <= Total'
    BY <1>2, <1>10, <1>11
  <2>3. /\ busy' \in BOOLEAN /\ req' \in BOOLEAN /\ first' \in BOOLEAN
        /\ fifo' \in Nat /\ drained' \in Nat /\ granted' \in Nat /\ pushed' \in 0 .. granted'
        /\ sent' \in Seq(Place)
    BY <1>0, <1>1 DEF TypeInv
  <2>5. buf' \in Seq(Int)
    BY <1>9
  <2>4. OnTrack(adr', disk'.geo) /\ cmd'.cmd \in Data
    BY <1>1, <1>14, <1>17
  <2> QED
    BY <1>9, <1>13, <2>1, <2>2, <2>3, <2>4, <2>5 DEF TypeInv
<1>19. CoreInv'
  <2>1. busy' /\ ~req' /\ tf' = cmd' /\ fifo' = 0
    BY <1>0, <1>1 DEF CoreInv, Active, Writing
  <2>2. granted' <= SectorCount(tf'.count) /\ fifo' <= MaxBurst + 1
    BY <1>0, <1>1 DEF CoreInv
  <2> QED
    BY <1>15, <2>1, <2>2 DEF CoreInv, Active, Reading, Writing
<1>20. LoopInv'
  BY <1>1, <1>2, <1>10, <1>11, <1>15, <1>17 DEF LoopInv, Reading, Writing
<1>21. AdrInv'
  BY <1>1, <1>10, <1>12, <1>14, <1>15 DEF AdrInv, Behind
<1>22. AtInv'
  BY <1>10, <1>13, <1>16 DEF AtInv
<1>23. FileInv'
  BY <1>9, <1>10, <1>15, <1>16, <1>17 DEF FileInv, Reading, Writing
<1>24. RegsInv'
  <2>1. ~req'
    BY <1>0, <1>1 DEF CoreInv, Active, Writing
  <2> QED
    BY <1>15, <2>1 DEF RegsInv, Reading
<1>25. HistInv'
  <2>1. ~failed' => SentRight' /\ WrittenRight'
    <3>1. ~failed' => SentRight /\ WrittenRight'
      BY <1>7, <1>9
    <3>2. SentRight => SentRight'
      BY <1>1, <1>9, <1>10 DEF SentRight, SameDisk
    <3> QED
      BY <3>1, <3>2
  <2>2. ~failed' => Len(written') + 1 = Index'
    BY <1>9, <1>16
  <2> QED
    BY <1>15, <2>1, <2>2 DEF HistInv, Reading, Writing
<1>26. BufInv'
  <2>1. buf' = << >> /\ Fetched(buf', Index' - 1)
    BY <1>9 DEF Fetched
  <2>2. pc' = "xfetch" => 0 < Smaller(block', MaxBlocks)
    <3>1. block' \in Nat /\ MaxBlocks \in Nat \ {0}
      BY <1>2, <1>11, BurstAssumption
    <3> QED
      BY <1>15, <3>1 DEF Smaller
  <2> QED
    BY <1>15, <2>1, <2>2 DEF BufInv, Writing
<1> QED
  BY <1>10, <1>18, <1>19, <1>20, <1>21, <1>22, <1>23, <1>24, <1>25, <1>26 DEF IInv

-----------------------------------------------------------------------------
(* Commands begin and end.                                                  *)

\* What is said of a transfer does not concern a driver at rest.
LEMMA AtRest ==
    ASSUME pc' = "idle"
    PROVE  LoopInv' /\ AdrInv' /\ AtInv' /\ FileInv' /\ BufInv' /\ ~Active'
<1>1. pc' \notin Reading \cup Writing
  BY DEF Reading, Writing
<1> QED
  BY <1>1 DEF LoopInv, AdrInv, AtInv, FileInv, BufInv, Active, Reading, Writing, Behind

\* A command that has moved nothing has moved nothing wrong.
LEMMA NothingMoved ==
    ASSUME pc' = "idle", sent' = << >>, written' = << >>
    PROVE  HistInv'
<1>1. pc' \notin Reading \cup Writing
  BY DEF Reading, Writing
<1>2. SentRight' /\ WrittenRight'
  BY DEF SentRight, WrittenRight
<1> QED
  BY <1>1, <1>2 DEF HistInv

\* The driver returns: all sectors are done, and the registers show the last one.
LEMMA ReturnKeeps ==
    ASSUME IInv, ~Slow, Return
    PROVE  IInv'
<1>0. /\ DriveInv /\ TypeInv /\ CoreInv /\ LoopInv /\ AdrInv /\ AtInv
      /\ FileInv /\ RegsInv /\ HistInv /\ BufInv
  BY DEF IInv
<1>1. /\ UNCHANGED <<disk, spb, busy, req, tf, regs, fifo, drained, granted, pushed, cmd,
                     sent, written, failed>>
      /\ pc = "return" /\ pc' = "idle" /\ adr' = Start /\ left' = 0 /\ block' = 0 /\ at' = 0
      /\ first' = TRUE /\ fpos' = 0 /\ buf' = << >>
  BY DEF Return, core, host, history
<1>2. DriveInv' /\ Begin' = Begin /\ Total' = Total /\ disk' = disk
  BY <1>0, <1>1, SameFrame
<1>3. TypeInv'
  <2>1. 0 \in 0 .. LbaMod - 1 /\ 0 \in 0 .. Room /\ 0 \in 0 .. MaxCount /\ 0 \in 0 .. 0
    BY LbaAssumption, CountAssumption
  <2> QED
    BY <1>0, <1>1, <2>1 DEF TypeInv
<1>4. CoreInv'
  BY <1>0, <1>1, AtRest DEF CoreInv, Reading, Writing
<1>5. RegsInv'
  <2>1. left = 0 /\ adr.lba = Nth(Begin, Moved)
    BY <1>0, <1>1 DEF LoopInv, AdrInv, Behind
  <2>2. Moved = Total
    BY <1>0, <1>1, <2>1, LoopFacts DEF Moved
  <2>3. ~req => LbaOf(disk.geo, regs) = adr.lba
    BY <1>0, <1>1 DEF RegsInv
  <2>4. req => regs = tf.a
    BY <1>0 DEF RegsInv
  <2> QED
    BY <1>1, <1>2, <2>1, <2>2, <2>3, <2>4 DEF RegsInv, Reading
<1>6. HistInv'
  <2>1. SentRight' = SentRight /\ WrittenRight' = WrittenRight
    BY <1>1, <1>2 DEF SentRight, WrittenRight
  <2>2. ~failed => SentRight /\ WrittenRight /\ (written # << >> => Len(written) = Total)
    BY <1>0, <1>1 DEF HistInv
  <2> QED
    BY <1>1, <1>2, <2>1, <2>2 DEF HistInv, Reading, Writing
<1> QED
  BY <1>1, <1>2, <1>3, <1>4, <1>5, <1>6, AtRest DEF IInv

\* The task file while a command waits to be found.
LEMMA Found ==
    ASSUME IInv, Accept
    PROVE  /\ pc = "idle" /\ req /\ busy /\ fifo = 0 /\ drained = 0 /\ granted = 0 /\ pushed = 0
           /\ regs = tf.a /\ Given(tf) /\ adr = Start
           /\ req' = FALSE /\ cmd' = tf /\ sent' = << >> /\ written' = << >> /\ failed' = FALSE
BY DEF IInv, Accept, CoreInv, RegsInv, DriveInv, TypeInv

\* A command is aborted before it has moved anything.
LEMMA AbortKeeps ==
    ASSUME IInv, ~Slow, Abort
    PROVE  IInv'
<1>0. DriveInv /\ TypeInv /\ CoreInv
  BY DEF IInv
<1>1. Accept /\ busy' = FALSE /\ regs' = tf.a
      /\ UNCHANGED <<disk, spb, tf, fifo, drained, granted, pushed, pc, adr, left, block, at, first,
                     fpos, buf>>
  BY DEF Abort, host, loop
<1>2. /\ pc = "idle" /\ pc' = "idle" /\ granted = 0 /\ Given(tf) /\ adr = Start
      /\ req' = FALSE /\ cmd' = tf /\ sent' = << >> /\ written' = << >> /\ failed' = FALSE
  BY <1>1, Found
<1>3. DriveInv'
  BY <1>0, <1>1, <1>2 DEF DriveInv, DiskRight
<1>4. TypeInv'
  <2>1. /\ left' \in 0 .. MaxCount /\ block' \in 0 .. left' /\ fpos' \in 0 .. Room
        /\ at' \in 0 .. LbaMod - 1 /\ buf' \in Seq(Int) /\ first' \in BOOLEAN
        /\ drained' \in Nat /\ granted' \in Nat /\ pushed' \in 0 .. granted'
    BY <1>0, <1>1 DEF TypeInv
  <2>2. sent' \in Seq(Place) /\ written' \in Seq(Place \X Int)
    BY <1>2
  <2>3. adr' = Start /\ busy' \in BOOLEAN /\ req' \in BOOLEAN /\ failed' \in BOOLEAN
    BY <1>1, <1>2
  <2>4. fifo' \in Nat
    BY <1>0, <1>1 DEF TypeInv
  <2> QED
    BY <1>2, <2>1, <2>2, <2>3, <2>4 DEF TypeInv
<1>5. CoreInv'
  BY <1>0, <1>1, <1>2, AtRest DEF CoreInv, Reading
<1>6. RegsInv'
  BY <1>2 DEF RegsInv, Reading
<1> QED
  BY <1>2, <1>3, <1>4, <1>5, <1>6, AtRest, NothingMoved DEF IInv

\* A command without data, or IDENTIFY.
LEMMA SimpleKeeps ==
    ASSUME IInv, ~Slow, Simple
    PROVE  IInv'
<1>0. DriveInv /\ TypeInv /\ CoreInv
  BY DEF IInv
<1>1. /\ Accept /\ busy' = FALSE
      /\ spb' = IF tf.cmd = "SET_MULTIPLE" THEN tf.count ELSE spb
      /\ fifo' = IF tf.cmd = "IDENTIFY" THEN 1 ELSE fifo
      /\ UNCHANGED <<disk, tf, drained, granted, pushed, pc, adr, left, block, at, first, fpos, buf>>
  BY DEF Simple, loop
<1>2. /\ pc = "idle" /\ pc' = "idle" /\ granted = 0 /\ Given(tf) /\ adr = Start /\ fifo = 0
      /\ req' = FALSE /\ cmd' = tf /\ sent' = << >> /\ written' = << >> /\ failed' = FALSE
  BY <1>1, Found
<1>3. DriveInv'
  <2>1. spb' \in Multiple \cup {0}
    BY <1>0, <1>1, <1>2 DEF DriveInv, Given
  <2> QED
    BY <1>0, <1>1, <1>2, <2>1 DEF DriveInv, DiskRight
<1>4. TypeInv'
  <2>1. /\ left' \in 0 .. MaxCount /\ block' \in 0 .. left' /\ fpos' \in 0 .. Room
        /\ at' \in 0 .. LbaMod - 1 /\ buf' \in Seq(Int) /\ first' \in BOOLEAN
        /\ drained' \in Nat /\ granted' \in Nat /\ pushed' \in 0 .. granted'
    BY <1>0, <1>1 DEF TypeInv
  <2>2. sent' \in Seq(Place) /\ written' \in Seq(Place \X Int)
    BY <1>2
  <2>3. adr' = Start /\ busy' \in BOOLEAN /\ req' \in BOOLEAN /\ failed' \in BOOLEAN
    BY <1>1, <1>2
  <2>4. fifo' \in Nat
    BY <1>0, <1>1 DEF TypeInv
  <2> QED
    BY <1>2, <2>1, <2>2, <2>3, <2>4 DEF TypeInv
<1>5. CoreInv'
  <2>1. fifo' \in {0, 1} /\ fifo' <= MaxBurst + 1
    BY <1>1, <1>2, BurstAssumption
  <2> QED
    BY <1>0, <1>1, <1>2, <2>1, AtRest DEF CoreInv, Reading
<1>6. RegsInv'
  BY <1>2 DEF RegsInv, Reading
<1> QED
  BY <1>2, <1>3, <1>4, <1>5, <1>6, AtRest, NothingMoved DEF IInv

\* Another medium is inserted.
LEMMA ChangeMediumKeeps ==
    ASSUME MediaSized, Addressed, RoomAddressed, IInv, ~Slow, ChangeMedium
    PROVE  IInv'
<1>0. DriveInv /\ TypeInv /\ CoreInv /\ RegsInv
  BY DEF IInv
<1>1. /\ pc = "idle" /\ pc' = "idle" /\ disk' \in Inserted /\ spb' = 0
      /\ sent' = << >> /\ written' = << >>
      /\ UNCHANGED <<busy, req, tf, regs, fifo, drained, granted, pushed, cmd, adr, left, block, at,
                     first, fpos, buf, failed>>
  BY DEF ChangeMedium, core, host, loop
<1>2. DriveInv'
  <2>1. PICK d \in Inserted : d = disk'
    BY <1>1
  <2>2. DiskRight(disk)'
    BY <2>1, InsertedRight DEF DiskRight
  <2> QED
    BY <1>0, <1>1, <2>2 DEF DriveInv
<1>3. TypeInv'
  BY <1>0, <1>1 DEF TypeInv
<1>4. CoreInv'
  BY <1>0, <1>1, AtRest DEF CoreInv, Reading
<1>5. RegsInv'
  BY <1>0, <1>1 DEF RegsInv, Reading
<1> QED
  BY <1>1, <1>2, <1>3, <1>4, <1>5, AtRest, NothingMoved DEF IInv

\* The host takes a sector; only the last one of a command ends it.
LEMMA HostReadsKeeps ==
    ASSUME IInv, ~Slow, HostReads
    PROVE  IInv'
<1>0. /\ DriveInv /\ TypeInv /\ CoreInv /\ LoopInv /\ AdrInv /\ AtInv
      /\ FileInv /\ RegsInv /\ HistInv /\ BufInv
  BY DEF IInv
<1>1. /\ UNCHANGED <<disk, spb, req, tf, regs, granted, pushed, pc, cmd, adr, left, block, at,
                     first, fpos, buf, sent, written, failed>>
      /\ fifo > 0 /\ fifo' = fifo - 1 /\ drained' = drained + 1
      /\ busy' = (busy /\ drained' # SectorCount(tf.count))
  BY DEF HostReads, loop, history
<1>2. DriveInv' /\ Begin' = Begin /\ Total' = Total /\ SameDisk
  BY <1>0, <1>1, SameFrame
<1>3. Moved' = Moved /\ Index' = Index /\ Active' = Active
  BY <1>1, <1>2 DEF Moved, Index, Active
<1>4. fifo \in Nat /\ fifo # 0 /\ drained \in Nat /\ ~req /\ fifo <= MaxBurst + 1 /\ MaxBurst \in Nat
  BY <1>0, <1>1, BurstAssumption DEF TypeInv, CoreInv
<1>5. fifo' \in Nat /\ drained' \in Nat /\ fifo' <= fifo /\ fifo' <= MaxBurst + 1
      /\ drained' + fifo' = drained + fifo /\ drained' <= drained + fifo
  BY <1>1, <1>4
<1>6. ASSUME Active
      PROVE  pc \in Reading /\ busy'
  <2>1. pc \in Reading /\ busy /\ tf = cmd
    BY <1>0, <1>1, <1>4, <1>6 DEF CoreInv, Active
  <2>2. drained + fifo <= Moved /\ left >= 1
    BY <1>0, <2>1 DEF CoreInv, LoopInv, Reading
  <2>3. left \in 0 .. Total /\ Total \in 1 .. MaxCount /\ MaxCount \in Nat /\ pc # "idle"
    BY <1>0, <2>1, LoopFacts, CountAssumption DEF Reading
  <2>4. Moved < Total /\ Moved \in Nat
    BY <2>2, <2>3 DEF Moved
  <2>5. drained' < Total
    BY <1>4, <1>5, <2>2, <2>3, <2>4
  <2>6. drained' # SectorCount(tf.count)
    BY <1>5, <2>1, <2>3, <2>5 DEF Total
  <2> QED
    BY <1>1, <2>1, <2>6
<1>7. TypeInv'
  <2>1. busy' \in BOOLEAN
    BY <1>0, <1>1 DEF TypeInv
  <2> QED
    BY <1>0, <1>1, <1>2, <1>5, <2>1 DEF TypeInv
<1>8. CoreInv'
  <2>1. pc \in {"rupdate", "rsend", "msend"} => fifo <= 1
    BY <1>0 DEF CoreInv
  <2>2. pc \in {"rupdate", "rsend", "msend"} => fifo' <= 1
    BY <1>4, <1>5, <2>1
  <2>3. pc \in Reading => drained' + fifo' <= Moved
    BY <1>0, <1>5 DEF CoreInv
  <2>4. Active /\ pc \in Writing => FALSE
    BY <1>6 DEF Reading, Writing
  <2>5. granted' <= SectorCount(tf'.count) /\ (Active' => tf' = cmd')
    BY <1>0, <1>1, <1>3 DEF CoreInv
  <2> QED
    BY <1>1, <1>3, <1>4, <1>5, <1>6, <2>2, <2>3, <2>4, <2>5 DEF CoreInv
<1>9. LoopInv' /\ AdrInv' /\ AtInv'
  BY <1>0, <1>1, <1>2, <1>3 DEF LoopInv, AdrInv, AtInv
<1>10. FileInv' /\ BufInv' /\ RegsInv'
  BY <1>0, <1>1, <1>2, <1>3 DEF FileInv, BufInv, RegsInv
<1>11. HistInv'
  BY <1>0, <1>1, <1>2, <1>3 DEF HistInv, SentRight, WrittenRight
<1> QED
  BY <1>2, <1>7, <1>8, <1>9, <1>10, <1>11 DEF IInv

\* The host sends a sector it was asked for.
LEMMA HostWritesKeeps ==
    ASSUME IInv, ~Slow, HostWrites
    PROVE  IInv'
<1>0. /\ DriveInv /\ TypeInv /\ CoreInv /\ LoopInv /\ AdrInv /\ AtInv
      /\ FileInv /\ RegsInv /\ HistInv /\ BufInv
  BY DEF IInv
<1>1. /\ UNCHANGED <<disk, spb, busy, req, tf, regs, fifo, drained, granted, pc, cmd, adr, left,
                     block, at, first, fpos, buf, sent, written, failed>>
      /\ pushed < granted /\ pushed' = pushed + 1
  BY DEF HostWrites, loop, history
<1>2. DriveInv' /\ Begin' = Begin /\ Total' = Total /\ SameDisk
  BY <1>0, <1>1, SameFrame
<1>3. Moved' = Moved /\ Index' = Index /\ Active' = Active
  BY <1>1, <1>2 DEF Moved, Index, Active
<1>4. pushed' \in 0 .. granted'
  BY <1>0, <1>1 DEF TypeInv
<1>5. TypeInv'
  BY <1>0, <1>1, <1>2, <1>4 DEF TypeInv
<1>6. CoreInv'
  <2>1. granted \in Nat /\ pushed \in Nat /\ pushed < granted
    BY <1>0, <1>1 DEF TypeInv
  <2>2. ~req
    BY <1>0, <2>1 DEF CoreInv
  <2> QED
    BY <1>0, <1>1, <1>2, <1>3, <2>2 DEF CoreInv
<1>7. LoopInv' /\ AdrInv' /\ AtInv'
  BY <1>0, <1>1, <1>2, <1>3 DEF LoopInv, AdrInv, AtInv
<1>8. FileInv' /\ BufInv' /\ RegsInv'
  BY <1>0, <1>1, <1>2, <1>3 DEF FileInv, BufInv, RegsInv
<1>9. HistInv'
  BY <1>0, <1>1, <1>2, <1>3 DEF HistInv, SentRight, WrittenRight
<1> QED
  BY <1>2, <1>5, <1>6, <1>7, <1>8, <1>9 DEF IInv

\* The host gives a command up.
LEMMA HostGivesUpKeeps ==
    ASSUME IInv, ~Slow, HostGivesUp
    PROVE  IInv'
<1>0. /\ DriveInv /\ TypeInv /\ CoreInv /\ RegsInv /\ HistInv
  BY DEF IInv
<1>1. /\ UNCHANGED <<disk, spb, req, tf, regs, fifo, drained, granted, pushed, pc, cmd, adr, left,
                     block, at, first, fpos, buf, sent, written, failed>>
      /\ ~req /\ pc = "idle" /\ pc' = "idle" /\ busy' = FALSE
  BY DEF HostGivesUp, host, loop, history
<1>2. DriveInv' /\ Begin' = Begin /\ Total' = Total /\ SameDisk
  BY <1>0, <1>1, SameFrame
<1>3. TypeInv'
  BY <1>0, <1>1 DEF TypeInv
<1>4. CoreInv'
  BY <1>0, <1>1, AtRest DEF CoreInv, Reading
<1>5. RegsInv'
  BY <1>0, <1>1, <1>2 DEF RegsInv
<1>6. HistInv'
  BY <1>0, <1>1, <1>2 DEF HistInv, SentRight, WrittenRight, Reading, Writing
<1> QED
  BY <1>1, <1>2, <1>3, <1>4, <1>5, <1>6, AtRest DEF IInv

\* A command is written into the task file, while the driver may still be at the end
\* of the one before.
LEMMA CoreCommandKeeps ==
    ASSUME IInv, ~Slow, NEW c, NEW a, NEW n, CoreCommand(c, a, n),
           Given([cmd |-> c, a |-> a, count |-> n])
    PROVE  IInv'
<1>0. /\ DriveInv /\ TypeInv /\ CoreInv /\ LoopInv /\ AdrInv /\ AtInv
      /\ FileInv /\ RegsInv /\ HistInv /\ BufInv
  BY DEF IInv
<1>1. /\ UNCHANGED <<disk, spb, pc, cmd, adr, left, block, at, first, fpos, buf, sent, written,
                     failed>>
      /\ ~busy /\ busy' = TRUE /\ req' = TRUE /\ tf' = [cmd |-> c, a |-> a, count |-> n]
      /\ regs' = a /\ fifo' = 0 /\ drained' = 0 /\ granted' = 0 /\ pushed' = 0
  BY DEF CoreCommand, loop, history
<1>2. Given(tf')
  BY <1>1
<1>3. DriveInv'
  BY <1>0, <1>1, <1>2 DEF DriveInv, DiskRight
<1>4. Begin' = Begin /\ Total' = Total /\ Moved' = Moved /\ Index' = Index /\ Active' = Active
  BY <1>1 DEF Begin, Total, Moved, Index, Active
<1>5. ~Active
  BY <1>0, <1>1 DEF CoreInv
<1>6. pc \notin Reading /\ pc' \notin Reading
  BY <1>1, <1>5 DEF Active, Reading, Writing
<1>7. TypeInv'
  BY <1>0, <1>1, <1>4 DEF TypeInv
<1>8. CoreInv'
  <2>1. tf'.count \in Nat /\ SectorCount(tf'.count) \in Nat /\ 0 <= MaxBurst + 1
    BY <1>2, CountRange, BurstAssumption DEF Given, Commands
  <2>2. 0 <= SectorCount(tf'.count)
    BY <2>1
  <2> QED
    BY <1>1, <1>4, <1>5, <1>6, <2>1, <2>2 DEF CoreInv, Reading
<1>9. LoopInv' /\ AdrInv' /\ AtInv'
  BY <1>0, <1>1, <1>4 DEF LoopInv, AdrInv, AtInv
<1>10. FileInv' /\ BufInv'
  BY <1>0, <1>1, <1>4 DEF FileInv, BufInv
<1>11. RegsInv'
  BY <1>1 DEF RegsInv
<1>12. HistInv'
  BY <1>0, <1>1, <1>4 DEF HistInv, SentRight, WrittenRight
<1> QED
  BY <1>3, <1>7, <1>8, <1>9, <1>10, <1>11, <1>12 DEF IInv

\* The commands that the host gives are such commands.
LEMMA CommandKeeps ==
    ASSUME IInv, ~Slow, Command
    PROVE  IInv'
<1>1. ASSUME NEW c \in Data, NEW a \in Address, NEW n \in Count, CoreCommand(c, a, n)
      PROVE  IInv'
  <2>1. Given([cmd |-> c, a |-> a, count |-> n])
    BY CountAssumption DEF Given, Commands, Data
  <2> QED
    BY <1>1, <2>1, CoreCommandKeeps
<1>2. ASSUME NEW c \in Plain, CoreCommand(c, NoCmd.a, 1)
      PROVE  IInv'
  <2>1. Given([cmd |-> c, a |-> NoCmd.a, count |-> 1])
    BY DEF Given, Commands, Data, Plain
  <2> QED
    BY <1>2, <2>1, CoreCommandKeeps
<1>3. ASSUME NEW n \in Multiple, CoreCommand("SET_MULTIPLE", NoCmd.a, n)
      PROVE  IInv'
  <2>1. Given([cmd |-> "SET_MULTIPLE", a |-> NoCmd.a, count |-> n])
    BY CountAssumption DEF Given, Commands, Data
  <2> QED
    BY <1>3, <2>1, CoreCommandKeeps
<1> QED
  BY <1>1, <1>2, <1>3 DEF Command

BeginReads == {"rwait", "mblock"}
BeginWrites == {"wfetch", "xblock"}

\* What a command that is not refused begins with.
LEMMA BeginDataKeeps ==
    ASSUME IInv, ~Slow, BeginData
    PROVE  IInv'
<1> DEFINE x == GetParams(tf.a)
           l == x.lba
<1>0. DriveInv /\ TypeInv /\ CoreInv
  BY DEF IInv
<1>1. /\ Accept /\ tf.cmd \in Data /\ ~Refused(tf) /\ ~SeekFails(tf, l)
      /\ adr' = x /\ at' = l /\ SeekFile(SeekTo(tf, l) - disk.offset)
      /\ left' = SectorCount(tf.count) /\ block' = 0 /\ first' = TRUE /\ buf' = << >>
      /\ pc' = CASE tf.cmd = "READ_SECTORS" -> "rwait" [] tf.cmd = "READ_MULTIPLE" -> "mblock"
                 [] tf.cmd = "WRITE_SECTORS" -> "wfetch" [] tf.cmd = "WRITE_MULTIPLE" -> "xblock"
      /\ IF Reads(tf) THEN UNCHANGED granted ELSE Grant(tf)
      /\ UNCHANGED <<spb, busy, tf, regs, fifo, drained, pushed>>
  BY DEF BeginData
<1>2. /\ pc = "idle" /\ req /\ busy /\ fifo = 0 /\ drained = 0 /\ granted = 0 /\ pushed = 0
      /\ regs = tf.a /\ Given(tf) /\ adr = Start
      /\ req' = FALSE /\ cmd' = tf /\ sent' = << >> /\ written' = << >> /\ failed' = FALSE
  BY <1>1, Found
<1>3. /\ disk.format # "none" /\ tf.a \in Address /\ tf.count \in Nat /\ tf.count < MaxCount
      /\ MaxCount \in Nat
  BY <1>1, <1>2, CountAssumption DEF Refused, Given
<1>4. disk \in Disks /\ disk.offset \in Nat /\ DiskRight(disk)
  BY <1>0 DEF DriveInv, DiskRight, Disks
<1>5. OnTrack(x, disk.geo) /\ l \in 0 .. LbaMod - 1 /\ l = LbaOf(disk.geo, tf.a)
  <2>1. OnDisk(x)
    BY <1>0, <1>3, ParamsOnDisk
  <2>2. OnTrack(x, disk.geo)
    BY <2>1, OnDiskTrack
  <2> QED
    BY <1>3, <1>4, <2>2, ParamsLba, ParamsRange
<1> HIDE DEF x
<1>6. l \in Nat /\ l < LbaMod /\ LbaMod \in Nat \ {0}
  BY <1>5, LbaAssumption
<1>7. /\ pc' \in BeginReads \cup BeginWrites
      /\ (pc' \in BeginReads <=> Reads(tf)) /\ (pc' \in BeginWrites <=> ~Reads(tf))
      /\ pc' \in {"mblock", "xblock"} => tf.cmd \in {"READ_MULTIPLE", "WRITE_MULTIPLE"}
      /\ pc' \in BeginWrites => tf.cmd \in {"WRITE_SECTORS", "WRITE_MULTIPLE"}
  BY <1>1 DEF BeginReads, BeginWrites, Data, Reads
<1>8. (pc' \in {"mblock", "xblock"} => spb >= 1) /\ (pc' \in BeginWrites => disk.mode = "rw")
  <2>1. spb \in Nat
    BY <1>0, CountAssumption DEF DriveInv
  <2>2. pc' \in {"mblock", "xblock"} => spb # 0
    BY <1>1, <1>7 DEF Refused
  <2>3. pc' \in BeginWrites => disk.mode = "rw"
    BY <1>1, <1>7 DEF Refused
  <2> QED
    BY <2>1, <2>2, <2>3
\* The file is where the first sector is.
<1>9. /\ DiskRight(disk)' /\ SameDisk /\ fpos' \in 0 .. Room
      /\ disk.format # "MMC" /\ Reads(tf) => ReadsAt(disk', fpos', l)
      /\ disk.format # "MMC" /\ ~Reads(tf) => WritesAt(disk', fpos', l)
  <2>1. fpos \in 0 .. Room
    BY <1>0 DEF TypeInv
  <2>2. CASE disk.format = "MMC"
    BY <1>1, <1>4, <2>1, <2>2 DEF SeekFile, SameDisk, DiskRight
  <2>3. CASE disk.format # "MMC"
    <3> DEFINE p == SeekTo(tf, l) - disk.offset
    <3>1. p \in Nat /\ SeekFile(p)
      <4>1. SeekTo(tf, l) >= disk.offset /\ SeekTo(tf, l) \in Nat
        <5>1. SeekTo(tf, l) \in Nat
          BY <1>4, <1>6 DEF SeekTo, Larger
        <5>2. ~(SeekTo(tf, l) < disk.offset)
          BY <1>1, <2>3 DEF SeekFails
        <5> QED
          BY <1>4, <5>1, <5>2
      <4> QED
        BY <1>1, <1>4, <4>1
    <3>2. /\ DiskRight(disk)' /\ SameDisk /\ fpos' \in 0 .. Room
          /\ fpos' = p \/ fpos' >= disk'.size
          /\ disk.mode # "readonly" => fpos' = Smaller(p, Room)
      <4> HIDE DEF p, l
      <4> QED
        BY <1>4, <2>1, <2>3, <3>1, SeekRight
    <3>3. disk'.offset = disk.offset
      BY <3>2 DEF SameDisk
    <3>4. Reads(tf) => ReadsAt(disk', fpos', l)
      BY <3>2, <3>3 DEF SeekTo, ReadsAt
    <3>5. ASSUME ~Reads(tf)
          PROVE  WritesAt(disk', fpos', l)
      <4>1. p = l - disk.offset /\ l >= disk.offset
        BY <1>4, <1>6, <3>1, <3>5 DEF SeekTo
      <4>2. disk.mode # "readonly"
        BY <1>7, <1>8, <3>5
      <4> QED
        BY <3>2, <3>3, <4>1, <4>2 DEF WritesAt
    <3> QED
      BY <2>3, <3>2, <3>4, <3>5
  <2> QED
    BY <2>2, <2>3
<1>10. DriveInv'
  BY <1>0, <1>1, <1>2, <1>9 DEF DriveInv
<1>11. SameDisk /\ disk'.geo = disk.geo /\ disk'.format = disk.format
  BY <1>9 DEF SameDisk
<1>12. Begin' = l /\ Total' = left' /\ left' \in 1 .. MaxCount /\ Moved' = 0
  <2>1. Begin' = LbaOf(disk'.geo, tf.a)
    BY <1>2 DEF Begin
  <2>7. Total' = left'
    BY <1>1, <1>2 DEF Total
  <2>2. left' \in Nat \ {0} /\ left' <= MaxCount
    BY <1>1, <1>3, CountRange
  <2>3. Moved' = Total' - left'
    BY DEF Moved
  <2>4. Begin' = l
    BY <1>5, <1>11, <2>1
  <2>5. Moved' = 0
    <3>1. \A i \in Nat : i - i = 0
      OBVIOUS
    <3>2. left' \in Nat
      BY <2>2
    <3> QED
      BY <2>3, <2>7, <3>1, <3>2, Zenon
  <2>6. left' \in 1 .. MaxCount
    BY <1>3, <2>2
  <2> QED
    BY <2>4, <2>5, <2>6, <2>7
<1>13. Nth(l, 1) = l
  BY <1>5, <1>6, NthRange
<1>14. granted' \in Nat /\ pushed' \in 0 .. granted' /\ granted' <= SectorCount(tf.count)
  <2>1. SectorCount(tf.count) \in Nat /\ 0 <= SectorCount(tf.count)
    BY <1>3, CountRange
  <2>2. CASE Reads(tf)
    BY <1>1, <1>2, <2>1, <2>2
  <2>3. CASE ~Reads(tf)
    <3>1. spb \in Nat /\ granted \in Nat /\ granted <= SectorCount(tf.count) /\ Grant(tf)
      BY <1>0, <1>1, <1>2, <2>1, <2>3, CountAssumption DEF DriveInv
    <3>2. granted' \in Nat /\ granted <= granted' /\ granted' <= SectorCount(tf.count)
      BY <2>1, <3>1, GrantRight
    <3> QED
      BY <1>1, <1>2, <3>2
  <2> QED
    BY <2>2, <2>3
<1>15. Index' = 1
  BY <1>7, <1>12 DEF Index, BeginReads, BeginWrites
<1> HIDE DEF l
<1>16. TypeInv'
  <2>1. pc' # "idle" /\ pc' \in {"idle", "return"} \cup Reading \cup Writing
    BY <1>7 DEF BeginReads, BeginWrites, Reading, Writing
  <2>2. left' \in 0 .. MaxCount /\ block' \in 0 .. left' /\ left' <= Total'
    BY <1>1, <1>3, <1>12
  <2>3. OnTrack(adr', disk'.geo) /\ cmd'.cmd \in Data
    BY <1>1, <1>2, <1>5, <1>11
  <2>4. buf' \in Seq(Int) /\ sent' \in Seq(Place) /\ written' \in Seq(Place \X Int)
    BY <1>1, <1>2
  <2>5. /\ busy' \in BOOLEAN /\ req' \in BOOLEAN /\ first' \in BOOLEAN /\ failed' \in BOOLEAN
        /\ fifo' \in Nat /\ drained' \in Nat
    BY <1>1, <1>2
  <2>6. at' \in 0 .. LbaMod - 1
    BY <1>1, <1>5
  <2> QED
    BY <1>9, <1>14, <2>1, <2>2, <2>3, <2>4, <2>5, <2>6 DEF TypeInv
<1>17. CoreInv'
  <2>1. busy' /\ ~req' /\ tf' = cmd' /\ fifo' = 0 /\ drained' = 0 /\ 0 <= MaxBurst + 1
    BY <1>1, <1>2, BurstAssumption
  <2>2. granted' <= SectorCount(tf'.count) /\ drained' + fifo' <= Moved'
    BY <1>1, <1>12, <1>14, <2>1
  <2> QED
    BY <1>7, <2>1, <2>2 DEF CoreInv, Active, BeginReads, BeginWrites, Reading, Writing
<1>18. LoopInv'
  <2>1. left' >= 1 /\ block' = 0 /\ disk'.format # "none" /\ spb' = spb
    BY <1>1, <1>3, <1>11, <1>12
  <2> QED
    BY <1>7, <1>8, <2>1 DEF LoopInv, BeginReads, BeginWrites, Reading, Writing
<1>19. AdrInv'
  <2>1. first' = TRUE /\ Moved' = 0 /\ adr'.lba = Nth(Begin', 1)
    BY <1>1, <1>12, <1>13 DEF l
  <2> QED
    BY <1>7, <2>1 DEF AdrInv, BeginReads, BeginWrites, Behind
<1>20. AtInv'
  BY <1>1, <1>12, <1>13, <1>15 DEF AtInv
<1>21. FileInv'
  <2>1. Nth(Begin', Index') = l /\ Moved' + 1 = 1 /\ Nth(Begin', 1) = l
    BY <1>12, <1>13, <1>15
  <2>2. pc' \in Reading => Reads(tf)
    BY <1>7 DEF BeginReads, BeginWrites, Reading
  <2>3. pc' \in Writing => ~Reads(tf)
    BY <1>7 DEF BeginReads, BeginWrites, Writing
  <2> QED
    BY <1>9, <1>11, <2>1, <2>2, <2>3 DEF FileInv
<1>22. RegsInv'
  <2>1. ~req' /\ pc' # "idle" /\ LbaOf(disk'.geo, regs') = adr'.lba
    BY <1>1, <1>2, <1>5, <1>7, <1>11 DEF l, BeginReads, BeginWrites
  <2> QED
    BY <2>1 DEF RegsInv
<1>23. HistInv'
  <2>1. SentRight' /\ WrittenRight'
    BY <1>2 DEF SentRight, WrittenRight
  <2>2. Len(sent') = 0 /\ Len(written') = 0 /\ written' = << >> /\ pc' # "idle" /\ pc' # "return"
    BY <1>2, <1>7 DEF BeginReads, BeginWrites
  <2> QED
    BY <1>12, <1>15, <2>1, <2>2 DEF HistInv
<1>24. BufInv'
  <2>1. buf' = << >> /\ Fetched(buf', Index' - 1)
    BY <1>1 DEF Fetched
  <2> QED
    BY <1>7, <2>1 DEF BufInv, BeginReads, BeginWrites, Writing
<1> QED
  BY <1>10, <1>16, <1>17, <1>18, <1>19, <1>20, <1>21, <1>22, <1>23, <1>24 DEF IInv

-----------------------------------------------------------------------------
(* What is kept implies the properties.                                     *)

\* What is kept holds at first.
LEMMA InitRight ==
    ASSUME MediaSized, Addressed, RoomAddressed, Init
    PROVE  IInv
<1>1. /\ disk \in Inserted /\ spb = 0 /\ tf = NoCmd /\ cmd = NoCmd /\ regs = NoCmd.a
      /\ busy = FALSE /\ req = FALSE /\ fifo = 0 /\ drained = 0 /\ granted = 0 /\ pushed = 0
      /\ pc = "idle" /\ adr = Start /\ left = 0 /\ block = 0 /\ at = 0 /\ first = TRUE
      /\ fpos = 0 /\ buf = << >> /\ sent = << >> /\ written = << >> /\ failed = FALSE
  BY DEF Init
<1>2. DriveInv
  <2>1. DiskRight(disk)
    BY <1>1, InsertedRight DEF DiskRight
  <2>2. Given(NoCmd)
    BY DEF Given, NoCmd, Commands, Data
  <2> QED
    BY <1>1, <2>1, <2>2 DEF DriveInv
<1>3. TypeInv
  <2>1. 0 \in 0 .. LbaMod - 1 /\ 0 \in 0 .. Room /\ 0 \in 0 .. MaxCount /\ 0 \in 0 .. 0
    BY LbaAssumption, CountAssumption
  <2>2. buf \in Seq(Int) /\ sent \in Seq(Place) /\ written \in Seq(Place \X Int)
    BY <1>1
  <2>3. /\ left \in 0 .. MaxCount /\ block \in 0 .. left /\ fpos \in 0 .. Room
        /\ at \in 0 .. LbaMod - 1 /\ pushed \in 0 .. granted
    BY <1>1, <2>1
  <2> QED
    BY <1>1, <2>2, <2>3 DEF TypeInv
<1>4. CoreInv
  <2>1. SectorCount(NoCmd.count) \in Nat
    BY CountRange DEF NoCmd
  <2>2. 0 <= SectorCount(NoCmd.count) /\ 0 <= MaxBurst + 1
    BY <2>1, BurstAssumption
  <2> QED
    BY <1>1, <2>2 DEF CoreInv, Active, Reading, Writing
<1>5. LoopInv /\ AdrInv /\ AtInv
  BY <1>1 DEF LoopInv, AdrInv, AtInv, Behind, Reading, Writing
<1>6. FileInv /\ RegsInv /\ BufInv
  BY <1>1 DEF FileInv, RegsInv, BufInv, Reading, Writing
<1>7. HistInv
  BY <1>1 DEF HistInv, SentRight, WrittenRight, Reading, Writing
<1> QED
  BY <1>2, <1>3, <1>4, <1>5, <1>6, <1>7 DEF IInv

\* A step of something else keeps it.
LEMMA StutterKeeps ==
    ASSUME IInv, UNCHANGED vars
    PROVE  IInv'
<1>0. /\ DriveInv /\ TypeInv /\ CoreInv /\ LoopInv /\ AdrInv /\ AtInv
      /\ FileInv /\ RegsInv /\ HistInv /\ BufInv
  BY DEF IInv
<1>1. UNCHANGED <<disk, spb, busy, req, tf, regs, fifo, drained, granted, pushed, pc, cmd, adr, left,
                  block, at, first, fpos, buf, sent, written, failed>>
  BY DEF vars, core, host, loop, history
<1>2. DriveInv' /\ Begin' = Begin /\ Total' = Total /\ SameDisk
  BY <1>0, <1>1, SameFrame
<1>3. Moved' = Moved /\ Index' = Index /\ Active' = Active
  BY <1>1, <1>2 DEF Moved, Index, Active
<1>4. TypeInv' /\ CoreInv'
  BY <1>0, <1>1, <1>2, <1>3 DEF TypeInv, CoreInv
<1>5. LoopInv' /\ AdrInv' /\ AtInv'
  BY <1>0, <1>1, <1>2, <1>3 DEF LoopInv, AdrInv, AtInv
<1>6. FileInv' /\ BufInv' /\ RegsInv'
  BY <1>0, <1>1, <1>2, <1>3 DEF FileInv, BufInv, RegsInv
<1>7. HistInv'
  BY <1>0, <1>1, <1>2, <1>3 DEF HistInv, SentRight, WrittenRight
<1> QED
  BY <1>2, <1>4, <1>5, <1>6, <1>7 DEF IInv

\* Every step keeps it.
LEMMA StepKeeps ==
    ASSUME MediaSized, Addressed, RoomAddressed, IInv, ~Slow, [Next]_vars
    PROVE  IInv'
<1>1. CASE Driver
  <2>1. CASE Abort \/ Simple \/ BeginData \/ Return
    BY <2>1, AbortKeeps, SimpleKeeps, BeginDataKeeps, ReturnKeeps
  <2>2. CASE RWait \/ RUpdate \/ RSend
    BY <2>2, RWaitKeeps, RUpdateKeeps, RSendKeeps
  <2>3. CASE MBlock \/ MWait \/ MSend
    BY <2>3, MBlockKeeps, MWaitKeeps, MSendKeeps
  <2>4. CASE WFetch \/ WUpdate \/ WFile
    BY <2>4, WFetchKeeps, WUpdateKeeps, WFileKeeps
  <2>5. CASE XBlock \/ XFetch \/ XWrite \/ XUpdate
    BY <2>5, XBlockKeeps, XFetchKeeps, XWriteKeeps, XUpdateKeeps
  <2> QED
    BY <1>1, <2>1, <2>2, <2>3, <2>4, <2>5 DEF Driver
<1>2. CASE Host
  BY <1>2, HostReadsKeeps, HostWritesKeeps, HostGivesUpKeeps DEF Host
<1>3. CASE Command
  BY <1>3, CommandKeeps
<1>4. CASE ChangeMedium
  BY <1>4, ChangeMediumKeeps
<1>5. CASE UNCHANGED vars
  BY <1>5, StutterKeeps
<1> QED
  BY <1>1, <1>2, <1>3, <1>4, <1>5 DEF Next

\* The properties are parts of what is kept.
LEMMA TypeShown ==
    ASSUME IInv
    PROVE  TypeOK
<1>0. DriveInv /\ TypeInv
  BY DEF IInv
<1>1. /\ spb \in Multiple \cup {0} /\ (disk.format # "MMC" => disk.size \in 0 .. Room)
  BY <1>0 DEF DriveInv, DiskRight
<1>2. adr.h \in 0 .. 15 /\ adr.s \in 0 .. 255 /\ adr.lba \in 0 .. LbaMod - 1
  <2>1. CASE pc = "idle"
    BY <1>0, <2>1, LbaAssumption DEF TypeInv, Start
  <2>2. CASE pc # "idle"
    BY <1>0, <2>2 DEF TypeInv, OnTrack
  <2> QED
    BY <2>1, <2>2
<1>3. pc \in {"idle", "return", "rwait", "rupdate", "rsend", "mblock", "mwait", "msend",
              "wfetch", "wupdate", "wfile", "xblock", "xfetch", "xwrite", "xupdate"}
  BY <1>0 DEF TypeInv, Reading, Writing
<1>4. /\ left \in 0 .. MaxCount /\ block \in 0 .. left /\ fpos \in 0 .. Room
      /\ <<fifo, drained>> \in Nat \X Nat /\ pushed \in 0 .. granted
      /\ <<busy, req, first, failed>> \in BOOLEAN \X BOOLEAN \X BOOLEAN \X BOOLEAN
  BY <1>0 DEF TypeInv
<1> QED
  BY <1>1, <1>2, <1>3, <1>4 DEF TypeOK

\* The registers show the last sector of a command that moved data.
LEMMA RegistersShown ==
    ASSUME IInv
    PROVE  RegistersRight
<1>0. DriveInv /\ RegsInv
  BY DEF IInv
<1>1. SUFFICES ASSUME pc = "idle", ~req, sent \o written # << >>
      PROVE  GetParams(regs).lba = Sector(SectorCount(cmd.count))
  BY DEF RegistersRight
<1>2. sent # << >> \/ written # << >>
  BY <1>1
<1>3. LbaOf(disk.geo, regs) = Nth(Begin, Total)
  BY <1>0, <1>1, <1>2 DEF RegsInv
<1>4. Sector(SectorCount(cmd.count)) = Nth(Begin, Total)
  BY ParamsLba DEF Sector, Nth, Begin, Total
<1> QED
  BY <1>3, <1>4, ParamsLba

\* The sectors moved are the sectors asked for.
LEMMA SectorsShown ==
    ASSUME IInv
    PROVE  SectorsRight
<1>0. DriveInv /\ HistInv /\ TypeInv
  BY DEF IInv
<1>1. \A n : Sector(n) = Nth(Begin, n)
  BY ParamsLba DEF Sector, Nth, Begin
<1>2. disk \in Disks /\ Begin \in Nat
  BY <1>0, BeginRange, LbaAssumption DEF DriveInv, DiskRight
<1>3. ASSUME NEW n \in Nat \ {0}
      PROVE  Where(Sector(n)) = PlaceOf(disk.format, disk.offset, Nth(Begin, n))
  <2>1. Nth(Begin, n) \in Nat
    BY <1>2, NthRange, LbaAssumption
  <2> QED
    BY <1>1, <1>2, <2>1, WherePlace
<1>4. Len(sent) \in Nat /\ Len(written) \in Nat
  BY <1>0 DEF TypeInv
<1>5. SUFFICES ASSUME ~failed
      PROVE  /\ \A n \in 1 .. Len(sent) : sent[n] = Where(Sector(n))
             /\ \A n \in 1 .. Len(written) : written[n] = <<Where(Sector(n)), n>>
             /\ pc = "idle" /\ written # << >> => Len(written) = SectorCount(cmd.count)
  BY DEF SectorsRight
<1>6. SentRight /\ WrittenRight
  BY <1>0, <1>5 DEF HistInv
<1>7. ASSUME NEW n \in 1 .. Len(sent)
      PROVE  sent[n] = Where(Sector(n))
  <2>1. n \in Nat \ {0}
    BY <1>4
  <2> QED
    BY <1>3, <1>6, <2>1 DEF SentRight
<1>8. ASSUME NEW n \in 1 .. Len(written)
      PROVE  written[n] = <<Where(Sector(n)), n>>
  <2>1. n \in Nat \ {0}
    BY <1>4
  <2> QED
    BY <1>3, <1>6, <2>1 DEF WrittenRight
<1>9. pc = "idle" /\ written # << >> => Len(written) = SectorCount(cmd.count)
  BY <1>0, <1>5 DEF HistInv, Total
<1> QED
  BY <1>7, <1>8, <1>9

\* The address registers change only in a command that is not over.
LEMMA RegsStep ==
    ASSUME IInv, [Next]_vars
    PROVE  regs' # regs => (~busy /\ busy') \/ (busy /\ (req => pc = "idle"))
<1>0. CoreInv
  BY DEF IInv
<1>1. ASSUME Active
      PROVE  busy /\ ~req
  BY <1>0, <1>1 DEF CoreInv
<1>2. CASE Driver
  <2>1. CASE Abort \/ Simple \/ BeginData
    <3>1. Accept
      BY <2>1 DEF Abort, Simple, BeginData
    <3> QED
      BY <3>1, Found
  <2>2. CASE Return \/ RWait \/ RSend \/ MWait \/ MSend
    BY <2>2 DEF Return, RWait, RSend, MWait, MSend, core
  <2>3. CASE WFetch \/ WFile \/ XBlock \/ XFetch \/ XWrite
    BY <2>3 DEF WFetch, WFile, XBlock, XFetch, XWrite, core
  <2>4. CASE RUpdate \/ MBlock \/ WUpdate \/ XUpdate
    <3>1. Active
      BY <2>4 DEF RUpdate, MBlock, WUpdate, XUpdate, Active, Reading, Writing
    <3> QED
      BY <1>1, <3>1
  <2> QED
    BY <1>2, <2>1, <2>2, <2>3, <2>4 DEF Driver
<1>3. CASE Host
  BY <1>3 DEF Host, HostReads, HostWrites, HostGivesUp
<1>4. CASE Command
  BY <1>4 DEF Command, CoreCommand
<1>5. CASE ChangeMedium
  BY <1>5 DEF ChangeMedium, core
<1>6. CASE UNCHANGED vars
  BY <1>6 DEF vars, core
<1> QED
  BY <1>2, <1>3, <1>4, <1>5, <1>6 DEF Next

\* For all media and commands, with a host that is in time and addresses that are on
\* the disk: every sector that a read sends is the one asked for, in order; every
\* sector of the host is written once, to its place; the registers show the last
\* sector; a burst never overruns the FIFO; and the geometry is that of the disk.
THEOREM TransfersCorrect ==
    ASSUME MediaSized, Addressed, RoomAddressed, ~Slow
    PROVE  Spec => []Inv
<1>1. Init => IInv
  BY InitRight
<1>2. IInv /\ [Next]_vars => IInv'
  BY StepKeeps
<1>3. IInv => TypeOK /\ RegistersRight /\ FifoFits /\ SectorsRight
  <2>1. IInv => FifoFits
    BY DEF IInv, CoreInv, FifoFits
  <2> QED
    BY <2>1, TypeShown, RegistersShown, SectorsShown
<1>4. Spec => []CapacityThere
  BY CapacityCorrect
<1>5. IInv /\ CapacityThere => Inv
  BY <1>3 DEF Inv
<1> QED
  BY <1>1, <1>2, <1>4, <1>5, PTL DEF Spec

\* "We can only update the taskfile when BUSY": under the same conditions, the driver
\* changes the registers only while the command it works on is not over, although
\* the host may begin the next one before the driver is through.
THEOREM RegistersCorrect ==
    ASSUME MediaSized, Addressed, RoomAddressed, ~Slow
    PROVE  Spec => TaskFileWhileBusy
<1>1. Init => IInv
  BY InitRight
<1>2. IInv /\ [Next]_vars => IInv'
  BY StepKeeps
<1>3. IInv /\ [Next]_vars =>
          [regs' # regs => (~busy /\ busy') \/ (busy /\ (req => pc = "idle"))]_vars
  BY RegsStep
<1> QED
  BY <1>1, <1>2, <1>3, PTL DEF Spec, TaskFileWhileBusy
=============================================================================
