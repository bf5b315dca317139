---------------------------- MODULE FilesProofs ----------------------------
(***************************************************************************)
(* Proofs about HardFile: if the table covers the sectors asked for, the   *)
(* position and the cluster in the file object always belong together, for *)
(* every cluster size, table size and image.  Proofs about FileSel: for    *)
(* any directories and any height the browser's window has no gap.         *)
(* Proofs about RomMenu: every upload that fits into the memory of the     *)
(* core is right.                                                          *)
(***************************************************************************)
EXTENDS HardFile, RomMenu, SequenceTheorems, FiniteSetTheorems, WellFoundedInduction, TLAPS

File == [fptr : Nat, clust : Int, size : 1 .. Room, err : BOOLEAN]

\* Can the file still become longer?  w: it is writable.
Grows(w, f) == w /\ f.size < Room

\* The cluster c is a right one for position p of the file f.  Where FatFs had
\* to stop early, it is that of the end, and the end will not move any more.
Good(w, f, p, c) ==
    p > 0 => c = Loc(Smaller(p, f.size)) /\ (p > f.size => ~Grows(w, f))

\* The inductive invariant: unless the card failed, the file, the table, the
\* last place and the entry the driver is about to use are right.
IndexGood ==
    \A n \in 1 .. Entries - 1 : index[n] # Unset => Good(writable, fp, n * step, index[n])

SeekInv ==
    /\ TypeOK
    /\ \E s \in Sizes : step \in StepsOf(s)
    /\ pc # "idle" => Idx < Entries
    /\ pc = "fill" => i <= Idx
    /\ ~fp.err => /\ Good(writable, fp, fp.fptr, fp.clust)
                  /\ Good(writable, fp, mru.lba, mru.clust)
                  /\ IndexGood
                  /\ pc = "jump" => Good(writable, fp, Idx * step, index[Idx])

-----------------------------------------------------------------------------
(* Arithmetic.                                                              *)

\* Division by the size of a cluster, or by the step, keeps the order.
LEMMA DivNat ==
    ASSUME NEW a \in Nat, NEW d \in Nat \ {0}
    PROVE  a \div d \in Nat
OBVIOUS

LEMMA DivMonotone ==
    ASSUME NEW a \in Int, NEW b \in Int, NEW d \in Nat \ {0}, a <= b
    PROVE  a \div d <= b \div d
OBVIOUS

LEMMA LocInt ==
    ASSUME NEW a \in Int
    PROVE  Loc(a) \in Int
BY SizeAssumption DEF Loc

LEMMA LocMonotone ==
    ASSUME NEW a \in Int, NEW b \in Int, a <= b
    PROVE  Loc(a) <= Loc(b)
BY SizeAssumption, DivMonotone, a - 1 \in Int, b - 1 \in Int DEF Loc

\* The smaller of two numbers is one of them, and not above either.
LEMMA SmallerNat ==
    ASSUME NEW a \in Nat, NEW b \in Nat
    PROVE  Smaller(a, b) \in Nat /\ Smaller(a, b) <= a /\ Smaller(a, b) <= b
BY DEF Smaller

-----------------------------------------------------------------------------
(* What FatFs does to a file that is right.                                 *)

\* A file that only became longer where it could keeps what was right.
LEMMA GoodKept ==
    ASSUME NEW w, NEW f \in File, NEW g \in File, f.size <= g.size,
           g.size # f.size => Grows(w, f)
    PROVE  \A p, c \in Int : Good(w, f, p, c) => Good(w, g, p, c)
BY DEF Good, Grows, Smaller, File

\* From a right cluster FatFs finds the right one, forwards or from the start.
LEMMA ChainRight ==
    ASSUME NEW f \in File, Good(writable, f, f.fptr, f.clust), NEW p \in Nat \ {0},
           p > f.size => Grows(writable, f)
    PROVE  Chain(f, p) = Loc(p)
<1>1. CASE f.fptr = 0
  BY <1>1 DEF Chain, File
<1>2. CASE f.fptr > 0 /\ f.fptr <= f.size
  <2>1. f.clust = Loc(f.fptr)
    BY <1>2 DEF Good, Smaller, File
  <2>2. Loc(p) \in Int /\ Loc(f.fptr) \in Int
    BY LocInt DEF File
  <2> QED
    BY <1>2, <2>1, <2>2 DEF Chain
<1>3. CASE f.fptr > f.size
  <2>1. p <= f.size /\ f.clust = Loc(f.size) /\ f.size \in Nat /\ f.fptr \in Nat
    BY <1>3 DEF Good, Smaller, File
  <2>2. Loc(p) \in Int /\ Loc(f.size) \in Int /\ Loc(f.fptr) \in Int
    BY <2>1, LocInt
  <2>3. Loc(p) <= Loc(f.size) /\ Loc(f.size) <= Loc(f.fptr)
    BY <1>3, <2>1, LocMonotone
  <2> QED
    BY <2>1, <2>2, <2>3 DEF Chain
<1> QED
  BY <1>1, <1>2, <1>3 DEF File

LEMMA MoveToGood ==
    ASSUME NEW f \in File, Good(writable, f, f.fptr, f.clust),
           NEW p \in 0 .. Room, p > f.size => Grows(writable, f)
    PROVE  /\ MoveTo(f, p) \in File
           /\ MoveTo(f, p).err = f.err /\ MoveTo(f, p).fptr = p
           /\ p > 0 => MoveTo(f, p).clust = Loc(p)
           /\ p <= MoveTo(f, p).size
           /\ f.size <= MoveTo(f, p).size
           /\ MoveTo(f, p).size # f.size => Grows(writable, f) /\ MoveTo(f, p).size = p
           /\ Good(writable, MoveTo(f, p), p, MoveTo(f, p).clust)
<1> DEFINE g == MoveTo(f, p)
<1>1. Room \in Nat /\ f.size \in 1 .. Room /\ p \in Nat
  BY SizeAssumption DEF File
<1>2. Larger(f.size, p) \in 1 .. Room
  BY <1>1 DEF Larger
<1>3. Chain(f, p) \in Int
  <2>1. CASE p = 0
    BY <2>1 DEF Chain, File
  <2>2. CASE p > 0
    BY <2>2, <1>1, ChainRight, LocInt
  <2> QED
    BY <1>1, <2>1, <2>2
<1>4. g = [fptr |-> p, clust |-> Chain(f, p), size |-> Larger(f.size, p), err |-> f.err]
  BY DEF MoveTo, File
<1>5. p > 0 => Chain(f, p) = Loc(p)
  BY <1>1, ChainRight
<1>6. g \in File
  BY <1>1, <1>2, <1>3, <1>4 DEF File
<1>7. /\ p <= g.size /\ f.size <= g.size
      /\ g.size # f.size => Grows(writable, f) /\ g.size = p
  BY <1>1, <1>4 DEF Larger
<1>8. Good(writable, g, p, g.clust)
  BY <1>1, <1>4, <1>5, <1>6, <1>7 DEF Good, Smaller, File
<1> QED
  BY <1>4, <1>5, <1>6, <1>7, <1>8

\* A seek leaves a file that is right, for the position sought as well.
LEMMA SoughtGood ==
    ASSUME NEW f \in File, ~f.err, Good(writable, f, f.fptr, f.clust), NEW q \in Nat,
           writable \in BOOLEAN
    PROVE  /\ Sought(f, q) \in File /\ ~Sought(f, q).err
           /\ Good(writable, Sought(f, q), Sought(f, q).fptr, Sought(f, q).clust)
           /\ Good(writable, Sought(f, q), q, Sought(f, q).clust)
           /\ f.size <= Sought(f, q).size
           /\ Sought(f, q).size # f.size => Grows(writable, f)
<1>1. CASE q = f.fptr
  <2>1. Sought(f, q) = f
    BY <1>1 DEF Sought
  <2> QED
    BY <1>1, <2>1 DEF File
<1>2. CASE q # f.fptr
  <2> DEFINE p == Reach(f, q)
             g == MoveTo(f, p)
  <2>1. Sought(f, q) = g
    BY <1>2 DEF Sought
  <2>2. Room \in Nat /\ f.size \in 1 .. Room
    BY SizeAssumption DEF File
  <2>3. p \in 0 .. Room /\ (p > f.size => Grows(writable, f))
    BY <2>2 DEF Reach, Smaller, Grows
  <2>4. /\ g \in File /\ g.err = f.err /\ g.fptr = p
        /\ p > 0 => g.clust = Loc(p)
        /\ p <= g.size /\ f.size <= g.size
        /\ g.size # f.size => Grows(writable, f) /\ g.size = p
        /\ Good(writable, g, p, g.clust)
    <3> HIDE DEF p
    <3> QED
      BY <2>3, MoveToGood
  <2>5. Good(writable, g, q, g.clust)
    <3>1. CASE q <= f.size
      BY <3>1, <2>4 DEF Reach
    <3>2. CASE q > f.size /\ writable
      <4>1. p = Smaller(q, Room) /\ p >= f.size /\ p > 0
        BY <3>2, <2>2 DEF Reach, Smaller
      <4>2. g.size = p /\ g.clust = Loc(p)
        <5> HIDE DEF p, g
        <5> QED
          BY <4>1, <2>4, <2>2, <2>3 DEF File
      <4>3. Smaller(q, g.size) = p /\ (q > g.size => g.size = Room)
        BY <4>1, <4>2, <2>2 DEF Smaller
      <4> QED
        BY <4>2, <4>3, <2>2 DEF Good, Grows
    <3>3. CASE q > f.size /\ ~writable
      <4>1. p = f.size /\ p > 0
        BY <3>3, <2>2 DEF Reach
      <4>2. g.size = f.size /\ g.clust = Loc(p)
        <5> HIDE DEF p, g
        <5> QED
          BY <4>1, <2>4, <2>2, <3>3 DEF File, Grows
      <4> QED
        BY <4>1, <4>2, <3>3, <2>2 DEF Good, Grows, Smaller
    <3> QED
      BY <3>1, <3>2, <3>3, <2>2
  <2> QED
    BY <2>1, <2>4, <2>5
<1> QED
  BY <1>1, <1>2

LEMMA BrokenFile ==
    ASSUME NEW f \in File, NEW g \in Broken(f)
    PROVE  g \in File /\ g.err
<1>1. Room \in Nat /\ f.size \in Nat /\ Loc(f.size) \in Int
  BY SizeAssumption, LocInt DEF File
<1>2. PICK p \in {0, f.size}, c \in {0, Loc(f.size)} :
               g = [fptr |-> p, clust |-> c, size |-> f.size, err |-> TRUE]
  BY DEF Broken
<1>3. p \in Nat /\ c \in Int
  BY <1>1, <1>2
<1> QED
  BY <1>2, <1>3 DEF File

LEMMA PlacedGood ==
    ASSUME fp \in File, NEW p \in Nat, NEW c \in Int
    PROVE  /\ Placed(p, c) \in File
           /\ Placed(p, c).fptr = p /\ Placed(p, c).clust = c
           /\ Placed(p, c).size = fp.size /\ Placed(p, c).err = fp.err
           /\ \A q, d \in Int : Good(writable, fp, q, d) <=> Good(writable, Placed(p, c), q, d)
BY DEF Placed, File, Good, Grows

-----------------------------------------------------------------------------
(* The invariant is inductive.                                              *)

LEMMA StepNat ==
    ASSUME NEW s \in Sizes, NEW t \in StepsOf(s)
    PROVE  t \in Nat \ {0}
BY SizeAssumption DEF StepsOf

LEMMA OpenedGood ==
    ASSUME NEW s \in Sizes, NEW p \in 0 .. s
    PROVE  /\ Opened(s, p) \in File /\ ~Opened(s, p).err
           /\ p > 0 => Opened(s, p).clust = Loc(p)
           /\ Opened(s, p).fptr = p /\ p <= Opened(s, p).size
<1>1. Room \in Nat /\ s \in 1 .. Room /\ p \in Nat
  BY SizeAssumption
<1>2. Loc(p) \in Int
  BY <1>1, LocInt
<1> QED
  BY <1>1, <1>2 DEF Opened, File

THEOREM InitSeekInv == Init => SeekInv
<1> SUFFICES ASSUME Init PROVE SeekInv
  OBVIOUS
<1>0. PICK s \in Sizes : \E p \in 0 .. s : fp = Opened(s, p) /\ step \in StepsOf(s)
  BY DEF Init
<1>1. PICK p \in 0 .. s : fp = Opened(s, p) /\ step \in StepsOf(s)
  BY <1>0
<1>2. /\ fp \in File /\ ~fp.err /\ step \in Nat \ {0}
      /\ fp.fptr = p /\ p <= fp.size /\ (p > 0 => fp.clust = Loc(p))
  BY <1>1, OpenedGood, StepNat
<1>3. Entries \in Nat \ {0} /\ Foreign \in Int /\ Room \in Nat
  BY SizeAssumption DEF Foreign
<1>4. index \in [0 .. Entries -> Int] /\ mru \in [lba : Int, clust : Int]
  BY <1>3 DEF Init, NoIndex, NoMru, Unset
<1>5. TypeOK
  <2>1. lba \in Nat /\ i \in 0 .. Entries
    BY <1>3 DEF Init
  <2>2. found \in BOOLEAN
    BY DEF Init
  <2> QED
    BY <1>2, <1>4, <2>1, <2>2 DEF Init, TypeOK, File
<1>6. Good(writable, fp, fp.fptr, fp.clust)
  BY <1>2, <1>3 DEF Good, Smaller, File
<1>7. Good(writable, fp, mru.lba, mru.clust)
  BY DEF Init, NoMru, Good
<1>8. IndexGood
  BY <1>3 DEF Init, NoIndex, IndexGood
<1> QED
  BY <1>1, <1>5, <1>6, <1>7, <1>8 DEF SeekInv, Init

LEMMA InsertKeeps == SeekInv /\ Insert => SeekInv'
<1> SUFFICES ASSUME SeekInv, Insert PROVE SeekInv'
  OBVIOUS
<1>0. PICK s \in Sizes : \E p \in 0 .. s : fp' = Opened(s, p) /\ step' \in StepsOf(s)
  BY DEF Insert
<1>1. PICK p \in 0 .. s : fp' = Opened(s, p) /\ step' \in StepsOf(s)
  BY <1>0
<1>2. /\ fp' \in File /\ ~fp'.err /\ step' \in Nat \ {0}
      /\ fp'.fptr = p /\ p <= fp'.size /\ (p > 0 => fp'.clust = Loc(p))
  BY <1>1, OpenedGood, StepNat
<1>3. Entries \in Nat \ {0} /\ Foreign \in Int /\ Room \in Nat
  BY SizeAssumption DEF Foreign
<1>4. index' \in [0 .. Entries -> Int] /\ mru' \in [lba : Int, clust : Int]
  BY <1>3 DEF Insert, NoIndex, NoMru, Unset
<1>5. TypeOK'
  <2>1. lba' \in Nat /\ i' \in 0 .. Entries
    BY <1>3 DEF Insert
  <2>2. found' \in BOOLEAN /\ pc' = "idle"
    BY DEF Insert
  <2> QED
    BY <1>2, <1>4, <2>1, <2>2 DEF Insert, TypeOK, File
<1>6. Good(writable', fp', fp'.fptr, fp'.clust)
  BY <1>2, <1>3 DEF Good, Smaller, File
<1>7. Good(writable', fp', mru'.lba, mru'.clust)
  BY DEF Insert, NoMru, Good
<1>8. IndexGood'
  BY <1>3 DEF Insert, NoIndex, IndexGood
<1>9. pc' = "idle"
  BY DEF Insert
<1> QED
  BY <1>1, <1>5, <1>6, <1>7, <1>8, <1>9 DEF SeekInv

\* What the invariant says of the types, for the steps below.
LEMMA Types ==
    ASSUME SeekInv
    PROVE  /\ fp \in File /\ writable \in BOOLEAN /\ step \in Nat \ {0}
           /\ index \in [0 .. Entries -> Int] /\ mru \in [lba : Int, clust : Int]
           /\ lba \in Nat /\ i \in 0 .. Entries /\ found \in BOOLEAN
           /\ mru.lba \in Int /\ mru.clust \in Int
           /\ fp.fptr \in Nat /\ fp.clust \in Int /\ fp.size \in 1 .. Room
           /\ Entries \in Nat \ {0} /\ Room \in Nat /\ Idx \in Nat
<1>1. /\ fp \in File /\ writable \in BOOLEAN /\ step \in Nat \ {0}
      /\ index \in [0 .. Entries -> Int] /\ mru \in [lba : Int, clust : Int]
      /\ lba \in Nat /\ i \in 0 .. Entries /\ found \in BOOLEAN
  BY DEF SeekInv, TypeOK, File
<1>2. mru.lba \in Int /\ mru.clust \in Int
  BY <1>1
<1>3. fp.fptr \in Nat /\ fp.clust \in Int /\ fp.size \in 1 .. Room
  BY <1>1 DEF File
<1>4. Idx \in Nat
  BY <1>1, DivNat DEF Idx
<1> QED
  BY <1>1, <1>2, <1>3, <1>4, SizeAssumption

\* The same of the file alone, and of the table's entries.
LEMMA FileTypes ==
    ASSUME SeekInv
    PROVE  /\ fp \in File /\ fp.fptr \in Nat /\ fp.clust \in Int
           /\ fp.size \in Nat /\ fp.size > 0 /\ fp.size <= Room /\ Room \in Nat
<1>1. fp \in File /\ fp.size \in 1 .. Room /\ Room \in Nat /\ fp.fptr \in Nat /\ fp.clust \in Int
  BY Types
<1> QED
  BY <1>1

LEMMA EntryTypes ==
    ASSUME SeekInv, NEW n \in 1 .. Entries - 1
    PROVE  n \in 0 .. Entries /\ n * step \in Nat \ {0} /\ index[n] \in Int
<1>1. Entries \in Nat \ {0} /\ step \in Nat \ {0} /\ index \in [0 .. Entries -> Int]
  BY Types
<1>2. n \in 0 .. Entries /\ n \in Nat \ {0}
  BY <1>1
<1>3. n * step \in Nat \ {0}
  <2> DEFINE st == step
  <2>1. st \in Nat \ {0}
    BY <1>1
  <2> HIDE DEF st
  <2>2. n * st \in Nat \ {0}
    BY <1>2, <2>1
  <2> QED
    BY <2>2 DEF st
<1> QED
  BY <1>1, <1>2, <1>3

\* A step that only sets the position, or lets FatFs move the file, keeps the
\* table and the last place right.
LEMMA TablesKept ==
    ASSUME SeekInv, ~fp.err, fp' \in File, writable' = writable, step' = step,
           fp.size <= fp'.size, fp'.size # fp.size => Grows(writable, fp)
    PROVE  /\ Good(writable', fp', mru.lba, mru.clust)
           /\ index' = index => IndexGood'
           /\ \A p, c \in Int : Good(writable, fp, p, c) => Good(writable', fp', p, c)
<1>1. \A p, c \in Int : Good(writable, fp, p, c) => Good(writable', fp', p, c)
  BY GoodKept, Types
<1>2. \A n \in 1 .. Entries - 1 : n \in Int /\ n * step \in Int /\ index[n] \in Int
  BY EntryTypes
<1>3. index' = index => IndexGood'
  BY <1>1, <1>2 DEF SeekInv, IndexGood
<1> QED
  BY <1>1, <1>3, Types DEF SeekInv

LEMMA CallKeeps ==
    ASSUME InTable, SeekInv, NEW l \in Lba, Call(l)
    PROVE  SeekInv'
<1>1. /\ writable' = writable /\ step' = step /\ index' = index /\ mru' = mru
      /\ found' = found /\ lba' = l /\ fp' = Recall(l)
  BY DEF Call
<1>2. l \in Nat /\ l \div step \in Nat /\ l \div step < Entries /\ Idx' = l \div step
  <2>1. l \in Nat
    BY SizeAssumption
  <2>2. l \div step \in Nat
    BY <2>1, DivNat, Types
  <2>3. l \div step < Entries
    BY DEF InTable, SeekInv
  <2> QED
    BY <1>1, <2>1, <2>2, <2>3 DEF Idx
<1>3. /\ fp' \in File /\ fp'.err = fp.err /\ fp'.size = fp.size
      /\ ~fp.err => Good(writable', fp', fp'.fptr, fp'.clust)
  <2>1. CASE l = mru.lba
    <3>1. fp' = Placed(l, mru.clust)
      BY <1>1, <2>1 DEF Recall
    <3>2. ~fp.err => Good(writable, fp, l, mru.clust)
      BY <2>1 DEF SeekInv
    <3>3. mru.clust \in Int
      BY Types
    <3>4. /\ fp' \in File /\ fp'.fptr = l /\ fp'.clust = mru.clust
          /\ fp'.size = fp.size /\ fp'.err = fp.err
          /\ Good(writable, fp, l, mru.clust) => Good(writable, fp', l, mru.clust)
      BY <1>2, <3>1, <3>3, FileTypes, PlacedGood
    <3> QED
      BY <1>1, <3>2, <3>4
  <2>2. CASE l # mru.lba
    BY <1>1, <2>2, Types DEF Recall, SeekInv
  <2> QED
    BY <2>1, <2>2
<1>4. TypeOK'
  <2>1. pc' \in {"idle", "fill", "jump", "seek"}
    BY <1>2 DEF Call
  <2>2. i' \in 0 .. Entries
    <3>1. i' = i \/ i' \in 0 .. l \div step
      BY DEF Call
    <3>2. i \in 0 .. Entries /\ Entries \in Nat
      BY Types
    <3> DEFINE e == l \div step
    <3>3. e \in Nat /\ e < Entries /\ (i' = i \/ i' \in 0 .. e)
      BY <1>2, <3>1
    <3> HIDE DEF e
    <3> QED
      BY <3>2, <3>3
  <2>3. /\ writable' \in BOOLEAN /\ step' \in Nat \ {0} /\ index' \in [0 .. Entries -> Int]
        /\ mru' \in [lba : Int, clust : Int] /\ lba' \in Nat /\ found' \in BOOLEAN
    BY <1>1, <1>2, Types
  <2> QED
    BY <1>3, <2>1, <2>2, <2>3 DEF TypeOK, File
<1>5. ~fp'.err => Good(writable', fp', mru'.lba, mru'.clust) /\ IndexGood'
  BY <1>1, <1>3, TablesKept, Types
<1>6. pc' = "fill" => i' <= Idx'
  BY <1>2 DEF Call
<1>7. ~fp'.err /\ pc' = "jump" => Good(writable', fp', Idx' * step', index'[Idx'])
  <2>1. CASE l \div step = 0
    BY <1>1, <1>2, <2>1, Types DEF Good
  <2>2. CASE l \div step > 0
    <3>1. pc' = "jump" => index'[Idx'] # Unset
      BY <1>1, <1>2 DEF Call
    <3>2. Idx' \in 1 .. Entries - 1
      BY <1>2, <2>2, SizeAssumption
    <3> QED
      BY <1>1, <1>5, <3>1, <3>2 DEF IndexGood
  <2> QED
    BY <1>2, <2>1, <2>2
<1>8. \E s \in Sizes : step' \in StepsOf(s)
  BY <1>1 DEF SeekInv
<1> QED
  BY <1>2, <1>3, <1>4, <1>5, <1>6, <1>7, <1>8 DEF SeekInv

\* One round of the loop that fills the table.
LEMMA FillKeeps ==
    ASSUME SeekInv, Fill
    PROVE  SeekInv'
<1>1. /\ writable' = writable /\ step' = step /\ mru' = mru /\ found' = found
      /\ lba' = lba /\ pc = "fill" /\ i' = i + 1 /\ Idx' = Idx
      /\ pc' = IF i = Idx THEN "jump" ELSE "fill"
  BY DEF Fill, Idx
<1>2. i \in Nat /\ i <= Idx /\ Idx < Entries /\ Idx \in Nat /\ i * step \in Nat
  <2>1. i <= Idx /\ Idx < Entries
    BY <1>1 DEF SeekInv
  <2>2. i \in Nat /\ Idx \in Nat /\ step \in Nat
    BY Types
  <2> QED
    BY <2>1, <2>2
<1>3. /\ fp' \in File /\ (~fp'.err => ~fp.err)
      /\ ~fp'.err => /\ fp.size <= fp'.size /\ (fp'.size # fp.size => Grows(writable, fp))
                     /\ Good(writable', fp', fp'.fptr, fp'.clust)
                     /\ index[i] = Unset => Good(writable', fp', i * step, fp'.clust)
  <2>1. CASE index[i] # Unset
    <3>1. fp' = fp
      BY <2>1 DEF Fill
    <3>2. ~fp.err => Good(writable, fp, fp.fptr, fp.clust)
      BY DEF SeekInv
    <3> QED
      BY <1>1, <2>1, <3>1, <3>2, Types
  <2>2. CASE index[i] = Unset /\ fp' = Sought(fp, i * step)
    <3>1. CASE fp.err
      BY <2>2, <3>1, Types DEF Sought
    <3>2. CASE ~fp.err
      BY <1>1, <1>2, <2>2, <3>2, SoughtGood, Types DEF SeekInv
    <3> QED
      BY <3>1, <3>2
  <2>3. CASE fp' \in Broken(fp)
    BY <2>3, BrokenFile, Types
  <2> QED
    BY <2>1, <2>2, <2>3 DEF Fill
<1>4. /\ index' \in [0 .. Entries -> Int]
      /\ \A n \in 0 .. Entries : n # i => index'[n] = index[n]
      /\ index[i] # Unset => index'[i] = index[i]
      /\ index[i] = Unset => index'[i] = fp'.clust
  <2>1. fp'.clust \in Int
    BY <1>3 DEF File
  <2> QED
    BY <1>2, <2>1, Types DEF Fill
<1>5. TypeOK'
  <2>1. pc' \in {"idle", "fill", "jump", "seek"} /\ i' \in 0 .. Entries
    BY <1>1, <1>2, Types
  <2> QED
    BY <1>1, <1>3, <1>4, <2>1, Types DEF TypeOK, File
<1>6. ASSUME ~fp'.err PROVE IndexGood'
  <2> SUFFICES ASSUME NEW n \in 1 .. Entries - 1, index'[n] # Unset
               PROVE  Good(writable', fp', n * step', index'[n])
    BY DEF IndexGood
  <2>1. n \in 0 .. Entries /\ n * step \in Int /\ index[n] \in Int
    BY EntryTypes
  <2>2. CASE index[n] # Unset
    <3>1. index'[n] = index[n] /\ Good(writable, fp, n * step, index[n])
      BY <1>3, <1>4, <1>6, <2>1, <2>2 DEF SeekInv, IndexGood
    <3> QED
      BY <1>1, <1>3, <1>6, <2>1, <3>1, TablesKept
  <2>3. CASE index[n] = Unset
    <3>1. n = i
      BY <1>4, <2>1, <2>3
    <3> QED
      BY <1>1, <1>3, <1>4, <1>6, <2>3, <3>1
  <2> QED
    BY <2>2, <2>3
<1>7. ~fp'.err => Good(writable', fp', mru'.lba, mru'.clust)
  BY <1>1, <1>3, TablesKept
<1>8. pc' = "fill" => i' <= Idx'
  BY <1>1, <1>2
<1>9. ASSUME ~fp'.err, pc' = "jump" PROVE Good(writable', fp', Idx' * step', index'[Idx'])
  <2>1. i = Idx
    BY <1>1, <1>9
  <2>2. CASE i = 0
    BY <1>1, <2>1, <2>2, Types DEF Good
  <2>3. CASE i > 0 /\ index[i] = Unset
    BY <1>1, <1>3, <1>4, <1>9, <2>1, <2>3
  <2>4. CASE i > 0 /\ index[i] # Unset
    <3>1. i \in 1 .. Entries - 1 /\ index'[i] # Unset
      BY <1>2, <1>4, <2>1, <2>4, Types
    <3> QED
      BY <1>1, <1>6, <1>9, <2>1, <3>1 DEF IndexGood
  <2> QED
    BY <1>2, <2>2, <2>3, <2>4
<1>10. \E s \in Sizes : step' \in StepsOf(s)
  BY <1>1 DEF SeekInv
<1> QED
  BY <1>1, <1>2, <1>3, <1>5, <1>6, <1>7, <1>8, <1>9, <1>10 DEF SeekInv

\* What the remaining steps have in common: they move the file only.
LEMMA FileMoved ==
    ASSUME SeekInv, fp' \in File, writable' = writable, step' = step, index' = index,
           lba' = lba, i' = i, found' \in BOOLEAN, mru' \in [lba : Int, clust : Int],
           pc # "fill", pc' \in {"idle", "seek"}, pc' = "seek" => pc # "idle",
           ~fp'.err => /\ ~fp.err /\ fp.size <= fp'.size
                       /\ fp'.size # fp.size => Grows(writable, fp)
                       /\ Good(writable', fp', fp'.fptr, fp'.clust)
                       /\ mru' # mru => Good(writable', fp', mru'.lba, mru'.clust)
    PROVE  SeekInv'
<1>1. TypeOK'
  <2>1. pc' \in {"idle", "fill", "jump", "seek"}
    OBVIOUS
  <2> QED
    BY <2>1, Types DEF TypeOK, File
<1>2. ~fp'.err => Good(writable', fp', mru'.lba, mru'.clust) /\ IndexGood'
  BY TablesKept
<1>3. pc' # "idle" => Idx' < Entries
  BY DEF SeekInv, Idx
<1>4. pc' # "fill" /\ pc' # "jump"
  OBVIOUS
<1>5. \E s \in Sizes : step' \in StepsOf(s)
  BY DEF SeekInv
<1> QED
  BY <1>1, <1>2, <1>3, <1>4, <1>5 DEF SeekInv

\* The position and the cluster of the table go into the file object.
LEMMA JumpKeeps ==
    ASSUME SeekInv, Jump
    PROVE  SeekInv'
<1>1. /\ writable' = writable /\ step' = step /\ index' = index /\ mru' = mru
      /\ found' = found /\ lba' = lba /\ i' = i /\ pc = "jump" /\ pc' = "seek"
      /\ fp' = Placed(Idx * step, index[Idx])
  BY DEF Jump
<1>2. Idx < Entries /\ Idx * step \in Nat /\ index[Idx] \in Int
  <2>1. Idx < Entries
    BY <1>1 DEF SeekInv
  <2>2. Idx \in Nat /\ step \in Nat /\ Entries \in Nat /\ index \in [0 .. Entries -> Int]
    BY Types
  <2> QED
    BY <2>1, <2>2
<1>3. /\ fp' \in File /\ fp'.fptr = Idx * step /\ fp'.clust = index[Idx]
      /\ fp'.size = fp.size /\ fp'.err = fp.err
      /\ \A q, d \in Int : Good(writable, fp, q, d) <=> Good(writable, fp', q, d)
  <2> DEFINE p == Idx * step
             c == index[Idx]
  <2>1. p \in Nat /\ c \in Int /\ fp' = Placed(p, c)
    BY <1>1, <1>2
  <2> HIDE DEF p, c
  <2>2. /\ fp' \in File /\ fp'.fptr = p /\ fp'.clust = c
        /\ fp'.size = fp.size /\ fp'.err = fp.err
        /\ \A q, d \in Int : Good(writable, fp, q, d) <=> Good(writable, fp', q, d)
    BY <2>1, FileTypes, PlacedGood
  <2> QED
    BY <2>2 DEF p, c
<1>4. ~fp'.err => Good(writable', fp', fp'.fptr, fp'.clust)
  BY <1>1, <1>2, <1>3 DEF SeekInv
<1>5. fp.size <= fp'.size
  BY <1>3, Types
<1> QED
  BY <1>1, <1>3, <1>4, <1>5, FileMoved, Types

\* The last seek of the call.
LEMMA SeekKeeps ==
    ASSUME SeekInv, Seek
    PROVE  SeekInv'
<1>1. /\ writable' = writable /\ step' = step /\ index' = index /\ lba' = lba /\ i' = i
      /\ pc = "seek" /\ pc' = "idle" /\ mru' = [lba |-> fp'.fptr, clust |-> fp'.clust]
  BY DEF Seek
<1>2. /\ fp' \in File /\ (~fp'.err => ~fp.err)
      /\ ~fp'.err => /\ fp.size <= fp'.size /\ (fp'.size # fp.size => Grows(writable, fp))
                     /\ Good(writable', fp', fp'.fptr, fp'.clust)
  <2>1. CASE fp' = Sought(fp, lba) /\ fp.err
    BY <2>1, Types DEF Sought
  <2>2. CASE fp' = Sought(fp, lba) /\ ~fp.err
    BY <1>1, <2>2, SoughtGood, Types DEF SeekInv
  <2>3. CASE fp' \in Broken(fp)
    BY <2>3, BrokenFile, Types
  <2> QED
    BY <2>1, <2>2, <2>3 DEF Seek
<1>3. mru' \in [lba : Int, clust : Int]
  BY <1>1, <1>2 DEF File
<1>4. found' \in BOOLEAN
  BY DEF Seek
<1> QED
  BY <1>1, <1>2, <1>3, <1>4, FileMoved

\* A transfer towards the core.
LEMMA ReadKeeps ==
    ASSUME SeekInv, NEW n \in Burst, Read(n)
    PROVE  SeekInv'
<1>1. /\ writable' = writable /\ step' = step /\ index' = index /\ mru' = mru
      /\ found' = found /\ lba' = lba /\ i' = i /\ pc = "idle" /\ pc' = "idle" /\ ~fp.err
  BY DEF Read
<1>2. n \in Nat \ {0} /\ Room \in Nat /\ Good(writable, fp, fp.fptr, fp.clust)
  BY <1>1, SizeAssumption DEF SeekInv
<1>3. /\ fp' \in File
      /\ ~fp'.err => /\ fp.size <= fp'.size /\ (fp'.size # fp.size => Grows(writable, fp))
                     /\ Good(writable', fp', fp'.fptr, fp'.clust)
  <2>1. CASE fp.fptr <= fp.size /\ fp' = MoveTo(fp, Smaller(fp.fptr + n, fp.size))
    <3> DEFINE p == Smaller(fp.fptr + n, fp.size)
    <3>1. p \in 0 .. Room /\ p <= fp.size
      <4>1. fp.fptr + n \in Nat
        BY <1>2, FileTypes
      <4>2. p \in Nat /\ p <= fp.size
        BY <4>1, FileTypes, SmallerNat
      <4> QED
        BY <4>2, FileTypes
    <3>2. fp' = MoveTo(fp, p)
      BY <2>1
    <3> HIDE DEF p
    <3>3. ~(p > fp.size)
      BY <3>1, FileTypes
    <3> QED
      <4>1. /\ MoveTo(fp, p) \in File /\ MoveTo(fp, p).fptr = p
            /\ fp.size <= MoveTo(fp, p).size
            /\ MoveTo(fp, p).size # fp.size => Grows(writable, fp)
            /\ Good(writable, MoveTo(fp, p), p, MoveTo(fp, p).clust)
        BY <1>2, <3>1, <3>3, FileTypes, MoveToGood
      <4> QED
        BY <1>1, <3>2, <4>1
  <2>2. CASE fp.fptr > fp.size /\ fp' = Placed(fp.fptr + n, fp.clust)
    <3> DEFINE q == fp.fptr + n
    <3>1. q \in Nat /\ q > fp.size
      BY <1>2, <2>2, FileTypes
    <3>2. fp' = Placed(q, fp.clust)
      BY <2>2
    <3> HIDE DEF q
    <3>3. /\ fp.clust = Loc(fp.size) /\ ~Grows(writable, fp)
      BY <1>2, <2>2, FileTypes DEF Good, Smaller
    <3>4. Good(writable, fp, q, fp.clust)
      BY <3>1, <3>3, FileTypes DEF Good, Smaller
    <3>5. /\ fp' \in File /\ fp'.fptr = q /\ fp'.clust = fp.clust
          /\ fp'.size = fp.size /\ fp'.err = fp.err
          /\ Good(writable, fp', q, fp.clust)
      BY <3>1, <3>2, <3>4, FileTypes, PlacedGood
    <3> QED
      BY <1>1, <3>5, FileTypes
  <2>3. CASE fp' = [fp EXCEPT !.err = TRUE]
    BY <2>3, Types DEF File
  <2>4. CASE fp' \in Broken(fp)
    BY <2>4, BrokenFile, Types
  <2> QED
    BY <2>1, <2>2, <2>3, <2>4 DEF Read
<1> QED
  BY <1>1, <1>3, FileMoved, Types

\* A transfer from the core.
LEMMA WriteKeeps ==
    ASSUME SeekInv, NEW n \in Burst, Write(n)
    PROVE  SeekInv'
<1>1. /\ writable' = writable /\ step' = step /\ index' = index /\ mru' = mru
      /\ found' = found /\ lba' = lba /\ i' = i /\ pc = "idle" /\ pc' = "idle" /\ ~fp.err
      /\ writable /\ fp.fptr <= Room
  BY DEF Write
<1>2. n \in Nat \ {0} /\ Room \in Nat /\ Good(writable, fp, fp.fptr, fp.clust)
  BY <1>1, SizeAssumption DEF SeekInv
<1>3. /\ fp' \in File
      /\ ~fp'.err => /\ fp.size <= fp'.size /\ (fp'.size # fp.size => Grows(writable, fp))
                     /\ Good(writable', fp', fp'.fptr, fp'.clust)
  <2>1. CASE fp' = MoveTo(fp, Smaller(fp.fptr + n, Room))
    <3> DEFINE p == Smaller(fp.fptr + n, Room)
    <3>1. p \in 0 .. Room /\ (p > fp.size => Grows(writable, fp))
      <4>1. fp.fptr + n \in Nat
        BY <1>2, FileTypes
      <4>2. p \in Nat /\ p <= Room
        BY <4>1, FileTypes, SmallerNat
      <4>3. p > fp.size => fp.size < Room
        BY <4>2, FileTypes
      <4> QED
        BY <1>1, <4>2, <4>3, FileTypes DEF Grows
    <3>2. fp' = MoveTo(fp, p)
      BY <2>1
    <3> HIDE DEF p
    <3>3. /\ fp' \in File /\ fp'.fptr = p /\ fp.size <= fp'.size
          /\ fp'.size # fp.size => Grows(writable, fp)
          /\ Good(writable, fp', p, fp'.clust)
      BY <1>2, <3>1, <3>2, MoveToGood, FileTypes
    <3> QED
      BY <1>1, <3>3
  <2>2. CASE fp' \in Broken(fp)
    BY <2>2, BrokenFile, Types
  <2> QED
    BY <2>1, <2>2 DEF Write
<1> QED
  BY <1>1, <1>3, FileMoved, Types

\* Every step keeps the invariant, if the table covers what is asked for.
THEOREM NextSeekInv ==
    ASSUME InTable, SeekInv, [Next]_vars
    PROVE  SeekInv'
<1>1. CASE Insert
  BY <1>1, InsertKeeps
<1>2. CASE \E l \in Lba : Call(l)
  BY <1>2, CallKeeps
<1>3. CASE Fill
  BY <1>3, FillKeeps
<1>4. CASE Jump
  BY <1>4, JumpKeeps
<1>5. CASE Seek
  BY <1>5, SeekKeeps
<1>6. CASE \E n \in Burst : Read(n) \/ Write(n)
  BY <1>6, ReadKeeps, WriteKeeps
<1>7. CASE UNCHANGED vars
  BY <1>7 DEF vars, SeekInv, TypeOK, IndexGood, Idx
<1> QED
  BY <1>1, <1>2, <1>3, <1>4, <1>5, <1>6, <1>7 DEF Next

-----------------------------------------------------------------------------
(* The results.                                                             *)

\* The invariant gives the property.
LEMMA SeekInvRight == SeekInv => Inv
<1> SUFFICES ASSUME SeekInv PROVE Inv
  OBVIOUS
<1>1. FilePointerRight
  BY FileTypes DEF SeekInv, FilePointerRight, Good, Smaller
<1>2. ASSUME ~fp.err, NEW n \in 1 .. Entries - 1, index[n] # Unset, n * step <= fp.size
      PROVE  index[n] = Loc(n * step)
  <2>1. n * step \in Nat \ {0}
    BY EntryTypes
  <2>2. Good(writable, fp, n * step, index[n])
    BY <1>2 DEF SeekInv, IndexGood
  <2> DEFINE q == n * step
  <2>3. q \in Nat \ {0} /\ q <= fp.size /\ Good(writable, fp, q, index[n])
    BY <1>2, <2>1, <2>2
  <2> HIDE DEF q
  <2>4. index[n] = Loc(q)
    BY <2>3, FileTypes DEF Good, Smaller
  <2> QED
    BY <2>4 DEF q
<1>3. ~fp.err /\ mru.lba \in 1 .. fp.size => mru.clust = Loc(mru.lba)
  BY Types DEF SeekInv, Good, Smaller
<1> QED
  BY <1>1, <1>2, <1>3 DEF Inv, TablesRight, SeekInv

\* Whatever the core asks for, in any order, with the file growing and the card
\* failing in between: Drv08_HardFileSeek never leaves a position in the file
\* object with the cluster of another one, if the table covers the image.
THEOREM FilePointerCorrect ==
    ASSUME InTable
    PROVE  Spec => []Inv
<1>1. Init => SeekInv
  BY InitSeekInv
<1>2. SeekInv /\ [Next]_vars => SeekInv'
  BY NextSeekInv
<1>3. SeekInv => Inv
  BY SeekInvRight
<1> QED
  BY <1>1, <1>2, <1>3, PTL DEF Spec

-----------------------------------------------------------------------------
(* The file browser.  A scan is a walk through the directory; what a window  *)
(* keeps of it is said of sets of names, in the order of Before.             *)

\* A set of numbers that is not empty has a smallest one.
LEMMA SmallestFound ==
    ASSUME NEW T, T \subseteq Nat, T # {}
    PROVE  \E x \in T : \A y \in T : x <= y
<1>1. PICK x \in T : \A y \in T : ~(<<y, x>> \in OpToRel(<, Nat))
  BY NatLessThanWellFounded, WFMin
<1>2. ASSUME NEW y \in T PROVE x <= y
  <2>1. ~(y < x) BY <1>1 DEF OpToRel
  <2> QED BY <2>1
<1> QED BY <1>2

\* list is what a window keeps of the names A: the first ones in order, up to its
\* height.
Top(list, A, down) ==
    /\ list \in Seq(Nat) /\ Len(list) <= Height
    /\ \A q, j \in 1 .. Len(list) : q < j => Before(list[q], list[j], down)
    /\ \A q \in 1 .. Len(list) : list[q] \in A
    /\ \A a \in A : \/ \E q \in 1 .. Len(list) : list[q] = a
                    \/ Len(list) = Height /\ Before(list[Height], a, down)

\* The list l2 has e before the element k of list.
WithBefore(list, k, e, l2) ==
    /\ l2 \in Seq(Nat) /\ Len(l2) = Len(list) + 1
    /\ \A q \in 1 .. Len(list) + 1 :
          l2[q] = IF q < k THEN list[q] ELSE IF q = k THEN e ELSE list[q - 1]

\* InsertAt of SequencesExt.
LEMMA Inserted ==
    ASSUME NEW list \in Seq(Nat), NEW k \in 1 .. Len(list), NEW e \in Nat
    PROVE  WithBefore(list, k, e, InsertAt(list, k, e))
<1> DEFINE a == SubSeq(list, 1, k - 1)
           b == SubSeq(list, k, Len(list))
<1>0. Len(list) \in Nat /\ k - 1 \in Int /\ 1 \in Int OBVIOUS
<1>1. a \in Seq(Nat) /\ Len(a) = k - 1 /\ \A q \in 1 .. k - 1 : a[q] = list[q]
  <2>1. \A q \in 1 .. k - 1 : list[q] \in Nat OBVIOUS
  <2>2. /\ a \in Seq(Nat) /\ Len(a) = (IF 1 <= k - 1 THEN k - 1 - 1 + 1 ELSE 0)
        /\ \A q \in 1 .. k - 1 - 1 + 1 : a[q] = list[1 + q - 1]
    BY <1>0, <2>1, SubSeqProperties
  <2>3. k - 1 - 1 + 1 = k - 1 /\ \A q \in 1 .. k - 1 : 1 + q - 1 = q OBVIOUS
  <2> QED BY <2>2, <2>3
<1>2. b \in Seq(Nat) /\ Len(b) = Len(list) - k + 1 /\ \A q \in 1 .. Len(list) - k + 1 : b[q] = list[k + q - 1]
  <2>1. \A q \in k .. Len(list) : list[q] \in Nat OBVIOUS
  <2> QED BY <1>0, <2>1, SubSeqProperties
<1> HIDE DEF a, b
<1>3. <<e>> \in Seq(Nat) /\ Len(<<e>>) = 1 /\ <<e>>[1] = e OBVIOUS
<1>4. /\ a \o <<e>> \in Seq(Nat) /\ Len(a \o <<e>>) = k
      /\ \A q \in 1 .. k : (a \o <<e>>)[q] = IF q < k THEN list[q] ELSE e
  <2>1. /\ a \o <<e>> \in Seq(Nat) /\ Len(a \o <<e>>) = Len(a) + 1
        /\ \A q \in 1 .. Len(a) + 1 : (a \o <<e>>)[q] = IF q <= Len(a) THEN a[q] ELSE <<e>>[q - Len(a)]
    BY <1>1, <1>3, ConcatProperties
  <2>2. \A q \in 1 .. k : (q < k => q <= Len(a) /\ q \in 1 .. k - 1) /\ (~(q < k) => ~(q <= Len(a)) /\ q - Len(a) = 1)
    BY <1>1
  <2>3. Len(a) + 1 = k BY <1>1
  <2> QED BY <2>1, <2>2, <2>3, <1>1, <1>3
<1> DEFINE c == a \o <<e>>
<1> HIDE DEF c
<1>5. c \in Seq(Nat) /\ Len(c) = k /\ \A q \in 1 .. k : c[q] = IF q < k THEN list[q] ELSE e
  BY <1>4 DEF c
<1>6. /\ c \o b \in Seq(Nat) /\ Len(c \o b) = Len(c) + Len(b)
      /\ \A q \in 1 .. Len(c) + Len(b) : (c \o b)[q] = IF q <= Len(c) THEN c[q] ELSE b[q - Len(c)]
  BY <1>2, <1>5, ConcatProperties
<1>7. Len(c) + Len(b) = Len(list) + 1 BY <1>2, <1>5
<1>8. \A q \in 1 .. Len(list) + 1 : q > k =>
          q - Len(c) \in 1 .. Len(list) - k + 1 /\ k + (q - Len(c)) - 1 = q - 1
  BY <1>5
<1>9. \A q \in 1 .. Len(list) + 1 : q > k => (c \o b)[q] = list[q - 1]
  <2> SUFFICES ASSUME NEW q \in 1 .. Len(list) + 1, q > k PROVE (c \o b)[q] = list[q - 1] OBVIOUS
  <2>1. ~(q <= Len(c)) BY <1>5
  <2>2. (c \o b)[q] = b[q - Len(c)] BY <2>1, <1>6, <1>7
  <2> QED BY <2>2, <1>2, <1>8
<1>10. \A q \in 1 .. Len(list) + 1 : q <= k => (c \o b)[q] = IF q < k THEN list[q] ELSE e
  <2> SUFFICES ASSUME NEW q \in 1 .. Len(list) + 1, q <= k
               PROVE  (c \o b)[q] = IF q < k THEN list[q] ELSE e
    OBVIOUS
  <2>1. q <= Len(c) /\ q \in 1 .. k BY <1>5
  <2> QED BY <2>1, <1>5, <1>6, <1>7
<1>11. InsertAt(list, k, e) = c \o b BY DEF InsertAt, a, b, c
<1>12. \A q \in 1 .. Len(list) + 1 :
           (c \o b)[q] = IF q < k THEN list[q] ELSE IF q = k THEN e ELSE list[q - 1]
  <2> SUFFICES ASSUME NEW q \in 1 .. Len(list) + 1
               PROVE  (c \o b)[q] = IF q < k THEN list[q] ELSE IF q = k THEN e ELSE list[q - 1]
    OBVIOUS
  <2>1. q <= k \/ q > k OBVIOUS
  <2>2. q <= k => (q < k \/ q = k) OBVIOUS
  <2>3. q > k => ~(q < k) /\ q # k OBVIOUS
  <2> QED BY <2>1, <2>2, <2>3, <1>9, <1>10
<1> QED BY <1>6, <1>7, <1>11, <1>12 DEF WithBefore

\* Front of SequencesExt.
LEMMA FrontIs ==
    ASSUME NEW S, NEW s \in Seq(S), Len(s) >= 1
    PROVE  Front(s) \in Seq(S) /\ Len(Front(s)) = Len(s) - 1 /\ \A q \in 1 .. Len(s) - 1 : Front(s)[q] = s[q]
<1>0. Len(s) \in Nat /\ 1 \in Int /\ Len(s) - 1 \in Int OBVIOUS
<1>1. \A q \in 1 .. Len(s) - 1 : s[q] \in S OBVIOUS
<1>2. /\ SubSeq(s, 1, Len(s) - 1) \in Seq(S)
      /\ Len(SubSeq(s, 1, Len(s) - 1)) = (IF 1 <= Len(s) - 1 THEN Len(s) - 1 - 1 + 1 ELSE 0)
      /\ \A q \in 1 .. Len(s) - 1 - 1 + 1 : SubSeq(s, 1, Len(s) - 1)[q] = s[1 + q - 1]
  BY <1>0, <1>1, SubSeqProperties
<1>3. Len(s) - 1 - 1 + 1 = Len(s) - 1 /\ \A q \in 1 .. Len(s) - 1 : 1 + q - 1 = q BY <1>0
<1> QED BY <1>0, <1>2, <1>3 DEF Front

\* The order of a window.
LEMMA Order ==
    ASSUME NEW down
    PROVE  /\ \A a \in Nat : ~Before(a, a, down)
           /\ \A a, b \in Nat : a = b \/ Before(a, b, down) \/ Before(b, a, down)
           /\ \A a, b, c \in Nat : Before(a, b, down) /\ Before(b, c, down) => Before(a, c, down)
BY DEF Before

\* One more name: it goes to its place, and the last one may fall off.
LEMMA PlaceTop ==
    ASSUME NEW list, NEW A, A \subseteq Nat, NEW down, Top(list, A, down), NEW name \in Nat
    PROVE  Top(Place(list, name, down), A \cup {name}, down)
<1> DEFINE n == Len(list)
           stops == {k \in 1 .. n : list[k] = name \/ Before(name, list[k], down)}
<1>0. /\ list \in Seq(Nat) /\ n \in Nat /\ n <= Height /\ Height \in Nat \ {0, 1, 2}
      /\ \A q \in 1 .. n : list[q] \in Nat
  BY HeightAssumption DEF Top
<1>1. ASSUME stops = {} PROVE Top(Place(list, name, down), A \cup {name}, down)
  <2>1. \A q \in 1 .. n : Before(list[q], name, down) BY <1>0, <1>1, Order
  <2>2. CASE n < Height
    <3>1. Place(list, name, down) = Append(list, name) BY <1>1, <2>2 DEF Place
    <3> DEFINE l2 == Append(list, name)
    <3>2. /\ l2 \in Seq(Nat) /\ Len(l2) = n + 1 /\ l2[n + 1] = name
          /\ \A q \in 1 .. n : l2[q] = list[q]
      BY <1>0
    <3> HIDE DEF l2
    <3>3. \A q \in 1 .. n + 1 : q = n + 1 \/ q \in 1 .. n BY <1>0
    <3>4. \A q, j \in 1 .. n + 1 : q < j => q \in 1 .. n BY <1>0
    <3>5. \A q, j \in 1 .. Len(l2) : q < j => Before(l2[q], l2[j], down)
      BY <2>1, <3>2, <3>3, <3>4 DEF Top
    <3>6. \A q \in 1 .. Len(l2) : l2[q] \in A \cup {name} BY <3>2, <3>3 DEF Top
    <3>7. ASSUME NEW a \in A \cup {name} PROVE \E q \in 1 .. Len(l2) : l2[q] = a
      <4>1. CASE a = name
        <5>1. n + 1 \in 1 .. Len(l2) BY <1>0, <3>2
        <5> QED BY <4>1, <5>1, <3>2
      <4>2. CASE a \in A
        <5>1. PICK q \in 1 .. n : list[q] = a BY <2>2, <4>2, <1>0 DEF Top
        <5>2. q \in 1 .. Len(l2) BY <3>2, <1>0
        <5> QED BY <5>1, <5>2, <3>2
      <4> QED BY <4>1, <4>2
    <3>8. Len(l2) <= Height BY <3>2, <2>2, <1>0
    <3>9. Top(l2, A \cup {name}, down) BY <3>2, <3>5, <3>6, <3>7, <3>8 DEF Top
    <3> QED BY <3>1, <3>9 DEF l2
  <2>3. CASE ~(n < Height)
    <3>1. Place(list, name, down) = list /\ n = Height BY <1>0, <1>1, <2>3 DEF Place
    <3>2. Before(list[Height], name, down) BY <2>1, <3>1, <1>0
    <3> QED BY <3>1, <3>2 DEF Top
  <2> QED BY <2>2, <2>3
<1>2. ASSUME stops # {} PROVE Top(Place(list, name, down), A \cup {name}, down)
  <2> DEFINE k == CHOOSE k \in stops : \A j \in stops : k <= j
  <2>1. k \in stops /\ \A j \in stops : k <= j
    <3>1. stops \subseteq Nat BY <1>0
    <3> HIDE DEF stops
    <3>2. \E x \in stops : \A j \in stops : x <= j BY <1>2, <3>1, SmallestFound
    <3> QED BY <3>2
  <2>2. Place(list, name, down) =
            IF list[k] = name THEN list
            ELSE IF n < Height THEN InsertAt(list, k, name) ELSE Front(InsertAt(list, k, name))
    BY <1>2 DEF Place
  <2>3. k \in 1 .. n /\ (list[k] = name \/ Before(name, list[k], down)) BY <2>1
  <2>4. \A q \in 1 .. n : q < k => Before(list[q], name, down)
    <3> SUFFICES ASSUME NEW q \in 1 .. n, q < k PROVE Before(list[q], name, down) OBVIOUS
    <3>1. q \notin stops
      <4>1. ~(k <= q) BY <2>3, <1>0
      <4> HIDE DEF stops, k
      <4> QED BY <2>1, <4>1
    <3> QED BY <3>1, <1>0, Order
  <2> HIDE DEF k, stops
  <2>5. CASE list[k] = name
    <3>1. Place(list, name, down) = list BY <2>2, <2>5
    <3> QED BY <3>1, <2>3, <2>5 DEF Top
  <2>6. CASE list[k] # name
    <3> DEFINE l2 == InsertAt(list, k, name)
    <3>1. /\ l2 \in Seq(Nat) /\ Len(l2) = n + 1
          /\ \A q \in 1 .. n + 1 : l2[q] = IF q < k THEN list[q] ELSE IF q = k THEN name ELSE list[q - 1]
      <4>1. WithBefore(list, k, name, l2) BY <1>0, <2>3, Inserted
      <4> QED BY <4>1 DEF WithBefore
    <3> HIDE DEF l2
    <3>2. Before(name, list[k], down) BY <2>3, <2>6
    <3>3. \A q \in 1 .. n : q > k => Before(name, list[q], down)
      <4> SUFFICES ASSUME NEW q \in 1 .. n, q > k PROVE Before(name, list[q], down) OBVIOUS
      <4>1. Before(list[k], list[q], down) BY <2>3 DEF Top
      <4> QED BY <4>1, <3>2, <2>3, <1>0, Order
    <3>4. \A q \in 1 .. n : q >= k => Before(name, list[q], down)
      <4>1. \A q \in 1 .. n : q >= k => q = k \/ q > k BY <2>3
      <4> QED BY <3>2, <3>3, <4>1
    <3>5. \A q, j \in 1 .. n + 1 : q < j => Before(l2[q], l2[j], down)
      <4> SUFFICES ASSUME NEW q \in 1 .. n + 1, NEW j \in 1 .. n + 1, q < j PROVE Before(l2[q], l2[j], down)
        OBVIOUS
      <4>1. CASE j < k
        <5>1. q < k /\ q \in 1 .. n /\ j \in 1 .. n BY <4>1, <2>3, <1>0
        <5>2. Before(list[q], list[j], down) BY <5>1 DEF Top
        <5> QED BY <4>1, <5>1, <5>2, <3>1
      <4>2. CASE j = k
        <5>1. q < k /\ q \in 1 .. n /\ ~(j < k) BY <4>2, <2>3, <1>0
        <5> QED BY <4>2, <5>1, <2>4, <3>1
      <4>3. CASE j > k /\ q < k
        <5>1. q \in 1 .. n /\ j - 1 \in 1 .. n /\ q < j - 1 /\ ~(j < k) /\ j # k BY <4>3, <2>3, <1>0
        <5>2. Before(list[q], list[j - 1], down) BY <5>1 DEF Top
        <5> QED BY <4>3, <5>1, <5>2, <3>1
      <4>4. CASE q = k
        <5>1. j - 1 \in 1 .. n /\ j - 1 >= k /\ ~(j < k) /\ j # k /\ ~(q < k) BY <4>4, <2>3, <1>0
        <5> QED BY <4>4, <5>1, <3>1, <3>4
      <4>5. CASE q > k
        <5>1. q - 1 \in 1 .. n /\ j - 1 \in 1 .. n /\ q - 1 < j - 1 /\ ~(j < k) /\ j # k /\ ~(q < k) /\ q # k
          BY <4>5, <2>3, <1>0
        <5>2. Before(list[q - 1], list[j - 1], down) BY <5>1 DEF Top
        <5> QED BY <5>1, <5>2, <3>1
      <4> QED BY <4>1, <4>2, <4>3, <4>4, <4>5, <2>3, <1>0
    <3>6. \A q \in 1 .. n + 1 : l2[q] \in A \cup {name}
      <4> SUFFICES ASSUME NEW q \in 1 .. n + 1 PROVE l2[q] \in A \cup {name} OBVIOUS
      <4>1. CASE q < k
        <5>1. q \in 1 .. n BY <4>1, <2>3, <1>0
        <5> QED BY <4>1, <5>1, <3>1 DEF Top
      <4>2. CASE q = k
        <5>1. ~(q < k) BY <4>2, <2>3
        <5> QED BY <4>2, <5>1, <3>1
      <4>3. CASE q > k
        <5>1. q - 1 \in 1 .. n /\ ~(q < k) /\ q # k BY <4>3, <2>3, <1>0
        <5> QED BY <5>1, <3>1 DEF Top
      <4> QED BY <4>1, <4>2, <4>3, <2>3, <1>0
    <3>7. l2[k] = name /\ k \in 1 .. n + 1
      <4>1. k \in 1 .. n + 1 /\ ~(k < k) BY <2>3, <1>0
      <4> QED BY <4>1, <3>1
    <3>8. \A q \in 1 .. n : \E j \in 1 .. n + 1 : l2[j] = list[q] /\ (j = q \/ j = q + 1)
      <4> SUFFICES ASSUME NEW q \in 1 .. n
                   PROVE  \E j \in 1 .. n + 1 : l2[j] = list[q] /\ (j = q \/ j = q + 1)
        OBVIOUS
      <4>1. CASE q < k
        <5>1. q \in 1 .. n + 1 BY <1>0
        <5> QED BY <4>1, <5>1, <3>1
      <4>2. CASE q >= k
        <5>1. q + 1 \in 1 .. n + 1 /\ ~(q + 1 < k) /\ q + 1 # k /\ (q + 1) - 1 = q BY <4>2, <2>3, <1>0
        <5>2. l2[q + 1] = list[q] BY <5>1, <3>1
        <5> QED BY <5>1, <5>2
      <4> QED BY <4>1, <4>2, <2>3
    <3>9. CASE n < Height
      <4>1. Place(list, name, down) = l2 BY <2>2, <2>6, <3>9 DEF l2
      <4>2. ASSUME NEW a \in A \cup {name} PROVE \E j \in 1 .. n + 1 : l2[j] = a
        <5>1. CASE a = name BY <5>1, <3>7
        <5>2. CASE a \in A
          <6>1. PICK q \in 1 .. n : list[q] = a BY <5>2, <3>9, <1>0 DEF Top
          <6> QED BY <6>1, <3>8
        <5> QED BY <5>1, <5>2
      <4>3. n + 1 <= Height BY <3>9, <1>0
      <4> QED BY <4>1, <4>2, <4>3, <3>1, <3>5, <3>6 DEF Top
    <3>10. CASE ~(n < Height)
      <4>0. n = Height BY <3>10, <1>0
      <4> DEFINE l3 == Front(l2)
      <4>1. Place(list, name, down) = l3 BY <2>2, <2>6, <3>10 DEF l2
      <4>2. l3 \in Seq(Nat) /\ Len(l3) = n /\ \A q \in 1 .. n : l3[q] = l2[q]
        <5>1. Len(l2) >= 1 /\ Len(l2) - 1 = n BY <3>1, <1>0
        <5> QED BY <5>1, <3>1, FrontIs
      <4> HIDE DEF l3
      <4>3. \A q \in 1 .. n : q \in 1 .. n + 1 BY <1>0
      <4>4. \A q, j \in 1 .. Len(l3) : q < j => Before(l3[q], l3[j], down) BY <4>2, <4>3, <3>5
      <4>5. \A q \in 1 .. Len(l3) : l3[q] \in A \cup {name} BY <4>2, <4>3, <3>6
      <4>6. Before(l3[Height], list[Height], down)
        <5>1. l2[n + 1] = list[n]
          <6>1. n + 1 \in 1 .. n + 1 /\ ~(n + 1 < k) /\ n + 1 # k /\ (n + 1) - 1 = n BY <2>3, <1>0
          <6> QED BY <6>1, <3>1
        <5>2. n \in 1 .. n + 1 /\ n + 1 \in 1 .. n + 1 /\ n < n + 1 /\ n \in 1 .. n BY <1>0, <4>0
        <5>3. Before(l2[n], l2[n + 1], down) BY <5>2, <3>5
        <5> QED BY <4>0, <4>2, <5>1, <5>2, <5>3
      <4>7. l3[Height] \in Nat /\ list[Height] \in Nat
        <5>1. Height \in 1 .. n BY <4>0, <1>0
        <5> QED BY <5>1, <4>2, <1>0
      <4>8. ASSUME NEW a \in A \cup {name}
            PROVE  \/ \E j \in 1 .. n : l3[j] = a
                   \/ Before(l3[Height], a, down)
        <5>1. CASE a = name BY <5>1, <2>3, <3>7, <4>2
        <5>2. CASE a \in A /\ \E q \in 1 .. n : list[q] = a
          <6>1. PICK q \in 1 .. n : list[q] = a BY <5>2
          <6>2. PICK j \in 1 .. n + 1 : l2[j] = a /\ (j = q \/ j = q + 1) BY <6>1, <3>8
          <6>3. CASE j \in 1 .. n BY <6>2, <6>3, <4>2
          <6>4. CASE j = n + 1
            <7>1. q = n BY <6>2, <6>4, <1>0
            <7> QED BY <7>1, <6>1, <4>0, <4>6
          <6> QED BY <6>3, <6>4, <1>0, SMTT(30)
        <5>3. CASE a \in A /\ Before(list[Height], a, down) BY <5>3, <4>6, <4>7, Order
        <5> QED BY <5>1, <5>2, <5>3 DEF Top
      <4> QED BY <4>0, <4>1, <4>2, <4>4, <4>5, <4>8 DEF Top
    <3> QED BY <3>9, <3>10
  <2> QED BY <2>5, <2>6
<1> QED BY <1>1, <1>2

-----------------------------------------------------------------------------
(* A scan of the whole directory.                                           *)

\* What one entry of the directory adds.
Entered(list, name, set, down) == IF name \in set THEN Place(list, name, down) ELSE list

ScanExists(d, set, down, n) ==
    \E f : f = [k \in 0 .. n |-> IF k = 0 THEN << >> ELSE Entered(f[k - 1], d[k], set, down)]

\* By a smallest length that has none.
LEMMA ScanTo ==
    ASSUME NEW d, NEW set, NEW down, NEW n \in Nat
    PROVE  ScanExists(d, set, down, n)
<1> DEFINE T == {m \in Nat : ~ScanExists(d, set, down, m)}
<1> SUFFICES ASSUME T # {} PROVE FALSE OBVIOUS
<1>1. PICK x \in T : \A y \in T : x <= y
  <2>1. T \subseteq Nat OBVIOUS
  <2> HIDE DEF T
  <2> QED BY <2>1, SmallestFound
<1>2. x \in Nat OBVIOUS
<1>3. x # 0
  <2> SUFFICES ScanExists(d, set, down, 0) OBVIOUS
  <2> DEFINE w == [k \in 0 .. 0 |-> << >>]
  <2>1. w = [k \in 0 .. 0 |-> IF k = 0 THEN << >> ELSE Entered(w[k - 1], d[k], set, down)] OBVIOUS
  <2> QED BY <2>1 DEF ScanExists
<1>4. x - 1 \in Nat BY <1>2, <1>3
<1>5. ScanExists(d, set, down, x - 1)
  <2>1. x - 1 \notin T
    <3> HIDE DEF T
    <3>1. ~(x <= x - 1) BY <1>2, <1>3
    <3> QED BY <1>1, <3>1
  <2> QED BY <2>1, <1>4 DEF T
<1>6. PICK w : w = [k \in 0 .. x - 1 |-> IF k = 0 THEN << >> ELSE Entered(w[k - 1], d[k], set, down)]
  BY <1>5 DEF ScanExists
<1> DEFINE v == [k \in 0 .. x |-> IF k = x THEN Entered(w[x - 1], d[x], set, down) ELSE w[k]]
<1>7. \A k \in 0 .. x - 1 : w[k] = IF k = 0 THEN << >> ELSE Entered(w[k - 1], d[k], set, down) BY <1>6
<1>8. ASSUME NEW k \in 0 .. x PROVE v[k] = IF k = 0 THEN << >> ELSE Entered(v[k - 1], d[k], set, down)
  <2>1. CASE k = x
    <3>1. v[k] = Entered(w[x - 1], d[x], set, down) BY <2>1
    <3>2. k - 1 \in 0 .. x /\ k - 1 # x BY <2>1, <1>2, <1>3
    <3>3. v[k - 1] = w[k - 1] BY <3>2
    <3> QED BY <3>1, <3>3, <2>1, <1>3
  <2>2. CASE k # x
    <3>1. k \in 0 .. x - 1 BY <2>2, <1>2
    <3>2. v[k] = w[k] BY <2>2
    <3>3. CASE k = 0 BY <3>1, <3>2, <3>3, <1>7
    <3>4. CASE k # 0
      <4>1. k - 1 \in 0 .. x /\ k - 1 # x BY <3>1, <3>4, <1>2
      <4>2. v[k - 1] = w[k - 1] BY <4>1
      <4>3. w[k] = Entered(w[k - 1], d[k], set, down) BY <3>1, <3>4, <1>7
      <4> QED BY <3>2, <3>4, <4>2, <4>3
    <3> QED BY <3>3, <3>4
  <2> QED BY <2>1, <2>2
<1>9. v = [k \in 0 .. x |-> v[k]] OBVIOUS
<1>10. v = [k \in 0 .. x |-> IF k = 0 THEN << >> ELSE Entered(v[k - 1], d[k], set, down)]
  <2> HIDE DEF v
  <2> QED BY <1>8, <1>9
<1>11. ScanExists(d, set, down, x)
  <2> HIDE DEF v
  <2> QED BY <1>10 DEF ScanExists
<1> QED BY <1>11

\* The names among the first k entries of d that are in set.
Seen(d, set, k) == {d[q] : q \in 1 .. k} \cap set

LEMMA ScanTop ==
    ASSUME NEW d \in Seq(Nat), NEW set, NEW down
    PROVE  Top(Scan(d, set, down), Seen(d, set, Len(d)), down)
<1> DEFINE f == CHOOSE f : f = [k \in 0 .. Len(d) |->
                   IF k = 0 THEN << >> ELSE Entered(f[k - 1], d[k], set, down)]
<1>0. Len(d) \in Nat OBVIOUS
<1>1. f = [k \in 0 .. Len(d) |-> IF k = 0 THEN << >> ELSE Entered(f[k - 1], d[k], set, down)]
  <2>1. ScanExists(d, set, down, Len(d)) BY <1>0, ScanTo
  <2> QED BY <2>1 DEF ScanExists
<1>2. Scan(d, set, down) = f[Len(d)] BY DEF Scan, Entered
<1> HIDE DEF f
<1>3. f[0] = << >> /\ \A k \in 1 .. Len(d) : f[k] = Entered(f[k - 1], d[k], set, down)
  <2>1. 0 \in 0 .. Len(d) /\ \A k \in 1 .. Len(d) : k \in 0 .. Len(d) /\ k # 0 BY <1>0
  <2> QED BY <2>1, <1>1
<1> DEFINE T == {k \in 0 .. Len(d) : ~Top(f[k], Seen(d, set, k), down)}
<1>4. T = {}
  <2> SUFFICES ASSUME T # {} PROVE FALSE OBVIOUS
  <2>1. PICK x \in T : \A y \in T : x <= y
    <3>1. T \subseteq Nat BY <1>0
    <3> HIDE DEF T
    <3> QED BY <3>1, SmallestFound
  <2>2. x \in 0 .. Len(d) OBVIOUS
  <2>3. x # 0
    <3>1. Top(<< >>, {}, down)
      <4>1. << >> \in Seq(Nat) /\ Len(<< >>) = 0 /\ 1 .. 0 = {} /\ 0 <= Height BY HeightAssumption
      <4> QED BY <4>1 DEF Top
    <3>2. Seen(d, set, 0) = {} BY DEF Seen
    <3> QED BY <3>1, <3>2, <1>3
  <2>4. x - 1 \in 0 .. Len(d) /\ x \in 1 .. Len(d) BY <2>2, <2>3
  <2>5. Top(f[x - 1], Seen(d, set, x - 1), down)
    <3>1. x - 1 \notin T
      <4> HIDE DEF T
      <4>1. ~(x <= x - 1) BY <2>2
      <4> QED BY <2>1, <4>1
    <3> QED BY <3>1, <2>4 DEF T
  <2>6. f[x] = Entered(f[x - 1], d[x], set, down) BY <2>4, <1>3
  <2>7. d[x] \in Nat BY <2>4
  <2>8. {d[q] : q \in 1 .. x} = {d[q] : q \in 1 .. x - 1} \cup {d[x]}
    <3>1. \A q \in 1 .. x : q \in 1 .. x - 1 \/ q = x BY <2>4
    <3>2. x \in 1 .. x /\ \A q \in 1 .. x - 1 : q \in 1 .. x BY <2>4
    <3> QED BY <3>1, <3>2
  <2>9. CASE d[x] \in set
    <3>1. Seen(d, set, x) = Seen(d, set, x - 1) \cup {d[x]} BY <2>8, <2>9 DEF Seen
    <3>2. Seen(d, set, x - 1) \subseteq Nat
      <4>1. \A q \in 1 .. x - 1 : q \in 1 .. Len(d) BY <2>4
      <4> QED BY <4>1 DEF Seen
    <3>3. Top(Place(f[x - 1], d[x], down), Seen(d, set, x - 1) \cup {d[x]}, down)
      BY <2>5, <2>7, <3>2, PlaceTop
    <3> QED BY <2>6, <2>9, <3>1, <3>3 DEF Entered
  <2>10. CASE d[x] \notin set
    <3>1. Seen(d, set, x) = Seen(d, set, x - 1) BY <2>8, <2>10 DEF Seen
    <3> QED BY <2>5, <2>6, <2>10, <3>1 DEF Entered
  <2> QED BY <2>9, <2>10
<1>5. Len(d) \in 0 .. Len(d) BY <1>0
<1> QED BY <1>2, <1>4, <1>5

\* What a scan of a directory for some of its names keeps.
LEMMA ScanKeeps ==
    ASSUME NEW d \in Directory, NEW set, set \subseteq Names(d), NEW down
    PROVE  Top(Scan(d, set, down), set, down)
<1>1. d \in Seq(Nat) BY DirectoryAssumption
<1>2. Seen(d, set, Len(d)) = set BY <1>1 DEF Seen, Names, Range
<1> QED BY <1>1, <1>2, ScanTop

-----------------------------------------------------------------------------
(* A window: the names p before and x behind the reference name r, or blank *)
(* for none, of the names S.                                                *)

\* CheckIndex and GetEntry of a window.
Valid(p, r, x, n) ==
    \/ n = 0 /\ r # Blank
    \/ n < 0 /\ -n <= Len(p)
    \/ n > 0 /\ n <= Len(x)

Entry(p, r, x, n) ==
    IF ~Valid(p, r, x, n) THEN Blank
    ELSE IF n = 0 THEN r ELSE IF n < 0 THEN p[-n] ELSE x[n]

LEMMA WindowIs ==
    ASSUME refc <=> ref # Blank
    PROVE
    /\ \A n : CheckIndex(n) <=> Valid(prev, ref, next, n)
    /\ \A n : GetEntry(n) = Entry(prev, ref, next, n)
BY DEF CheckIndex, GetEntry, Valid, Entry

\* The window has the nearest names on both sides, or was just emptied.
Holds(p, r, x, S) ==
    /\ r # Blank =>
          /\ r \in S
          /\ Top(p, {n \in S : n < r}, TRUE) /\ Top(x, {n \in S : n > r}, FALSE)
    /\ r = Blank => p = << >> /\ (x = << >> \/ Top(x, S, FALSE))

\* Its names are among S, and in order.
Within(p, r, x, S) == \A n \in Int : Valid(p, r, x, n) => Entry(p, r, x, n) \in S

Sorted(p, r, x) ==
    \A m, n \in Int : Valid(p, r, x, m) /\ Valid(p, r, x, n) /\ m < n =>
        Entry(p, r, x, m) < Entry(p, r, x, n)

\* No name is missing between two that the window has.
Dense(p, r, x, S) ==
    \A q, j \in Int : \A n \in S :
        Valid(p, r, x, q) /\ Valid(p, r, x, j) /\ Entry(p, r, x, q) < n /\ n < Entry(p, r, x, j) =>
            \E m \in Int : /\ q < m /\ m < j /\ Valid(p, r, x, m)
                          /\ Entry(p, r, x, m) = n

\* Top in terms of <.
LEMMA TopIs ==
    ASSUME NEW list, NEW A, A \subseteq Nat, Top(list, A, FALSE)
    PROVE  /\ Len(list) \in Nat /\ \A q \in 1 .. Len(list) : list[q] \in A /\ list[q] \in Nat
           /\ \A q, j \in 1 .. Len(list) : q < j => list[q] < list[j]
           /\ \A a \in A : \/ \E q \in 1 .. Len(list) : list[q] = a
                           \/ Len(list) = Height /\ list[Height] < a
BY DEF Top, Before

LEMMA TopDownIs ==
    ASSUME NEW list, NEW A, A \subseteq Nat, Top(list, A, TRUE)
    PROVE  /\ Len(list) \in Nat /\ \A q \in 1 .. Len(list) : list[q] \in A /\ list[q] \in Nat
           /\ \A q, j \in 1 .. Len(list) : q < j => list[q] > list[j]
           /\ \A a \in A : \/ \E q \in 1 .. Len(list) : list[q] = a
                           \/ Len(list) = Height /\ list[Height] > a
BY DEF Top, Before

\* The two halves of a window are in order, before and behind the reference name.
Halved(p, r, x, S) ==
    /\ Len(p) \in Nat /\ Len(x) \in Nat
    /\ \A q \in 1 .. Len(x) : x[q] \in S /\ x[q] \in Nat /\ (r # Blank => r < x[q])
    /\ \A q, j \in 1 .. Len(x) : q < j => x[q] < x[j]
    /\ \A q \in 1 .. Len(p) : p[q] \in S /\ p[q] \in Nat /\ r # Blank /\ p[q] < r
    /\ \A q, j \in 1 .. Len(p) : q < j => p[q] > p[j]
    /\ r # Blank => r \in S /\ r \in Nat

LEMMA Halves ==
    ASSUME NEW p, NEW r, NEW x, NEW S, S \subseteq Nat \ {0}, Holds(p, r, x, S)
    PROVE  Halved(p, r, x, S)
<1> USE DEF Halved
<1>1. CASE r # Blank
  <2> DEFINE L == {n \in S : n < r}
             G == {n \in S : n > r}
  <2>1. L \subseteq Nat /\ G \subseteq Nat /\ Top(p, L, TRUE) /\ Top(x, G, FALSE) BY <1>1 DEF Holds
  <2>2. \A n \in L : n \in S /\ n < r OBVIOUS
  <2>3. \A n \in G : n \in S /\ r < n BY <1>1 DEF Holds
  <2> HIDE DEF L, G
  <2>4. /\ Len(p) \in Nat /\ \A q \in 1 .. Len(p) : p[q] \in L /\ p[q] \in Nat
        /\ \A q, j \in 1 .. Len(p) : q < j => p[q] > p[j]
    BY <2>1, TopDownIs
  <2>5. /\ Len(x) \in Nat /\ \A q \in 1 .. Len(x) : x[q] \in G /\ x[q] \in Nat
        /\ \A q, j \in 1 .. Len(x) : q < j => x[q] < x[j]
    BY <2>1, TopIs
  <2>6. r \in S /\ r \in Nat BY <1>1 DEF Holds
  <2> QED BY <1>1, <2>2, <2>3, <2>4, <2>5, <2>6
<1>2. CASE r = Blank
  <2>1. Len(p) = 0 /\ 1 .. 0 = {} BY <1>2 DEF Holds
  <2>2. CASE x = << >>
    <3>1. Len(x) = 0 BY <2>2
    <3> QED BY <1>2, <2>1, <3>1
  <2>3. CASE Top(x, S, FALSE)
    <3>1. /\ Len(x) \in Nat /\ \A q \in 1 .. Len(x) : x[q] \in S /\ x[q] \in Nat
          /\ \A q, j \in 1 .. Len(x) : q < j => x[q] < x[j]
      BY <2>3, TopIs
    <3> QED BY <1>2, <2>1, <3>1
  <2> QED BY <1>2, <2>2, <2>3 DEF Holds
<1> QED BY <1>1, <1>2

\* Where an entry is.
LEMMA Places ==
    ASSUME NEW p, NEW r, NEW x, Len(p) \in Nat, Len(x) \in Nat,
           NEW n \in Int, Valid(p, r, x, n)
    PROVE  \/ n = 0 /\ r # Blank /\ Entry(p, r, x, n) = r
           \/ n < 0 /\ -n \in 1 .. Len(p) /\ Entry(p, r, x, n) = p[-n]
           \/ n > 0 /\ n \in 1 .. Len(x) /\ Entry(p, r, x, n) = x[n]
BY DEF Valid, Entry

LEMMA EntryWithin ==
    ASSUME NEW p, NEW r, NEW x, NEW S, S \subseteq Nat \ {0}, Holds(p, r, x, S)
    PROVE  Within(p, r, x, S)
<1> SUFFICES ASSUME NEW n \in Int, Valid(p, r, x, n) PROVE Entry(p, r, x, n) \in S
  BY DEF Within
<1>1. Halved(p, r, x, S) BY Halves
<1>2. Len(p) \in Nat /\ Len(x) \in Nat BY <1>1 DEF Halved
<1>3. \/ n = 0 /\ r # Blank /\ Entry(p, r, x, n) = r
      \/ n < 0 /\ -n \in 1 .. Len(p) /\ Entry(p, r, x, n) = p[-n]
      \/ n > 0 /\ n \in 1 .. Len(x) /\ Entry(p, r, x, n) = x[n]
  BY <1>2, Places
<1> QED BY <1>1, <1>3 DEF Halved

LEMMA EntrySorted ==
    ASSUME NEW p, NEW r, NEW x, NEW S, S \subseteq Nat \ {0}, Holds(p, r, x, S)
    PROVE  Sorted(p, r, x)
<1> SUFFICES ASSUME NEW m \in Int, NEW n \in Int, Valid(p, r, x, m), Valid(p, r, x, n), m < n
             PROVE  Entry(p, r, x, m) < Entry(p, r, x, n)
  BY DEF Sorted
<1>0. Halved(p, r, x, S) BY Halves
<1>1. /\ Len(p) \in Nat /\ Len(x) \in Nat
      /\ \A q \in 1 .. Len(x) : x[q] \in S /\ x[q] \in Nat /\ (r # Blank => r < x[q])
      /\ \A q, j \in 1 .. Len(x) : q < j => x[q] < x[j]
      /\ \A q \in 1 .. Len(p) : p[q] \in S /\ p[q] \in Nat /\ r # Blank /\ p[q] < r
      /\ \A q, j \in 1 .. Len(p) : q < j => p[q] > p[j]
      /\ r # Blank => r \in S /\ r \in Nat
  BY <1>0 DEF Halved
<1>2. \/ m = 0 /\ r # Blank /\ Entry(p, r, x, m) = r
      \/ m < 0 /\ -m \in 1 .. Len(p) /\ Entry(p, r, x, m) = p[-m]
      \/ m > 0 /\ m \in 1 .. Len(x) /\ Entry(p, r, x, m) = x[m]
  BY <1>1, Places
<1>3. \/ n = 0 /\ r # Blank /\ Entry(p, r, x, n) = r
      \/ n < 0 /\ -n \in 1 .. Len(p) /\ Entry(p, r, x, n) = p[-n]
      \/ n > 0 /\ n \in 1 .. Len(x) /\ Entry(p, r, x, n) = x[n]
  BY <1>1, Places
<1> DEFINE em == Entry(p, r, x, m)
           en == Entry(p, r, x, n)
<1> HIDE DEF em, en
<1>4. CASE m = 0
  <2>1. n > 0 BY <1>4
  <2> QED BY <1>1, <1>2, <1>3, <1>4, <2>1
<1>5. CASE m > 0
  <2>1. n > 0 BY <1>5
  <2> QED BY <1>1, <1>2, <1>3, <1>5, <2>1
<1>6. CASE m < 0 /\ n < 0
  <2>1. -n < -m BY <1>6
  <2>2. p[-n] > p[-m] BY <2>1, <1>1, <1>2, <1>3, <1>6
  <2>3. p[-n] \in Nat /\ p[-m] \in Nat BY <1>1, <1>2, <1>3, <1>6
  <2> QED BY <2>2, <2>3, <1>2, <1>3, <1>6
<1>7. CASE m < 0 /\ n = 0 BY <1>1, <1>2, <1>3, <1>7
<1>8. CASE m < 0 /\ n > 0
  <2>1. /\ p[-m] \in Nat /\ r # Blank /\ p[-m] < r /\ Entry(p, r, x, m) = p[-m] BY <1>1, <1>2, <1>8
  <2>2. /\ x[n] \in Nat /\ r < x[n] /\ Entry(p, r, x, n) = x[n] BY <2>1, <1>1, <1>3, <1>8
  <2>3. r \in Nat BY <2>1, <1>1
  <2> QED BY <2>1, <2>2, <2>3
<1> QED BY <1>4, <1>5, <1>6, <1>7, <1>8

LEMMA EntryDense ==
    ASSUME NEW p, NEW r, NEW x, NEW S, S \subseteq Nat \ {0}, Holds(p, r, x, S)
    PROVE  Dense(p, r, x, S)
<1> SUFFICES ASSUME NEW q \in Int, NEW j \in Int, NEW n \in S, Valid(p, r, x, q), Valid(p, r, x, j),
                    Entry(p, r, x, q) < n, n < Entry(p, r, x, j)
             PROVE  \E m \in Int : /\ q < m /\ m < j /\ Valid(p, r, x, m)
                                   /\ Entry(p, r, x, m) = n
  BY DEF Dense
<1>1. Sorted(p, r, x) /\ Within(p, r, x, S) BY EntrySorted, EntryWithin
<1>2. n \in Nat /\ Entry(p, r, x, q) \in Nat /\ Entry(p, r, x, j) \in Nat BY <1>1 DEF Within
<1>3. ASSUME NEW m \in Int, Valid(p, r, x, m), Entry(p, r, x, m) = n PROVE q < m /\ m < j
  <2>1. m # q /\ m # j BY <1>2, <1>3
  <2>2. ~(m < q)
    <3>1. m < q => n < Entry(p, r, x, q) BY <1>1, <1>3 DEF Sorted
    <3> QED BY <3>1, <1>2
  <2>3. ~(j < m)
    <3>1. j < m => Entry(p, r, x, j) < n BY <1>1, <1>3 DEF Sorted
    <3> QED BY <3>1, <1>2
  <2> QED BY <2>1, <2>2, <2>3
<1>4. ASSUME \E m \in Int : Valid(p, r, x, m) /\ Entry(p, r, x, m) = n
      PROVE  \E m \in Int : /\ q < m /\ m < j /\ Valid(p, r, x, m)
                            /\ Entry(p, r, x, m) = n
  BY <1>3, <1>4
<1> SUFFICES \E m \in Int : Valid(p, r, x, m) /\ Entry(p, r, x, m) = n BY <1>4
<1>0. Halved(p, r, x, S) BY Halves
<1>5. Len(p) \in Nat /\ Len(x) \in Nat BY <1>0 DEF Halved
<1>6. ASSUME NEW k \in 1 .. Len(x), x[k] = n PROVE \E m \in Int : Valid(p, r, x, m) /\ Entry(p, r, x, m) = n
  <2>1. k \in Int /\ Valid(p, r, x, k) /\ Entry(p, r, x, k) = n BY <1>5, <1>6 DEF Valid, Entry
  <2> QED BY <2>1
<1>7. ASSUME NEW k \in 1 .. Len(p), p[k] = n PROVE \E m \in Int : Valid(p, r, x, m) /\ Entry(p, r, x, m) = n
  <2>1. -k \in Int /\ Valid(p, r, x, -k) /\ Entry(p, r, x, -k) = n BY <1>5, <1>7 DEF Valid, Entry
  <2> QED BY <2>1
\* The last name behind the reference name is not less than the one at j.
<1>8. ASSUME NEW A, A \subseteq Nat, Top(x, A, FALSE), n \in A, j > 0
      PROVE  \E m \in Int : Valid(p, r, x, m) /\ Entry(p, r, x, m) = n
  <2>1. \/ \E k \in 1 .. Len(x) : x[k] = n
        \/ Len(x) = Height /\ x[Height] < n
    BY <1>8, TopIs
  <2>2. CASE Len(x) = Height /\ x[Height] < n
    <3>1. j \in 1 .. Len(x) /\ Entry(p, r, x, j) = x[j] BY <1>5, <1>8, Places
    <3>2. Height \in 1 .. Len(x) BY <2>2, <3>1, <1>5
    <3>3. j < Height => x[j] < x[Height] BY <3>1, <3>2, <1>8, TopIs
    <3>4. x[Height] \in Nat /\ x[j] \in Nat BY <3>1, <3>2, <1>8, TopIs
    <3>5. j = Height \/ j < Height BY <2>2, <3>1, <1>5
    <3>6. n < x[j] BY <3>1
    <3> QED BY <2>2, <3>3, <3>4, <3>5, <3>6, <1>2
  <2> QED BY <2>1, <2>2, <1>6
<1>9. CASE r = Blank
  <2>1. p = << >> /\ j > 0
    <3>1. p = << >> /\ Len(p) = 0 BY <1>9 DEF Holds
    <3> QED BY <1>9, <3>1 DEF Valid
  <2>2. x # << >>
    <3>1. Len(x) # 0 BY <2>1, <1>5 DEF Valid
    <3> QED BY <3>1
  <2>3. Top(x, S, FALSE) BY <1>9, <2>2 DEF Holds
  <2> QED BY <2>1, <2>3, <1>8
<1>10. CASE r # Blank /\ n > r
  <2>1. r \in Nat /\ Valid(p, r, x, 0) /\ Entry(p, r, x, 0) = r
    BY <1>0, <1>10 DEF Valid, Entry, Halved
  <2>2. j > 0
    <3>1. j < 0 => Entry(p, r, x, j) < r BY <1>1, <2>1 DEF Sorted
    <3>2. j = 0 => Entry(p, r, x, j) = r BY <2>1
    <3> QED BY <3>1, <3>2, <2>1, <1>2, <1>10
  <2>3. n \in {k \in S : k > r} /\ {k \in S : k > r} \subseteq Nat BY <1>10
  <2>4. Top(x, {k \in S : k > r}, FALSE) BY <1>10 DEF Holds
  <2> QED BY <2>2, <2>3, <2>4, <1>8
<1>11. CASE r # Blank /\ n < r
  <2>1. r \in Nat /\ Valid(p, r, x, 0) /\ Entry(p, r, x, 0) = r
    BY <1>0, <1>11 DEF Valid, Entry, Halved
  <2>2. q < 0
    <3>1. q > 0 => r < Entry(p, r, x, q) BY <1>1, <2>1 DEF Sorted
    <3>2. q = 0 => Entry(p, r, x, q) = r BY <2>1
    <3> QED BY <3>1, <3>2, <2>1, <1>2, <1>11
  <2> DEFINE A == {k \in S : k < r}
  <2>3. n \in A /\ A \subseteq Nat BY <1>11
  <2>4. Top(p, A, TRUE) BY <1>11 DEF Holds
  <2> HIDE DEF A
  <2>5. \/ \E k \in 1 .. Len(p) : p[k] = n
        \/ Len(p) = Height /\ p[Height] > n
    BY <2>3, <2>4, TopDownIs
  <2>6. CASE Len(p) = Height /\ p[Height] > n
    <3>1. -q \in 1 .. Len(p) /\ Entry(p, r, x, q) = p[-q] BY <1>5, <2>2, Places
    <3>2. Height \in 1 .. Len(p) BY <2>6, <3>1, <1>5
    <3>3. -q < Height => p[-q] > p[Height] BY <3>1, <3>2, <2>3, <2>4, TopDownIs
    <3>4. p[Height] \in Nat /\ p[-q] \in Nat BY <3>1, <3>2, <2>3, <2>4, TopDownIs
    <3>5. -q = Height \/ -q < Height BY <2>6, <3>1, <1>5
    <3>6. p[-q] < n BY <3>1
    <3> QED BY <2>6, <3>3, <3>4, <3>5, <3>6, <1>2
  <2> QED BY <2>5, <2>6, <1>7
<1>12. CASE r # Blank /\ n = r
  <2>1. Valid(p, r, x, 0) /\ Entry(p, r, x, 0) = r BY <1>12 DEF Valid, Entry
  <2> QED BY <2>1, <1>12
<1>13. r # Blank => r \in Nat BY <1>0 DEF Halved
<1> QED BY <1>2, <1>9, <1>10, <1>11, <1>12, <1>13

\* A name that the window does not have is farther from the reference name than
\* the height of the window.
Reaching(p, r, x, S) ==
    \A a \in S : \/ \E m \in Int : Valid(p, r, x, m) /\ Entry(p, r, x, m) = a
                 \/ Valid(p, r, x, Height) /\ Entry(p, r, x, Height) < a
                 \/ Valid(p, r, x, -Height) /\ a < Entry(p, r, x, -Height)

\* Which places a window has.
Extent(p, r, x) ==
    /\ \A n \in Int : Valid(p, r, x, n) => -Height <= n /\ n <= Height /\ (r = Blank => n > 0)
    /\ \A q, j, k \in Int :
          Valid(p, r, x, q) /\ Valid(p, r, x, j) /\ q <= k /\ k <= j => Valid(p, r, x, k)
    /\ r # Blank => Valid(p, r, x, 0) /\ Entry(p, r, x, 0) = r

LEMMA EntryExtent ==
    ASSUME NEW p, NEW r, NEW x, NEW S, S \subseteq Nat \ {0}, Holds(p, r, x, S)
    PROVE  Extent(p, r, x)
<1>1. Halved(p, r, x, S) BY Halves
<1>2. Len(p) \in Nat /\ Len(x) \in Nat /\ Height \in Nat BY <1>1, HeightAssumption DEF Halved
<1>3. Len(p) <= Height /\ Len(x) <= Height
  <2>1. Len(<< >>) = 0 OBVIOUS
  <2>2. \A l, A, down : Top(l, A, down) => Len(l) <= Height BY DEF Top
  <2>3. ASSUME r = Blank PROVE Len(p) <= Height /\ Len(x) <= Height
    <3>1. p = << >> /\ (x = << >> \/ Top(x, S, FALSE)) BY <2>3 DEF Holds
    <3>2. 0 <= Height BY <1>2
    <3>3. x = << >> => Len(x) <= Height BY <2>1, <3>2
    <3>4. Top(x, S, FALSE) => Len(x) <= Height BY DEF Top
    <3>5. Len(p) <= Height BY <2>1, <3>1, <3>2
    <3> QED BY <3>1, <3>3, <3>4, <3>5
  <2>4. r # Blank => Len(p) <= Height /\ Len(x) <= Height BY <2>2 DEF Holds
  <2> QED BY <2>3, <2>4
<1>4. r = Blank => Len(p) = 0
  <2>1. Len(<< >>) = 0 OBVIOUS
  <2> QED BY <2>1 DEF Holds
<1>5. \A n \in Int : Valid(p, r, x, n) => -Height <= n /\ n <= Height /\ (r = Blank => n > 0)
  BY <1>2, <1>3, <1>4 DEF Valid
<1>6. ASSUME NEW q \in Int, NEW j \in Int, NEW k \in Int,
             Valid(p, r, x, q), Valid(p, r, x, j), q <= k, k <= j
      PROVE  Valid(p, r, x, k)
  BY <1>2, <1>4, <1>6 DEF Valid
<1>7. r # Blank => Valid(p, r, x, 0) /\ Entry(p, r, x, 0) = r BY DEF Valid, Entry
<1> QED BY <1>5, <1>6, <1>7 DEF Extent

LEMMA EntryReaching ==
    ASSUME NEW p, NEW r, NEW x, NEW S, S \subseteq Nat \ {0}, Holds(p, r, x, S),
           r = Blank => x # << >>
    PROVE  Reaching(p, r, x, S)
<1> SUFFICES ASSUME NEW a \in S
             PROVE  \/ \E m \in Int : Valid(p, r, x, m) /\ Entry(p, r, x, m) = a
                    \/ Valid(p, r, x, Height) /\ Entry(p, r, x, Height) < a
                    \/ Valid(p, r, x, -Height) /\ a < Entry(p, r, x, -Height)
  BY DEF Reaching
<1>1. Halved(p, r, x, S) BY Halves
<1>2. Len(p) \in Nat /\ Len(x) \in Nat /\ Height \in Nat /\ Height > 2 /\ a \in Nat
  BY <1>1, HeightAssumption DEF Halved
<1>3. ASSUME NEW k \in 1 .. Len(x), x[k] = a PROVE \E m \in Int : Valid(p, r, x, m) /\ Entry(p, r, x, m) = a
  <2>1. k \in Int /\ Valid(p, r, x, k) /\ Entry(p, r, x, k) = a BY <1>2, <1>3 DEF Valid, Entry
  <2> QED BY <2>1
<1>4. ASSUME NEW k \in 1 .. Len(p), p[k] = a PROVE \E m \in Int : Valid(p, r, x, m) /\ Entry(p, r, x, m) = a
  <2>1. -k \in Int /\ Valid(p, r, x, -k) /\ Entry(p, r, x, -k) = a BY <1>2, <1>4 DEF Valid, Entry
  <2> QED BY <2>1
<1>5. ASSUME NEW A, A \subseteq Nat, Top(x, A, FALSE), a \in A
      PROVE  \/ \E m \in Int : Valid(p, r, x, m) /\ Entry(p, r, x, m) = a
             \/ Valid(p, r, x, Height) /\ Entry(p, r, x, Height) < a
  <2>1. \/ \E k \in 1 .. Len(x) : x[k] = a
        \/ Len(x) = Height /\ x[Height] < a
    BY <1>5, TopIs
  <2>2. Len(x) = Height => Valid(p, r, x, Height) /\ Entry(p, r, x, Height) = x[Height]
    BY <1>2 DEF Valid, Entry
  <2> QED BY <2>1, <2>2, <1>3
<1>6. ASSUME NEW A, A \subseteq Nat, Top(p, A, TRUE), a \in A
      PROVE  \/ \E m \in Int : Valid(p, r, x, m) /\ Entry(p, r, x, m) = a
             \/ Valid(p, r, x, -Height) /\ a < Entry(p, r, x, -Height)
  <2>1. \/ \E k \in 1 .. Len(p) : p[k] = a
        \/ Len(p) = Height /\ p[Height] > a
    BY <1>6, TopDownIs
  <2>2. Len(p) = Height => Valid(p, r, x, -Height) /\ Entry(p, r, x, -Height) = p[Height]
    <3>1. -Height < 0 /\ -(-Height) = Height /\ -Height # 0 BY <1>2
    <3> QED BY <3>1, <1>2 DEF Valid, Entry
  <2>3. p[Height] > a => a < p[Height] OBVIOUS
  <2> QED BY <2>1, <2>2, <2>3, <1>4
<1>7. CASE r = Blank
  <2>1. Top(x, S, FALSE) BY <1>7 DEF Holds
  <2> QED BY <2>1, <1>5
<1>8. CASE r # Blank /\ a = r
  <2>1. Valid(p, r, x, 0) /\ Entry(p, r, x, 0) = a BY <1>8 DEF Valid, Entry
  <2> QED BY <2>1
<1>9. CASE r # Blank /\ a > r
  <2>1. a \in {n \in S : n > r} /\ {n \in S : n > r} \subseteq Nat BY <1>9
  <2>2. Top(x, {n \in S : n > r}, FALSE) BY <1>9 DEF Holds
  <2> QED BY <2>1, <2>2, <1>5
<1>10. CASE r # Blank /\ a < r
  <2>1. a \in {n \in S : n < r} /\ {n \in S : n < r} \subseteq Nat BY <1>10
  <2>2. Top(p, {n \in S : n < r}, TRUE) BY <1>10 DEF Holds
  <2> QED BY <2>1, <2>2, <1>6
<1>11. r # Blank => r \in Nat BY <1>1 DEF Halved
<1> QED BY <1>2, <1>7, <1>8, <1>9, <1>10, <1>11

\* Nothing is behind an end of the window, unless it is as high as it can be.
LEMMA NothingBehind ==
    ASSUME NEW p, NEW r, NEW x, NEW S, S \subseteq Nat \ {0}, Holds(p, r, x, S),
           NEW n \in Int, Valid(p, r, x, n), NEW a \in S
    PROVE  /\ n < Height /\ ~Valid(p, r, x, n + 1) => a <= Entry(p, r, x, n)
           /\ -Height < n /\ ~Valid(p, r, x, n - 1) => a >= Entry(p, r, x, n)
<1>1. Sorted(p, r, x) /\ Within(p, r, x, S) /\ Extent(p, r, x)
  BY EntrySorted, EntryWithin, EntryExtent
<1>2. r = Blank => x # << >>
  <2> SUFFICES ASSUME r = Blank, x = << >> PROVE FALSE OBVIOUS
  <2>1. Len(p) = 0 /\ Len(x) = 0
    <3>1. Len(<< >>) = 0 OBVIOUS
    <3> QED BY <3>1 DEF Holds
  <2> QED BY <2>1 DEF Valid
<1>3. Reaching(p, r, x, S) BY <1>2, EntryReaching
<1>4. Height \in Nat /\ Height > 2 /\ a \in Nat BY HeightAssumption
<1>5. \A m \in Int : Valid(p, r, x, m) => Entry(p, r, x, m) \in Nat BY <1>1 DEF Within
<1>6. ASSUME NEW m \in Int, Valid(p, r, x, m)
      PROVE  /\ m <= n => Entry(p, r, x, m) <= Entry(p, r, x, n)
             /\ m >= n => Entry(p, r, x, m) >= Entry(p, r, x, n)
  <2>1. m < n => Entry(p, r, x, m) < Entry(p, r, x, n) BY <1>1, <1>6 DEF Sorted
  <2>2. n < m => Entry(p, r, x, n) < Entry(p, r, x, m) BY <1>1, <1>6 DEF Sorted
  <2>3. Entry(p, r, x, m) \in Nat /\ Entry(p, r, x, n) \in Nat BY <1>5, <1>6
  <2> QED BY <2>1, <2>2, <2>3
<1>7. \/ \E m \in Int : Valid(p, r, x, m) /\ Entry(p, r, x, m) = a
      \/ Valid(p, r, x, Height) /\ Entry(p, r, x, Height) < a
      \/ Valid(p, r, x, -Height) /\ a < Entry(p, r, x, -Height)
  BY <1>3 DEF Reaching
<1>8. ASSUME NEW m \in Int, Valid(p, r, x, m)
      PROVE  /\ ~Valid(p, r, x, n + 1) => m <= n
             /\ ~Valid(p, r, x, n - 1) => m >= n
  <2>1. n < m => n <= n + 1 /\ n + 1 <= m OBVIOUS
  <2>2. m < n => m <= n - 1 /\ n - 1 <= n OBVIOUS
  <2>3. n + 1 \in Int /\ n - 1 \in Int OBVIOUS
  <2>4. n < m => Valid(p, r, x, n + 1) BY <2>1, <2>3, <1>1, <1>8 DEF Extent
  <2>5. m < n => Valid(p, r, x, n - 1) BY <2>2, <2>3, <1>1, <1>8 DEF Extent
  <2> QED BY <2>4, <2>5
<1>9. -Height <= n /\ n <= Height BY <1>1 DEF Extent
<1>10. Height \in Int /\ -Height \in Int BY <1>4
<1>11. ASSUME n < Height, ~Valid(p, r, x, n + 1) PROVE a <= Entry(p, r, x, n)
  <2>1. ~Valid(p, r, x, Height) BY <1>8, <1>10, <1>11
  <2>2. CASE \E m \in Int : Valid(p, r, x, m) /\ Entry(p, r, x, m) = a BY <2>2, <1>6, <1>8, <1>11
  <2>3. CASE Valid(p, r, x, -Height) /\ a < Entry(p, r, x, -Height)
    <3>1. Entry(p, r, x, -Height) <= Entry(p, r, x, n) BY <2>3, <1>6, <1>9, <1>10
    <3>2. Entry(p, r, x, -Height) \in Nat /\ Entry(p, r, x, n) \in Nat BY <2>3, <1>5, <1>10
    <3> QED BY <2>3, <3>1, <3>2, <1>4
  <2> QED BY <2>1, <2>2, <2>3, <1>7
<1>12. ASSUME -Height < n, ~Valid(p, r, x, n - 1) PROVE a >= Entry(p, r, x, n)
  <2>1. ~Valid(p, r, x, -Height) BY <1>8, <1>10, <1>12
  <2>2. CASE \E m \in Int : Valid(p, r, x, m) /\ Entry(p, r, x, m) = a BY <2>2, <1>6, <1>8, <1>12
  <2>3. CASE Valid(p, r, x, Height) /\ Entry(p, r, x, Height) < a
    <3>1. Entry(p, r, x, Height) >= Entry(p, r, x, n) BY <2>3, <1>6, <1>9, <1>10
    <3>2. Entry(p, r, x, Height) \in Nat /\ Entry(p, r, x, n) \in Nat BY <2>3, <1>5, <1>10
    <3> QED BY <2>3, <3>1, <3>2, <1>4
  <2> QED BY <2>1, <2>2, <2>3, <1>7
<1> QED BY <1>11, <1>12

-----------------------------------------------------------------------------
(* The invariant.                                                           *)

\* The cursor s is on a name, in a window whose first line is o.
AtCursor(p, r, x, o, s) ==
    /\ o \in -Height .. 0 /\ s \in o .. o + Height - 1 /\ s > -Height
    /\ (Valid(p, r, x, s) \/ (r = Blank /\ x = << >>))
    /\ r = Blank => o = 0

\* The state around the window.
Settings ==
    /\ path \in {"none", "unset", "set"} /\ browsing \in BOOLEAN /\ delayed \in BOOLEAN
    /\ astray \in BOOLEAN /\ refc \in BOOLEAN
    /\ browsing => path = "set"
    /\ dir \in Directory /\ filter \in Seq(SUBSET Names(dir))
    /\ Len(filter) >= 1 /\ Len(filter) <= MaxFilter + 1

\* In an open browser a first scan finds the window filled.
BrowserInv ==
    /\ Settings
    /\ refc <=> ref # Blank
    /\ Holds(prev, ref, next, Shown)
    /\ AtCursor(prev, ref, next, offset, sel)
    /\ browsing /\ ~delayed /\ ref = Blank => Top(next, Shown, FALSE)

LEMMA NamesAre ==
    ASSUME NEW d \in Directory
    PROVE  Names(d) \subseteq Nat \ {0}
<1>1. d \in Seq(Nat \ {0}) BY DirectoryAssumption
<1> QED BY <1>1 DEF Names, Range

LEMMA ShownAre ==
    ASSUME Settings
    PROVE  Shown \subseteq Names(dir) /\ Shown \subseteq Nat \ {0} /\ dir \in Directory
<1>1. dir \in Directory /\ filter \in Seq(SUBSET Names(dir)) /\ Len(filter) >= 1 BY DEF Settings
<1>2. Len(filter) \in 1 .. Len(filter) BY <1>1
<1>3. filter[Len(filter)] \in SUBSET Names(dir) BY <1>1, <1>2
<1> QED BY <1>1, <1>3, NamesAre DEF Shown

\* An empty window.
LEMMA Emptied ==
    ASSUME NEW S
    PROVE  /\ Holds(<< >>, Blank, << >>, S)
           /\ \A s \in {0, 1} : AtCursor(<< >>, Blank, << >>, 0, s)
BY HeightAssumption DEF Holds, AtCursor

\* Filesel_ScanFirst.
LEMMA FirstScanned ==
    ASSUME NEW d \in Directory, NEW S, S \subseteq Names(d)
    PROVE  /\ Top(Scan(d, S, FALSE), S, FALSE)
           /\ Holds(<< >>, Blank, Scan(d, S, FALSE), S)
           /\ AtCursor(<< >>, Blank, Scan(d, S, FALSE), 0, 1)
<1> DEFINE x == Scan(d, S, FALSE)
<1>1. Top(x, S, FALSE) BY ScanKeeps
<1> HIDE DEF x
<1>2. Holds(<< >>, Blank, x, S) BY <1>1 DEF Holds
<1>3. x \in Seq(Nat) BY <1>1 DEF Top
<1>4. x = << >> \/ 1 <= Len(x) BY <1>3
<1>5. AtCursor(<< >>, Blank, x, 0, 1) BY <1>4, HeightAssumption DEF AtCursor, Valid
<1> QED BY <1>1, <1>2, <1>5 DEF x

\* Filesel_ScanUpdate around a name of the window.
LEMMA Rescanned ==
    ASSUME NEW d \in Directory, NEW S, S \subseteq Names(d), NEW r \in S
    PROVE  /\ r # Blank
           /\ Holds(Scan(d, {n \in S : n < r}, TRUE), r, Scan(d, {n \in S : n > r}, FALSE), S)
<1>1. {n \in S : n < r} \subseteq Names(d) /\ {n \in S : n > r} \subseteq Names(d) OBVIOUS
<1>2. Top(Scan(d, {n \in S : n < r}, TRUE), {n \in S : n < r}, TRUE) BY <1>1, ScanKeeps
<1>3. Top(Scan(d, {n \in S : n > r}, FALSE), {n \in S : n > r}, FALSE) BY <1>1, ScanKeeps
<1>4. r # Blank BY NamesAre DEF Blank
<1> QED BY <1>2, <1>3, <1>4 DEF Holds

LEMMA BrowserInit == SelInit => BrowserInv
<1> SUFFICES ASSUME SelInit PROVE BrowserInv OBVIOUS
<1>1. Settings
  <2>1. filter = <<Names(dir)>> BY DEF SelInit
  <2>2. filter \in Seq(SUBSET Names(dir)) /\ Len(filter) = 1 BY <2>1
  <2>3. 1 >= 1 /\ 1 <= MaxFilter + 1 BY FilterAssumption
  <2>4. Len(filter) >= 1 /\ Len(filter) <= MaxFilter + 1 BY <2>2, <2>3
  <2>5. /\ path \in {"none", "unset", "set"} /\ browsing \in BOOLEAN /\ delayed \in BOOLEAN
        /\ astray \in BOOLEAN /\ refc \in BOOLEAN /\ ~browsing /\ dir \in Directory
    BY DEF SelInit
  <2> QED BY <2>2, <2>4, <2>5 DEF Settings
<1>2. /\ prev = << >> /\ ref = Blank /\ next = << >> /\ offset = 0 /\ sel = 0
      /\ refc = FALSE /\ browsing = FALSE
  BY DEF SelInit
<1> QED BY <1>1, <1>2, Emptied DEF BrowserInv

-----------------------------------------------------------------------------
(* What a key does to the window.                                           *)

\* Names on either side of the reference name are found by a rescan around it.
LEMMA RescanReaches ==
    ASSUME NEW p2, NEW r, NEW x2, NEW S, S \subseteq Nat \ {0}, r # Blank,
           Holds(p2, r, x2, S), NEW a \in S
    PROVE  /\ r < a => Valid(p2, r, x2, 1)
           /\ a < r => Valid(p2, r, x2, -1)
<1>1. Extent(p2, r, x2) BY EntryExtent
<1>2. Valid(p2, r, x2, 0) /\ Entry(p2, r, x2, 0) = r BY <1>1 DEF Extent
<1>3. Height \in Nat /\ Height > 2 /\ a \in Nat BY HeightAssumption
<1>4. /\ 0 < Height /\ ~Valid(p2, r, x2, 0 + 1) => a <= Entry(p2, r, x2, 0)
      /\ -Height < 0 /\ ~Valid(p2, r, x2, 0 - 1) => a >= Entry(p2, r, x2, 0)
  <2>1. 0 \in Int OBVIOUS
  <2> QED BY <1>2, <2>1, NothingBehind
<1>5. 0 + 1 = 1 /\ 0 - 1 = -1 /\ 0 < Height /\ -Height < 0 BY <1>3
<1>6. r \in Nat
  <2>1. Within(p2, r, x2, S) BY EntryWithin
  <2>2. 0 \in Int OBVIOUS
  <2>3. r \in S BY <2>1, <2>2, <1>2 DEF Within
  <2> QED BY <2>3
<1> QED BY <1>2, <1>3, <1>4, <1>5, <1>6

\* What a rescan around a name a leaves, whatever line it is put on.
Around(a) ==
    /\ Settings' /\ (refc' <=> ref' # Blank) /\ ref' = a /\ a # Blank /\ refc'
    /\ Shown' = Shown /\ Holds(prev', ref', next', Shown')

LEMMA RescanKeeps ==
    ASSUME BrowserInv, InBrowser, Keep, NEW a \in Shown, ScanUpdate(a)
    PROVE  Around(a)
<1>1. Settings BY DEF BrowserInv
<1>2. Settings'
  <2>1. refc' = TRUE BY DEF ScanUpdate
  <2>2. UNCHANGED <<path, browsing, astray, dir, filter, delayed>> BY DEF InBrowser, Keep
  <2> QED BY <1>1, <2>1, <2>2 DEF Settings
<1>3. Shown' = Shown BY DEF Keep, Shown
<1> PICK S : S = Shown OBVIOUS
<1>4. S \subseteq Names(dir) /\ dir \in Directory /\ a \in S BY <1>1, ShownAre
<1>5. a # Blank /\ Holds(Scan(dir, {n \in S : n < a}, TRUE), a, Scan(dir, {n \in S : n > a}, FALSE), S)
  <2>1. PICK d : d = dir OBVIOUS
  <2>2. d \in Directory /\ S \subseteq Names(d) BY <2>1, <1>4
  <2>3. a # Blank /\ Holds(Scan(d, {n \in S : n < a}, TRUE), a, Scan(d, {n \in S : n > a}, FALSE), S)
    BY <2>2, <1>4, Rescanned
  <2> QED BY <2>1, <2>3
<1>6. /\ ref' = a /\ refc' = TRUE
      /\ prev' = Scan(dir, {n \in S : n < a}, TRUE) /\ next' = Scan(dir, {n \in S : n > a}, FALSE)
  BY DEF ScanUpdate
<1>7. Holds(prev', ref', next', Shown') BY <1>3, <1>5, <1>6
<1> QED BY <1>2, <1>3, <1>5, <1>6, <1>7 DEF Around

\* The window stays, and the cursor moves to one of its names.
LEMMA MoveKeeps ==
    ASSUME BrowserInv, InBrowser, Keep, UNCHANGED <<prev, ref, refc, next, offset>>,
           CheckIndex(sel'), sel' \in offset .. offset + Height - 1, sel' > -Height
    PROVE  BrowserInv'
<1>1. /\ Settings /\ (refc <=> ref # Blank) /\ Holds(prev, ref, next, Shown)
      /\ AtCursor(prev, ref, next, offset, sel)
      /\ (browsing /\ ~delayed /\ ref = Blank => Top(next, Shown, FALSE))
  BY DEF BrowserInv
<1>2. UNCHANGED <<path, browsing, astray, dir, filter, delayed>> BY DEF InBrowser, Keep
<1>3. Settings' BY <1>1, <1>2 DEF Settings
<1>4. Shown' = Shown BY <1>2 DEF Shown
<1>5. Valid(prev, ref, next, sel') BY <1>1 DEF CheckIndex, Valid
<1>6. AtCursor(prev, ref, next, offset, sel') BY <1>1, <1>5 DEF AtCursor
<1> QED BY <1>1, <1>2, <1>3, <1>4, <1>6 DEF BrowserInv

\* A rescan puts the cursor on a name.
LEMMA AroundKeeps ==
    ASSUME NEW a, Around(a), AtCursor(prev', ref', next', offset', sel')
    PROVE  BrowserInv'
BY DEF BrowserInv, Around

\* What the invariant says of the window, in terms of its places.
Window(p, r, x, S) ==
    /\ S \subseteq Nat \ {0} /\ Within(p, r, x, S) /\ Sorted(p, r, x) /\ Dense(p, r, x, S)
    /\ Extent(p, r, x) /\ Holds(p, r, x, S)

LEMMA WindowHolds ==
    ASSUME NEW p, NEW r, NEW x, NEW S, S \subseteq Nat \ {0}, Holds(p, r, x, S)
    PROVE  Window(p, r, x, S)
BY EntryWithin, EntrySorted, EntryDense, EntryExtent DEF Window

LEMMA BrowserWindow ==
    ASSUME BrowserInv
    PROVE  /\ Window(prev, ref, next, Shown)
           /\ \A n : CheckIndex(n) <=> Valid(prev, ref, next, n)
           /\ \A n : GetEntry(n) = Entry(prev, ref, next, n)
<1>1. Shown \subseteq Nat \ {0} /\ Holds(prev, ref, next, Shown) BY ShownAre DEF BrowserInv
<1>2. refc <=> ref # Blank BY DEF BrowserInv
<1> QED BY <1>1, <1>2, WindowHolds, WindowIs

LEMMA CursorIs ==
    ASSUME BrowserInv
    PROVE  /\ offset \in Int /\ sel \in Int /\ Height \in Nat /\ Height > 2
           /\ -Height <= offset /\ offset <= 0
           /\ offset <= sel /\ sel < offset + Height /\ sel > -Height
           /\ CheckIndex(sel) \/ (ref = Blank /\ next = << >>)
           /\ ref = Blank => offset = 0
<1>1. AtCursor(prev, ref, next, offset, sel) BY DEF BrowserInv
<1> QED BY <1>1, BrowserWindow, HeightAssumption DEF AtCursor

LEMMA EntryShown ==
    ASSUME BrowserInv, NEW n \in Int, CheckIndex(n)
    PROVE  GetEntry(n) \in Shown
<1>1. Window(prev, ref, next, Shown) /\ Valid(prev, ref, next, n)
      /\ GetEntry(n) = Entry(prev, ref, next, n)
  BY BrowserWindow
<1> QED BY <1>1 DEF Window, Within

\* If there is any name, the cursor is on one.
LEMMA CursorOn ==
    ASSUME BrowserInv, NEW n \in Int, CheckIndex(n)
    PROVE  CheckIndex(sel)
<1> SUFFICES ASSUME ref = Blank, next = << >> PROVE FALSE BY CursorIs
<1>1. prev = << >> BY DEF BrowserInv, Holds
<1>2. Len(<< >>) = 0 OBVIOUS
<1>3. ~refc BY DEF BrowserInv
<1> QED BY <1>1, <1>2, <1>3 DEF CheckIndex

\* The neighbours of the name the cursor is on.
LEMMA Neighbours ==
    ASSUME BrowserInv, CheckIndex(sel), NEW n \in Int, CheckIndex(n)
    PROVE  /\ GetEntry(n) \in Nat /\ GetEntry(sel) \in Nat
           /\ sel < n => GetEntry(sel) < GetEntry(n)
           /\ n < sel => GetEntry(n) < GetEntry(sel)
<1>1. Sorted(prev, ref, next) BY BrowserWindow DEF Window
<1>2. Valid(prev, ref, next, sel) /\ Valid(prev, ref, next, n) /\ sel \in Int BY BrowserWindow, CursorIs
<1>3. GetEntry(n) = Entry(prev, ref, next, n) /\ GetEntry(sel) = Entry(prev, ref, next, sel) BY BrowserWindow
<1>4. /\ sel < n => GetEntry(sel) < GetEntry(n)
      /\ n < sel => GetEntry(n) < GetEntry(sel)
  BY <1>1, <1>2, <1>3 DEF Sorted
<1>5. GetEntry(n) \in Shown /\ GetEntry(sel) \in Shown BY <1>2, EntryShown
<1>6. Shown \subseteq Nat BY ShownAre DEF BrowserInv
<1> QED BY <1>4, <1>5, <1>6

\* After a rescan around a, a name b has a place next to it.
LEMMA AroundReaches ==
    ASSUME NEW a, Around(a), NEW b \in Shown, Shown \subseteq Nat \ {0}
    PROVE  /\ Valid(prev', ref', next', 0) /\ Entry(prev', ref', next', 0) = a
           /\ a < b => Valid(prev', ref', next', 1)
           /\ b < a => Valid(prev', ref', next', -1)
<1> PICK p2, x2, S : p2 = prev' /\ x2 = next' /\ S = Shown OBVIOUS
<1>1. Holds(p2, a, x2, S) /\ S \subseteq Nat \ {0} /\ a # Blank /\ b \in S /\ ref' = a BY DEF Around
<1>2. Valid(p2, a, x2, 0) /\ Entry(p2, a, x2, 0) = a BY <1>1, EntryExtent DEF Extent
<1>3. /\ a < b => Valid(p2, a, x2, 1)
      /\ b < a => Valid(p2, a, x2, -1)
  BY <1>1, RescanReaches
<1> QED BY <1>1, <1>2, <1>3

LEMMA NextKeeps == ASSUME BrowserInv, Next1 PROVE BrowserInv'
<1>1. InBrowser /\ Keep /\ CheckIndex(sel + 1) BY DEF Next1
<1>2. sel \in Int /\ offset \in Int /\ sel + 1 \in Int BY CursorIs
<1>3. CheckIndex(sel) BY <1>1, <1>2, CursorOn
<1>4. CASE Current >= Height - 1
  <2>1. ScanUpdate(Selected) /\ offset' = 0 /\ sel' = 1 BY <1>4 DEF Next1
  <2>2. Selected \in Shown /\ GetEntry(sel + 1) \in Shown BY <1>1, <1>2, <1>3, EntryShown DEF Selected
  <2>3. Around(Selected) BY <1>1, <2>1, <2>2, RescanKeeps
  <2>4. Selected < GetEntry(sel + 1)
    <3>1. sel < sel + 1 BY <1>2
    <3> QED BY <3>1, <1>1, <1>2, <1>3, Neighbours DEF Selected
  <2>5. Shown \subseteq Nat \ {0} BY ShownAre DEF BrowserInv
  <2>6. Valid(prev', ref', next', 1)
    <3> PICK a : a = Selected OBVIOUS
    <3> PICK b : b = GetEntry(sel + 1) OBVIOUS
    <3>1. Around(a) /\ a < b /\ b \in Shown BY <2>2, <2>3, <2>4
    <3> QED BY <3>1, <2>5, AroundReaches
  <2>7. AtCursor(prev', ref', next', offset', sel')
    <3>1. 0 \in -Height .. 0 /\ 1 \in 0 .. 0 + Height - 1 /\ 1 > -Height BY CursorIs
    <3> QED BY <3>1, <2>1, <2>6 DEF AtCursor
  <2> PICK a : a = Selected OBVIOUS
  <2> QED BY <2>3, <2>7, AroundKeeps
<1>5. CASE ~(Current >= Height - 1)
  <2>1. sel' = sel + 1 /\ UNCHANGED <<prev, ref, refc, next, offset>> BY <1>5 DEF Next1
  <2>2. CheckIndex(sel') BY <2>1, <1>1
  <2>3. sel' \in offset .. offset + Height - 1 /\ sel' > -Height BY <2>1, <1>5, CursorIs DEF Current
  <2> QED BY <2>1, <2>2, <2>3, <1>1, MoveKeeps
<1> QED BY <1>4, <1>5

LEMMA PrevKeeps == ASSUME BrowserInv, Prev1 PROVE BrowserInv'
<1>1. InBrowser /\ Keep /\ CheckIndex(sel - 1) BY DEF Prev1
<1>2. sel \in Int /\ offset \in Int /\ sel - 1 \in Int BY CursorIs
<1>3. CheckIndex(sel) BY <1>1, <1>2, CursorOn
<1>4. CASE Current <= 1
  <2>1. ScanUpdate(Selected) /\ offset' = -Height /\ sel' = -1 BY <1>4 DEF Prev1
  <2>2. Selected \in Shown /\ GetEntry(sel - 1) \in Shown BY <1>1, <1>2, <1>3, EntryShown DEF Selected
  <2>3. Around(Selected) BY <1>1, <2>1, <2>2, RescanKeeps
  <2>4. GetEntry(sel - 1) < Selected
    <3>1. sel - 1 < sel BY <1>2
    <3> QED BY <3>1, <1>1, <1>2, <1>3, Neighbours DEF Selected
  <2>5. Shown \subseteq Nat \ {0} BY ShownAre DEF BrowserInv
  <2>6. Valid(prev', ref', next', -1)
    <3> PICK a : a = Selected OBVIOUS
    <3> PICK b : b = GetEntry(sel - 1) OBVIOUS
    <3>1. Around(a) /\ b < a /\ b \in Shown BY <2>2, <2>3, <2>4
    <3> QED BY <3>1, <2>5, AroundReaches
  <2>7. AtCursor(prev', ref', next', offset', sel')
    <3>1. -Height \in -Height .. 0 /\ -1 \in -Height .. -Height + Height - 1 /\ -1 > -Height BY CursorIs
    <3>2. ref' # Blank BY <2>3 DEF Around
    <3> QED BY <3>1, <3>2, <2>1, <2>6 DEF AtCursor
  <2> PICK a : a = Selected OBVIOUS
  <2> QED BY <2>3, <2>7, AroundKeeps
<1>5. CASE ~(Current <= 1)
  <2>1. sel' = sel - 1 /\ UNCHANGED <<prev, ref, refc, next, offset>> BY <1>5 DEF Prev1
  <2>2. CheckIndex(sel') BY <2>1, <1>1
  <2>3. sel' \in offset .. offset + Height - 1 /\ sel' > -Height BY <2>1, <1>5, CursorIs DEF Current
  <2> QED BY <2>1, <2>2, <2>3, <1>1, MoveKeeps
<1> QED BY <1>4, <1>5

\* A page puts the cursor on the reference name.
LEMMA PageKeeps ==
    ASSUME BrowserInv, InBrowser, Keep, NEW n \in Int, CheckIndex(n), ScanUpdate(GetEntry(n)),
           sel' = 0, offset' \in Int, 1 - Height <= offset', offset' <= 0
    PROVE  BrowserInv' /\ Around(GetEntry(n))
<1>1. GetEntry(n) \in Shown BY EntryShown
<1>2. Around(GetEntry(n)) BY <1>1, RescanKeeps
<1>3. Shown \subseteq Nat \ {0} BY ShownAre DEF BrowserInv
<1> PICK a : a = GetEntry(n) OBVIOUS
<1>4. Valid(prev', ref', next', 0) BY <1>1, <1>2, <1>3, AroundReaches
<1>5. AtCursor(prev', ref', next', offset', sel')
  <2>1. offset' \in -Height .. 0 /\ 0 \in offset' .. offset' + Height - 1 /\ 0 > -Height BY CursorIs
  <2>2. ref' # Blank BY <1>2 DEF Around
  <2> QED BY <2>1, <2>2, <1>4 DEF AtCursor
<1> QED BY <1>2, <1>5, AroundKeeps

LEMMA NextPageKeeps == ASSUME BrowserInv, NextPage PROVE BrowserInv'
<1>1. InBrowser /\ Keep /\ sel' = 0 BY DEF NextPage
<1>2. PICK n \in offset .. offset + Height :
          /\ CheckIndex(n) /\ \A m \in n + 1 .. offset + Height : ~CheckIndex(m)
          /\ ScanUpdate(GetEntry(n))
          /\ offset' = IF n - offset = Height THEN -1 ELSE offset - n
  BY DEF NextPage
<1>3. n \in Int /\ n >= offset /\ n <= offset + Height BY CursorIs
<1>4. offset' \in Int /\ 1 - Height <= offset' /\ offset' <= 0 BY <1>2, <1>3, CursorIs
<1> QED BY <1>1, <1>2, <1>3, <1>4, PageKeeps

LEMMA PrevPageKeeps == ASSUME BrowserInv, PrevPage PROVE BrowserInv'
<1>1. InBrowser /\ Keep /\ sel' = 0 BY DEF PrevPage
<1>2. PICK n \in offset .. offset + Height :
          /\ CheckIndex(n) /\ \A m \in offset .. n - 1 : ~CheckIndex(m)
          /\ ScanUpdate(GetEntry(n))
          /\ offset' = IF n = offset THEN 1 - Height ELSE offset - n
  BY DEF PrevPage
<1>3. n \in Int /\ n >= offset /\ n <= offset + Height BY CursorIs
<1>4. CheckIndex(sel) BY <1>2, <1>3, CursorOn
<1>5. n <= sel
  <2>1. sel \notin offset .. n - 1 BY <1>2, <1>4
  <2> QED BY <2>1, <1>3, CursorIs
<1>6. offset' \in Int /\ 1 - Height <= offset' /\ offset' <= 0 BY <1>2, <1>3, <1>5, CursorIs
<1> QED BY <1>1, <1>2, <1>3, <1>6, PageKeeps

-----------------------------------------------------------------------------
(* The other keys, and the menu around the browser.                         *)

\* A first scan of directory d for the names S.
LEMMA FirstKeeps ==
    ASSUME Settings', NEW d \in Directory, NEW S, S \subseteq Names(d), Shown' = S, ScanFirst(d, S)
    PROVE  BrowserInv'
<1>1. /\ Top(Scan(d, S, FALSE), S, FALSE) /\ Holds(<< >>, Blank, Scan(d, S, FALSE), S)
      /\ AtCursor(<< >>, Blank, Scan(d, S, FALSE), 0, 1)
  BY FirstScanned
<1>2. /\ prev' = << >> /\ ref' = Blank /\ refc' = FALSE /\ next' = Scan(d, S, FALSE)
      /\ offset' = 0 /\ sel' = 1
  BY DEF ScanFirst
<1> QED BY <1>1, <1>2 DEF BrowserInv

LEMMA EnterDirKeeps == ASSUME BrowserInv, NEW d \in Directory, EnterDir(d) PROVE BrowserInv'
<1> DEFINE S == IF d = dir THEN filter[1] ELSE Names(d)
<1>1. Settings BY DEF BrowserInv
<1>2. S \subseteq Names(d)
  <2>1. filter \in Seq(SUBSET Names(dir)) /\ Len(filter) >= 1 BY <1>1 DEF Settings
  <2>2. 1 \in 1 .. Len(filter) BY <2>1
  <2>3. filter[1] \in SUBSET Names(dir) BY <2>1, <2>2
  <2> QED BY <2>3
<1>3. InBrowser /\ dir' = d /\ filter' = <<S>> /\ delayed' = delayed /\ ScanFirst(d, filter'[1])
  BY DEF EnterDir
<1> HIDE DEF S
<1>4. filter' \in Seq(SUBSET Names(d)) /\ Len(filter') = 1 /\ filter'[1] = S BY <1>2, <1>3
<1>5. refc' = FALSE BY <1>3 DEF ScanFirst
<1>6. Len(filter') >= 1 /\ Len(filter') <= MaxFilter + 1
  <2>1. 1 >= 1 /\ 1 <= MaxFilter + 1 BY FilterAssumption
  <2> QED BY <2>1, <1>4
<1>7. Settings' BY <1>1, <1>3, <1>4, <1>5, <1>6 DEF Settings, InBrowser
<1>8. Shown' = S BY <1>4 DEF Shown
<1> QED BY <1>2, <1>3, <1>4, <1>7, <1>8, FirstKeeps

LEMMA OpenKeeps == ASSUME BrowserInv, NEW d \in Directory, Open(d) PROVE BrowserInv'
<1>1. Settings BY DEF BrowserInv
<1>2. PICK p \in Pattern : filter' = <<Names(d) \cap p>> BY DEF Open
<1> DEFINE S == Names(d) \cap p
<1>3. S \subseteq Names(d) /\ filter' = <<S>> BY <1>2
<1>4. /\ browsing' = TRUE /\ path' = "set" /\ dir' = d /\ ScanFirst(d, filter'[1])
      /\ delayed' = delayed /\ astray' = astray
  BY DEF Open
<1> HIDE DEF S
<1>5. filter' \in Seq(SUBSET Names(d)) /\ Len(filter') = 1 /\ filter'[1] = S BY <1>3
<1>6. refc' = FALSE BY <1>4 DEF ScanFirst
<1>7. Len(filter') >= 1 /\ Len(filter') <= MaxFilter + 1
  <2>1. 1 >= 1 /\ 1 <= MaxFilter + 1 BY FilterAssumption
  <2> QED BY <2>1, <1>5
<1>8. Settings' BY <1>1, <1>4, <1>5, <1>6, <1>7 DEF Settings
<1>9. Shown' = S BY <1>5 DEF Shown
<1> QED BY <1>3, <1>4, <1>5, <1>8, <1>9, FirstKeeps

\* An empty window that a scan will fill, or that is not shown.
LEMMA EmptyKeeps ==
    ASSUME Settings', prev' = << >>, ref' = Blank, refc' = FALSE, next' = << >>,
           offset' = 0, sel' = 0, delayed' \/ ~browsing'
    PROVE  BrowserInv'
BY Emptied DEF BrowserInv

LEMMA AddFilterKeeps == ASSUME BrowserInv, AddFilterChar PROVE BrowserInv'
<1>1. Settings BY DEF BrowserInv
<1>2. /\ InBrowser /\ delayed' = TRUE /\ dir' = dir
      /\ prev' = << >> /\ ref' = Blank /\ refc' = FALSE /\ next' = << >> /\ offset' = 0 /\ sel' = 0
  BY DEF AddFilterChar, Typed
<1>3. filter \in Seq(SUBSET Names(dir)) /\ Len(filter) >= 1 /\ Len(filter) <= MaxFilter + 1
  BY <1>1 DEF Settings
<1>4. /\ filter' \in Seq(SUBSET Names(dir))
      /\ Len(filter') >= 1 /\ Len(filter') <= MaxFilter + 1
  <2>1. CASE Len(filter) <= MaxFilter
    <3>1. PICK p \in Pattern : filter' = Append(filter, Shown \cap p) BY <2>1 DEF AddFilterChar
    <3>2. Shown \cap p \in SUBSET Names(dir) BY <1>1, ShownAre
    <3> PICK y : y = Shown \cap p OBVIOUS
    <3>3. y \in SUBSET Names(dir) /\ filter' = Append(filter, y) BY <3>1, <3>2
    <3>4. Append(filter, y) \in Seq(SUBSET Names(dir)) /\ Len(Append(filter, y)) = Len(filter) + 1
      BY <1>3, <3>3
    <3>5. Len(filter) + 1 >= 1 /\ Len(filter) + 1 <= MaxFilter + 1 BY <1>3, <2>1, FilterAssumption
    <3> QED BY <3>3, <3>4, <3>5
  <2>2. CASE ~(Len(filter) <= MaxFilter)
    <3>1. filter' = filter BY <2>2 DEF AddFilterChar
    <3> QED BY <3>1, <1>3
  <2> QED BY <2>1, <2>2
<1>5. Settings' BY <1>1, <1>2, <1>4 DEF Settings, InBrowser
<1> QED BY <1>2, <1>5, EmptyKeeps

LEMMA DelFilterKeeps == ASSUME BrowserInv, DelFilterChar PROVE BrowserInv'
<1>1. Settings BY DEF BrowserInv
<1>2. /\ InBrowser /\ delayed' = TRUE /\ dir' = dir
      /\ prev' = << >> /\ ref' = Blank /\ refc' = FALSE /\ next' = << >> /\ offset' = 0 /\ sel' = 0
  BY DEF DelFilterChar, Typed
<1>3. filter \in Seq(SUBSET Names(dir)) /\ Len(filter) >= 1 /\ Len(filter) <= MaxFilter + 1
  BY <1>1 DEF Settings
<1>4. /\ filter' \in Seq(SUBSET Names(dir))
      /\ Len(filter') >= 1 /\ Len(filter') <= MaxFilter + 1
  <2>1. CASE Len(filter) > 1
    <3>1. filter' = Front(filter) BY <2>1 DEF DelFilterChar
    <3>2. Front(filter) \in Seq(SUBSET Names(dir)) /\ Len(Front(filter)) = Len(filter) - 1
      BY <1>3, FrontIs
    <3>3. Len(filter) - 1 >= 1 /\ Len(filter) - 1 <= MaxFilter + 1 BY <1>3, <2>1, FilterAssumption
    <3> QED BY <3>1, <3>2, <3>3
  <2>2. CASE ~(Len(filter) > 1)
    <3>1. filter' = filter BY <2>2 DEF DelFilterChar
    <3> QED BY <3>1, <1>3
  <2> QED BY <2>1, <2>2
<1>5. Settings' BY <1>1, <1>2, <1>4 DEF Settings, InBrowser
<1> QED BY <1>2, <1>5, EmptyKeeps

LEMMA CloseKeeps == ASSUME BrowserInv, Close PROVE BrowserInv'
<1>1. browsing' = FALSE /\ UNCHANGED <<path, dir, filter, window, delayed, astray>> BY DEF Close
<1>2. UNCHANGED <<prev, ref, refc, next, offset, sel>> BY <1>1 DEF window
<1>3. Settings' BY <1>1, <1>2 DEF BrowserInv, Settings
<1>4. Shown' = Shown BY <1>1 DEF Shown
<1> QED BY <1>1, <1>2, <1>3, <1>4 DEF BrowserInv

LEMMA ReloadKeeps == ASSUME BrowserInv, Reload PROVE BrowserInv'
<1>1. /\ browsing' = FALSE /\ path' \in {"none", "unset"} /\ UNCHANGED <<dir, filter, delayed, astray>>
      /\ prev' = << >> /\ ref' = Blank /\ refc' = FALSE /\ next' = << >> /\ offset' = 0 /\ sel' = 0
  BY DEF Reload
<1>2. Settings' BY <1>1 DEF BrowserInv, Settings
<1> QED BY <1>1, <1>2, EmptyKeeps

LEMMA DelayedScanKeeps == ASSUME BrowserInv, DelayedScan PROVE BrowserInv'
<1>1. Settings BY DEF BrowserInv
<1>2. delayed' = FALSE /\ UNCHANGED <<path, browsing, dir, filter>> BY DEF DelayedScan
<1>3. Shown' = Shown BY <1>2 DEF Shown
<1>4. CASE path = "set"
  <2>1. ScanFirst(dir, Shown) /\ astray' = astray BY <1>4 DEF DelayedScan
  <2>2. refc' = FALSE BY <2>1 DEF ScanFirst
  <2>3. Settings' BY <1>1, <1>2, <2>1, <2>2 DEF Settings
  <2> PICK d : d = dir OBVIOUS
  <2> PICK S : S = Shown OBVIOUS
  <2>4. d \in Directory /\ S \subseteq Names(d) BY <1>1, ShownAre
  <2> QED BY <1>3, <2>1, <2>3, <2>4, FirstKeeps
<1>5. CASE path # "set"
  <2>1. astray' = TRUE /\ UNCHANGED window BY <1>5 DEF DelayedScan
  <2>2. UNCHANGED <<prev, ref, refc, next, offset, sel>> BY <2>1 DEF window
  <2>3. Settings' BY <1>1, <1>2, <2>1, <2>2 DEF Settings
  <2>4. ~browsing' BY <1>1, <1>2, <1>5 DEF Settings
  <2> QED BY <1>3, <2>2, <2>3, <2>4 DEF BrowserInv
<1> QED BY <1>4, <1>5

LEMMA BrowserStep == ASSUME BrowserInv, [SelNext]_selVars PROVE BrowserInv'
<1>1. CASE UNCHANGED selVars
  <2>1. UNCHANGED <<path, browsing, dir, filter, delayed, astray, prev, ref, refc, next, offset, sel>>
    BY <1>1 DEF selVars, window
  <2>2. Settings' BY <2>1 DEF BrowserInv, Settings
  <2>3. Shown' = Shown BY <2>1 DEF Shown
  <2> QED BY <2>1, <2>2, <2>3 DEF BrowserInv
<1> QED BY <1>1, NextKeeps, PrevKeeps, NextPageKeeps, PrevPageKeeps, EnterDirKeeps, OpenKeeps,
           AddFilterKeeps, DelFilterKeeps, CloseKeeps, ReloadKeeps, DelayedScanKeeps DEF SelNext

-----------------------------------------------------------------------------
(* What follows from it.                                                    *)

LEMMA BrowserTyped == ASSUME BrowserInv PROVE SelTypeOK
<1>1. Settings BY DEF BrowserInv
<1>2. Len(prev) <= Height /\ Len(next) <= Height
  <2> PICK p, r, x, S : p = prev /\ r = ref /\ x = next /\ S = Shown OBVIOUS
  <2>1. Holds(p, r, x, S) /\ S \subseteq Nat \ {0} BY ShownAre DEF BrowserInv
  <2>2. Halved(p, r, x, S) BY <2>1, Halves
  <2>3. Len(p) \in Nat /\ Len(x) \in Nat /\ Height \in Nat BY <2>2, HeightAssumption DEF Halved
  <2>4. Extent(p, r, x) BY <2>1, EntryExtent
  <2>5. Len(p) <= Height
    <3>1. CASE Len(p) = 0 BY <3>1, <2>3
    <3>2. CASE Len(p) # 0
      <4>1. Valid(p, r, x, -Len(p)) /\ -Len(p) \in Int BY <3>2, <2>3 DEF Valid
      <4>2. -Height <= -Len(p) BY <4>1, <2>4 DEF Extent
      <4> QED BY <4>2, <2>3
    <3> QED BY <3>1, <3>2
  <2>6. Len(x) <= Height
    <3>1. CASE Len(x) = 0 BY <3>1, <2>3
    <3>2. CASE Len(x) # 0
      <4>1. Valid(p, r, x, Len(x)) /\ Len(x) \in Int BY <3>2, <2>3 DEF Valid
      <4> QED BY <4>1, <2>4 DEF Extent
    <3> QED BY <3>1, <3>2
  <2> QED BY <2>5, <2>6
<1>3. offset \in -Height .. 0 /\ sel \in -Height .. Height BY CursorIs
<1>4. Len(filter) \in 1 .. MaxFilter + 1 /\ dir \in Directory
  <2>1. filter \in Seq(SUBSET Names(dir)) /\ Len(filter) >= 1 /\ Len(filter) <= MaxFilter + 1
    BY <1>1 DEF Settings
  <2>2. Len(filter) \in Nat BY <2>1
  <2> QED BY <2>1, <2>2, <1>1, FilterAssumption DEF Settings
<1> QED BY <1>1, <1>2, <1>3, <1>4 DEF SelTypeOK, Settings

LEMMA WindowIsComplete == ASSUME BrowserInv PROVE WindowComplete
<1> DEFINE kept == {GetEntry(n) : n \in -Len(prev) .. Len(next)} \ {Blank}
<1> PICK p, r, x, S : p = prev /\ r = ref /\ x = next /\ S = Shown OBVIOUS
<1>1. /\ Window(p, r, x, S)
      /\ \A n : CheckIndex(n) <=> Valid(p, r, x, n)
      /\ \A n : GetEntry(n) = Entry(p, r, x, n)
  BY BrowserWindow
<1>2. /\ S \subseteq Nat \ {0} /\ Within(p, r, x, S) /\ Sorted(p, r, x) /\ Dense(p, r, x, S)
      /\ Extent(p, r, x) /\ Holds(p, r, x, S)
  BY <1>1 DEF Window
<1>3. Len(p) \in Nat /\ Len(x) \in Nat
  <2>1. Halved(p, r, x, S) BY <1>2, Halves
  <2> QED BY <2>1 DEF Halved
<1>4. \A n \in Int : Valid(p, r, x, n) => n \in -Len(p) .. Len(x) BY <1>3 DEF Valid
<1>5. \A n \in -Len(p) .. Len(x) : n \in Int /\ (Entry(p, r, x, n) # Blank => Valid(p, r, x, n))
  BY <1>3 DEF Entry
<1>6. kept = {Entry(p, r, x, n) : n \in -Len(p) .. Len(x)} \ {Blank} BY <1>1
<1> HIDE DEF kept
<1>7. \A y \in kept : \E n \in Int : Valid(p, r, x, n) /\ Entry(p, r, x, n) = y BY <1>5, <1>6
<1>8. \A n \in Int : Valid(p, r, x, n) => Entry(p, r, x, n) \in kept
  <2> SUFFICES ASSUME NEW n \in Int, Valid(p, r, x, n) PROVE Entry(p, r, x, n) \in kept OBVIOUS
  <2>1. Entry(p, r, x, n) \in S BY <1>2 DEF Within
  <2>2. Entry(p, r, x, n) # Blank BY <2>1, <1>2 DEF Blank
  <2> QED BY <2>2, <1>4, <1>6
<1>9. kept \subseteq S BY <1>7, <1>2 DEF Within
<1>10. ASSUME NEW a \in kept, NEW b \in kept, NEW n \in S, a < n, n < b PROVE n \in kept
  <2>1. PICK q \in Int : Valid(p, r, x, q) /\ Entry(p, r, x, q) = a BY <1>7
  <2>2. PICK j \in Int : Valid(p, r, x, j) /\ Entry(p, r, x, j) = b BY <1>7
  <2>3. \E m \in Int : q < m /\ m < j /\ Valid(p, r, x, m) /\ Entry(p, r, x, m) = n
    BY <2>1, <2>2, <1>2, <1>10 DEF Dense
  <2> QED BY <2>3, <1>8
<1>11. ASSUME NEW m \in -Len(p) .. Len(x), NEW n \in -Len(p) .. Len(x),
              m < n, Entry(p, r, x, m) # Blank
       PROVE  Entry(p, r, x, m) < Entry(p, r, x, n)
  <2>1. m \in Int /\ n \in Int /\ Valid(p, r, x, m) BY <1>5, <1>11
  <2>2. r = Blank => m > 0 BY <2>1, <1>2 DEF Extent
  <2>3. n # 0 \/ r # Blank BY <2>1, <2>2, <1>11
  <2>4. Valid(p, r, x, n) BY <2>1, <2>3, <1>3 DEF Valid
  <2> QED BY <2>1, <2>4, <1>2, <1>11 DEF Sorted
<1>12. \A m, n \in -Len(p) .. Len(x) :
           m < n /\ GetEntry(m) # Blank => GetEntry(m) < GetEntry(n)
  BY <1>1, <1>11
<1> QED BY <1>9, <1>10, <1>12 DEF WindowComplete, kept

\* While the browser is open and no scan is still to come, an empty window means
\* that no name is let through.
LEMMA CursorThere ==
    ASSUME BrowserInv, browsing, Shown # {}, ~delayed
    PROVE  CheckIndex(sel)
<1> SUFFICES ASSUME ref = Blank, next = << >> PROVE FALSE BY CursorIs
<1>1. Top(next, Shown, FALSE) BY DEF BrowserInv
<1>2. Len(next) = 0 /\ 1 .. 0 = {} /\ Height # 0 BY HeightAssumption
<1> QED BY <1>1, <1>2 DEF Top

LEMMA CursorIsOnName == ASSUME BrowserInv PROVE CursorOnName
<1> SUFFICES ASSUME browsing, Shown # {}, ~delayed
             PROVE  Selected \in Shown /\ Current \in 0 .. Height - 1
  BY DEF CursorOnName
<1>1. CheckIndex(sel) BY CursorThere
<1>2. Selected \in Shown BY <1>1, CursorIs, EntryShown DEF Selected
<1>3. Current \in 0 .. Height - 1 BY CursorIs DEF Current
<1> QED BY <1>2, <1>3

LEMMA EndsAre == ASSUME BrowserInv PROVE EndsAreEnds
<1> SUFFICES ASSUME browsing, Shown # {}, ~delayed
             PROVE  /\ CheckIndex(sel + 1) \/ \A n \in Shown : n <= Selected
                    /\ CheckIndex(sel - 1) \/ \A n \in Shown : n >= Selected
  BY DEF EndsAreEnds
<1> PICK p, r, x, S : p = prev /\ r = ref /\ x = next /\ S = Shown OBVIOUS
<1> PICK s : s = sel OBVIOUS
<1>1. s \in Int /\ Valid(p, r, x, s) /\ s < Height /\ -Height < s
  BY CursorThere, CursorIs, BrowserWindow
<1>2. S \subseteq Nat \ {0} /\ Holds(p, r, x, S) BY BrowserWindow DEF Window
<1>3. ASSUME NEW a \in S
      PROVE  /\ ~Valid(p, r, x, s + 1) => a <= Entry(p, r, x, s)
             /\ ~Valid(p, r, x, s - 1) => a >= Entry(p, r, x, s)
  BY <1>1, <1>2, NothingBehind
<1>4. Selected = Entry(p, r, x, s) BY BrowserWindow DEF Selected
<1>5. /\ CheckIndex(sel + 1) <=> Valid(p, r, x, s + 1)
      /\ CheckIndex(sel - 1) <=> Valid(p, r, x, s - 1)
  BY BrowserWindow
<1> QED BY <1>3, <1>4, <1>5

-----------------------------------------------------------------------------
(* From one window to the next.                                             *)

\* What a window (p, r, x) shows from its line o on.
Visible(p, r, x, o) == {Entry(p, r, x, o + k) : k \in 0 .. Height - 1} \ {Blank}

LEMMA VisibleIs ==
    ASSUME NEW p, NEW r, NEW x, NEW S, Window(p, r, x, S), NEW o \in Int
    PROVE  /\ \A y \in Visible(p, r, x, o) : \E n \in Int :
                  o <= n /\ n < o + Height /\ Valid(p, r, x, n) /\ Entry(p, r, x, n) = y
           /\ \A n \in Int : o <= n /\ n < o + Height /\ Valid(p, r, x, n) =>
                  Entry(p, r, x, n) \in Visible(p, r, x, o)
<1>0. Height \in Nat BY HeightAssumption
<1>1. ASSUME NEW y \in Visible(p, r, x, o)
      PROVE  \E n \in Int : o <= n /\ n < o + Height /\ Valid(p, r, x, n) /\ Entry(p, r, x, n) = y
  <2>1. PICK k \in 0 .. Height - 1 : Entry(p, r, x, o + k) = y /\ y # Blank BY DEF Visible
  <2>2. Valid(p, r, x, o + k) BY <2>1 DEF Entry
  <2>3. o + k \in Int /\ o <= o + k /\ o + k < o + Height BY <1>0
  <2> QED BY <2>1, <2>2, <2>3
<1>2. ASSUME NEW n \in Int, o <= n, n < o + Height, Valid(p, r, x, n)
      PROVE  Entry(p, r, x, n) \in Visible(p, r, x, o)
  <2>1. Entry(p, r, x, n) \in S /\ S \subseteq Nat \ {0} BY <1>2 DEF Window, Within
  <2>2. Entry(p, r, x, n) # Blank BY <2>1 DEF Blank
  <2>3. n - o \in 0 .. Height - 1 /\ o + (n - o) = n BY <1>0, <1>2
  <2> QED BY <2>2, <2>3 DEF Visible
<1> QED BY <1>1, <1>2

\* No name is missing between two of L.
Stretch(L, S) == L \subseteq S /\ \A a, b \in L, n \in S : a < n /\ n < b => n \in L

LEMMA VisibleStretch ==
    ASSUME NEW p, NEW r, NEW x, NEW S, Window(p, r, x, S), NEW o \in Int
    PROVE  Stretch(Visible(p, r, x, o), S)
<1> DEFINE L == Visible(p, r, x, o)
<1>1. \A y \in L : \E n \in Int :
          o <= n /\ n < o + Height /\ Valid(p, r, x, n) /\ Entry(p, r, x, n) = y
  BY VisibleIs
<1>2. \A n \in Int : o <= n /\ n < o + Height /\ Valid(p, r, x, n) => Entry(p, r, x, n) \in L
  BY VisibleIs
<1> HIDE DEF L
<1>3. L \subseteq S BY <1>1 DEF Window, Within
<1>4. ASSUME NEW a \in L, NEW b \in L, NEW n \in S, a < n, n < b PROVE n \in L
  <2>1. PICK q \in Int : o <= q /\ q < o + Height /\ Valid(p, r, x, q) /\ Entry(p, r, x, q) = a BY <1>1
  <2>2. PICK j \in Int : o <= j /\ j < o + Height /\ Valid(p, r, x, j) /\ Entry(p, r, x, j) = b BY <1>1
  <2>3. PICK m \in Int : q < m /\ m < j /\ Valid(p, r, x, m) /\ Entry(p, r, x, m) = n
    BY <2>1, <2>2, <1>4 DEF Window, Dense
  <2>4. o <= m /\ m < o + Height BY <2>1, <2>2, <2>3, HeightAssumption
  <2> QED BY <2>3, <2>4, <1>2
<1> QED BY <1>3, <1>4 DEF Stretch, L

\* Two stretches with a name in common are one.
LEMMA StretchesJoin ==
    ASSUME NEW S, S \subseteq Nat, NEW L, NEW M, Stretch(L, S), Stretch(M, S), NEW c, c \in L, c \in M
    PROVE  Stretch(L \cup M, S)
<1>1. L \subseteq S /\ M \subseteq S BY DEF Stretch
<1>2. ASSUME NEW a \in L \cup M, NEW b \in L \cup M, NEW n \in S, a < n, n < b PROVE n \in L \cup M
  <2>1. n \in Nat /\ c \in Nat /\ a \in Nat /\ b \in Nat BY <1>1
  <2>2. n < c \/ n = c \/ c < n BY <2>1
  <2>3. CASE n < c BY <1>2, <2>3 DEF Stretch
  <2>4. CASE c < n BY <1>2, <2>4 DEF Stretch
  <2> QED BY <2>2, <2>3, <2>4
<1> QED BY <1>1, <1>2 DEF Stretch

\* In a window nothing is between two neighbours.
LEMMA NothingBetween ==
    ASSUME NEW p, NEW r, NEW x, NEW S, Window(p, r, x, S), NEW q \in Int,
           Valid(p, r, x, q), Valid(p, r, x, q + 1)
    PROVE  /\ Entry(p, r, x, q) < Entry(p, r, x, q + 1)
           /\ \A n \in S : ~(Entry(p, r, x, q) < n /\ n < Entry(p, r, x, q + 1))
<1>1. q + 1 \in Int /\ q < q + 1 OBVIOUS
<1>2. Entry(p, r, x, q) < Entry(p, r, x, q + 1) BY <1>1 DEF Window, Sorted
<1>3. ASSUME NEW n \in S, Entry(p, r, x, q) < n, n < Entry(p, r, x, q + 1) PROVE FALSE
  <2>1. PICK m \in Int : q < m /\ m < q + 1 BY <1>1, <1>3 DEF Window, Dense
  <2> QED BY <2>1
<1> QED BY <1>2, <1>3

\* A name and its neighbour are found again as neighbours.
LEMMA NeighbourAgain ==
    ASSUME NEW p, NEW r, NEW x, NEW S, Window(p, r, x, S), NEW n \in Int,
           Valid(p, r, x, n), Valid(p, r, x, n - 1),
           NEW p2, NEW r2, NEW x2, Window(p2, r2, x2, S),
           Valid(p2, r2, x2, 0), Valid(p2, r2, x2, -1),
           Entry(p2, r2, x2, 0) = Entry(p, r, x, n)
    PROVE  Entry(p2, r2, x2, -1) = Entry(p, r, x, n - 1)
<1>1. n - 1 \in Int /\ (n - 1) + 1 = n /\ -1 \in Int /\ (-1) + 1 = 0 OBVIOUS
<1>2. /\ Entry(p, r, x, n - 1) < Entry(p, r, x, n)
      /\ \A m \in S : ~(Entry(p, r, x, n - 1) < m /\ m < Entry(p, r, x, n))
  <2> PICK q \in Int : q = n - 1 BY <1>1
  <2>1. q + 1 = n BY <1>1
  <2>2. /\ Entry(p, r, x, q) < Entry(p, r, x, q + 1)
        /\ \A m \in S : ~(Entry(p, r, x, q) < m /\ m < Entry(p, r, x, q + 1))
    BY <2>1, NothingBetween
  <2> QED BY <2>1, <2>2
<1>3. /\ Entry(p2, r2, x2, -1) < Entry(p2, r2, x2, 0)
      /\ \A m \in S : ~(Entry(p2, r2, x2, -1) < m /\ m < Entry(p2, r2, x2, 0))
  <2> PICK q \in Int : q = -1 OBVIOUS
  <2>1. q + 1 = 0 OBVIOUS
  <2>2. /\ Entry(p2, r2, x2, q) < Entry(p2, r2, x2, q + 1)
        /\ \A m \in S : ~(Entry(p2, r2, x2, q) < m /\ m < Entry(p2, r2, x2, q + 1))
    BY <2>1, NothingBetween
  <2> QED BY <2>1, <2>2
<1>4. /\ Entry(p, r, x, n - 1) \in S /\ Entry(p2, r2, x2, -1) \in S /\ Entry(p, r, x, n) \in S
      /\ S \subseteq Nat
  BY <1>1 DEF Window, Within
<1>5. Entry(p, r, x, n - 1) \in Nat /\ Entry(p2, r2, x2, -1) \in Nat BY <1>4
<1> QED BY <1>2, <1>3, <1>4, <1>5

LEMMA LinesAre ==
    ASSUME BrowserInv
    PROVE  Lines = Visible(prev, ref, next, offset)
BY BrowserWindow DEF Lines, Visible

LEMMA LinesAfter ==
    ASSUME BrowserInv'
    PROVE  Lines' = Visible(prev', ref', next', offset')
<1>1. \A n : GetEntry(n)' = Entry(prev', ref', next', n)
  BY DEF BrowserInv, CheckIndex, GetEntry, Valid, Entry
<1> QED BY <1>1 DEF Lines, Visible

\* UP and DOWN, within the window and over a rescan.
LEMMA StepNext ==
    ASSUME BrowserInv, BrowserInv', Next1
    PROVE  /\ Selected < Selected'
           /\ ~\E n \in Shown : Selected < n /\ n < Selected'
<1>1. InBrowser /\ Keep /\ CheckIndex(sel + 1) BY DEF Next1
<1>2. sel \in Int /\ offset \in Int /\ sel + 1 \in Int BY CursorIs
<1>3. CheckIndex(sel) BY <1>1, <1>2, CursorOn
<1> PICK p, r, x, S : p = prev /\ r = ref /\ x = next /\ S = Shown OBVIOUS
<1> PICK q : q = sel OBVIOUS
<1>4. /\ Window(p, r, x, S) /\ q \in Int /\ Valid(p, r, x, q) /\ Valid(p, r, x, q + 1)
      /\ Selected = Entry(p, r, x, q) /\ GetEntry(sel + 1) = Entry(p, r, x, q + 1)
  BY <1>1, <1>2, <1>3, BrowserWindow DEF Selected
<1>5. CASE Current >= Height - 1
  <2>1. ScanUpdate(Selected) /\ sel' = 1 BY <1>5 DEF Next1
  <2>2. Selected \in Shown /\ GetEntry(sel + 1) \in Shown BY <1>1, <1>2, <1>3, EntryShown DEF Selected
  <2>3. Around(Selected) BY <1>1, <2>1, <2>2, RescanKeeps
  <2>4. Selected < GetEntry(sel + 1)
    <3>1. sel < sel + 1 BY <1>2
    <3> QED BY <3>1, <1>1, <1>2, <1>3, Neighbours DEF Selected
  <2>5. Shown \subseteq Nat \ {0} BY ShownAre DEF BrowserInv
  <2> PICK a : a = Selected OBVIOUS
  <2> PICK b : b = GetEntry(sel + 1) OBVIOUS
  <2> PICK p2, x2 : p2 = prev' /\ x2 = next' OBVIOUS
  <2>6. /\ Valid(p2, a, x2, 0) /\ Entry(p2, a, x2, 0) = a /\ Valid(p2, a, x2, 1)
        /\ Holds(p2, a, x2, S) /\ ref' = a
    <3>1. Around(a) /\ a < b /\ b \in Shown BY <2>2, <2>3, <2>4
    <3> QED BY <3>1, <2>5, AroundReaches DEF Around
  <2>7. Window(p2, a, x2, S) BY <2>5, <2>6, WindowHolds
  <2>8. /\ a < Entry(p2, a, x2, 1)
        /\ \A n \in S : ~(a < n /\ n < Entry(p2, a, x2, 1))
    <3> PICK k \in Int : k = 0 OBVIOUS
    <3>1. k + 1 = 1 OBVIOUS
    <3>2. /\ Entry(p2, a, x2, k) < Entry(p2, a, x2, k + 1)
          /\ \A n \in S : ~(Entry(p2, a, x2, k) < n /\ n < Entry(p2, a, x2, k + 1))
      BY <3>1, <2>6, <2>7, NothingBetween
    <3> QED BY <3>1, <3>2, <2>6
  <2>9. Selected' = Entry(p2, a, x2, 1)
    <3>1. refc' BY <2>3 DEF Around
    <3> QED BY <2>1, <2>6, <3>1 DEF Selected, GetEntry, CheckIndex, Entry, Valid, Around
  <2> QED BY <2>8, <2>9
<1>6. CASE ~(Current >= Height - 1)
  <2>1. sel' = q + 1 /\ UNCHANGED <<prev, ref, refc, next, offset>> BY <1>6 DEF Next1
  <2>2. Selected' = Entry(p, r, x, q + 1)
    <3>1. Selected' = GetEntry(sel + 1) BY <2>1 DEF Selected, GetEntry, CheckIndex
    <3> QED BY <3>1, <1>4
  <2> QED BY <2>2, <1>4, NothingBetween
<1> QED BY <1>5, <1>6

LEMMA StepPrev ==
    ASSUME BrowserInv, BrowserInv', Prev1
    PROVE  /\ Selected' < Selected
           /\ ~\E n \in Shown : Selected' < n /\ n < Selected
<1>1. InBrowser /\ Keep /\ CheckIndex(sel - 1) BY DEF Prev1
<1>2. sel \in Int /\ offset \in Int /\ sel - 1 \in Int BY CursorIs
<1>3. CheckIndex(sel) BY <1>1, <1>2, CursorOn
<1> PICK p, r, x, S : p = prev /\ r = ref /\ x = next /\ S = Shown OBVIOUS
<1> PICK q : q = sel - 1 OBVIOUS
<1>0. q \in Int /\ q + 1 = sel BY <1>2
<1>4. /\ Window(p, r, x, S) /\ q \in Int /\ Valid(p, r, x, q) /\ Valid(p, r, x, q + 1)
      /\ Selected = Entry(p, r, x, q + 1) /\ GetEntry(sel - 1) = Entry(p, r, x, q)
  BY <1>0, <1>1, <1>3, BrowserWindow DEF Selected
<1>5. CASE Current <= 1
  <2>1. ScanUpdate(Selected) /\ sel' = -1 BY <1>5 DEF Prev1
  <2>2. Selected \in Shown /\ GetEntry(sel - 1) \in Shown BY <1>1, <1>2, <1>3, EntryShown DEF Selected
  <2>3. Around(Selected) BY <1>1, <2>1, <2>2, RescanKeeps
  <2>4. GetEntry(sel - 1) < Selected
    <3>1. sel - 1 < sel BY <1>2
    <3> QED BY <3>1, <1>1, <1>2, <1>3, Neighbours DEF Selected
  <2>5. Shown \subseteq Nat \ {0} BY ShownAre DEF BrowserInv
  <2> PICK a : a = Selected OBVIOUS
  <2> PICK b : b = GetEntry(sel - 1) OBVIOUS
  <2> PICK p2, x2 : p2 = prev' /\ x2 = next' OBVIOUS
  <2>6. /\ Valid(p2, a, x2, 0) /\ Entry(p2, a, x2, 0) = a /\ Valid(p2, a, x2, -1)
        /\ Holds(p2, a, x2, S) /\ ref' = a
    <3>1. Around(a) /\ b < a /\ b \in Shown BY <2>2, <2>3, <2>4
    <3> QED BY <3>1, <2>5, AroundReaches DEF Around
  <2>7. Window(p2, a, x2, S) BY <2>5, <2>6, WindowHolds
  <2>8. /\ Entry(p2, a, x2, -1) < a
        /\ \A n \in S : ~(Entry(p2, a, x2, -1) < n /\ n < a)
    <3> PICK k \in Int : k = -1 OBVIOUS
    <3>1. k + 1 = 0 OBVIOUS
    <3>2. /\ Entry(p2, a, x2, k) < Entry(p2, a, x2, k + 1)
          /\ \A n \in S : ~(Entry(p2, a, x2, k) < n /\ n < Entry(p2, a, x2, k + 1))
      BY <3>1, <2>6, <2>7, NothingBetween
    <3> QED BY <3>1, <3>2, <2>6
  <2>9. Selected' = Entry(p2, a, x2, -1)
    <3>1. refc' BY <2>3 DEF Around
    <3> QED BY <2>1, <2>6, <3>1 DEF Selected, GetEntry, CheckIndex, Entry, Valid, Around
  <2> QED BY <2>8, <2>9
<1>6. CASE ~(Current <= 1)
  <2>1. sel' = q /\ UNCHANGED <<prev, ref, refc, next, offset>> BY <1>6 DEF Prev1
  <2>2. Selected' = Entry(p, r, x, q)
    <3>1. Selected' = GetEntry(sel - 1) BY <2>1 DEF Selected, GetEntry, CheckIndex
    <3> QED BY <3>1, <1>4
  <2> QED BY <2>2, <1>4, NothingBetween
<1> QED BY <1>5, <1>6

\* A page shows a name that was visible, or the one before it.
LEMMA PageJoins ==
    ASSUME BrowserInv, BrowserInv', Shown' = Shown, NEW c, c \in Lines, c \in Lines'
    PROVE  \A a, b \in Lines \cup Lines', n \in Shown : a < n /\ n < b => n \in Lines \cup Lines'
<1> PICK p, r, x, S, o : p = prev /\ r = ref /\ x = next /\ S = Shown /\ o = offset OBVIOUS
<1> PICK p2, r2, x2, o2 : p2 = prev' /\ r2 = ref' /\ x2 = next' /\ o2 = offset' OBVIOUS
<1>1. Window(p, r, x, S) /\ o \in Int /\ S \subseteq Nat \ {0} BY BrowserWindow, CursorIs DEF Window
<1>2. Holds(p2, r2, x2, S) /\ o2 \in Int BY HeightAssumption DEF BrowserInv, AtCursor
<1>3. Window(p2, r2, x2, S) BY <1>1, <1>2, WindowHolds
<1>4. Lines = Visible(p, r, x, o) /\ Lines' = Visible(p2, r2, x2, o2) BY LinesAre, LinesAfter
<1> PICK L : L = Lines OBVIOUS
<1> PICK M : M = Lines' OBVIOUS
<1>5. Stretch(L, S) /\ Stretch(M, S) BY <1>1, <1>2, <1>3, <1>4, VisibleStretch
<1>6. c \in L /\ c \in M /\ S \subseteq Nat BY <1>1
<1>7. Stretch(L \cup M, S) BY <1>5, <1>6, StretchesJoin
<1> QED BY <1>7 DEF Stretch

\* The reference name of the new window is visible in both.
LEMMA PageMeets ==
    ASSUME BrowserInv, BrowserInv', NEW n \in Int, CheckIndex(n), offset <= n, n < offset + Height,
           Around(GetEntry(n)), offset' \in Int, 1 - Height <= offset', offset' <= 0
    PROVE  GetEntry(n) \in Lines /\ GetEntry(n) \in Lines'
<1> PICK p, r, x, S, o : p = prev /\ r = ref /\ x = next /\ S = Shown /\ o = offset OBVIOUS
<1> PICK p2, r2, x2, o2 : p2 = prev' /\ r2 = ref' /\ x2 = next' /\ o2 = offset' OBVIOUS
<1>1. Window(p, r, x, S) /\ o \in Int /\ S \subseteq Nat \ {0} BY BrowserWindow, CursorIs DEF Window
<1>2. Valid(p, r, x, n) /\ GetEntry(n) = Entry(p, r, x, n) BY BrowserWindow
<1>3. Lines = Visible(p, r, x, o) /\ Lines' = Visible(p2, r2, x2, o2) BY LinesAre, LinesAfter
<1>4. GetEntry(n) \in Lines BY <1>1, <1>2, <1>3, VisibleIs
<1>5. Holds(p2, r2, x2, S) /\ r2 = GetEntry(n) /\ r2 # Blank BY DEF Around
<1>6. Window(p2, r2, x2, S) BY <1>1, <1>5, WindowHolds
<1>7. Valid(p2, r2, x2, 0) /\ Entry(p2, r2, x2, 0) = r2 BY <1>5, <1>6 DEF Window, Extent
<1>8. 0 \in Int /\ o2 <= 0 /\ 0 < o2 + Height
  <2>1. o2 \in Int /\ 1 - Height <= o2 /\ o2 <= 0 OBVIOUS
  <2>2. \A k, h \in Int : 1 - h <= k => 0 < k + h OBVIOUS
  <2>3. Height \in Int BY HeightAssumption
  <2>4. 0 < o2 + Height BY <2>1, <2>2, <2>3
  <2> QED BY <2>1, <2>4
<1>9. Entry(p2, r2, x2, 0) \in Visible(p2, r2, x2, o2) BY <1>6, <1>7, <1>8, VisibleIs
<1> QED BY <1>3, <1>4, <1>5, <1>7, <1>9

LEMMA StepNextPage ==
    ASSUME BrowserInv, BrowserInv', NextPage
    PROVE  \A a, b \in Lines \cup Lines', n \in Shown : a < n /\ n < b => n \in Lines \cup Lines'
<1>1. InBrowser /\ Keep /\ sel' = 0 BY DEF NextPage
<1>2. PICK n \in offset .. offset + Height :
          /\ CheckIndex(n) /\ \A m \in n + 1 .. offset + Height : ~CheckIndex(m)
          /\ ScanUpdate(GetEntry(n))
          /\ offset' = IF n - offset = Height THEN -1 ELSE offset - n
  BY DEF NextPage
<1>3. n \in Int /\ n >= offset /\ n <= offset + Height BY CursorIs
<1>4. offset' \in Int /\ 1 - Height <= offset' /\ offset' <= 0 BY <1>2, <1>3, CursorIs
<1>5. GetEntry(n) \in Shown BY <1>2, <1>3, EntryShown
<1>6. Around(GetEntry(n)) BY <1>1, <1>2, <1>5, RescanKeeps
<1>7. Shown' = Shown BY <1>6 DEF Around
<1>8. CASE n < offset + Height
  <2>1. GetEntry(n) \in Lines /\ GetEntry(n) \in Lines' BY <1>2, <1>3, <1>4, <1>6, <1>8, PageMeets
  <2> PICK c : c = GetEntry(n) OBVIOUS
  <2>2. c \in Lines /\ c \in Lines' BY <2>1
  <2> QED BY <2>2, <1>7, PageJoins
\* The page begins with the last line, and the line before it is in both.
<1>9. CASE n = offset + Height
  <2> PICK p, r, x, S, o : p = prev /\ r = ref /\ x = next /\ S = Shown /\ o = offset OBVIOUS
  <2> PICK p2, r2, x2, o2 : p2 = prev' /\ r2 = ref' /\ x2 = next' /\ o2 = offset' OBVIOUS
  <2>1. /\ Window(p, r, x, S) /\ o \in Int /\ Valid(p, r, x, n) /\ GetEntry(n) = Entry(p, r, x, n)
        /\ S \subseteq Nat \ {0}
    BY <1>2, BrowserWindow, CursorIs DEF Window
  <2>2. CheckIndex(sel) /\ sel \in Int /\ sel <= n - 1 /\ n - 1 \in Int /\ n - 1 <= n
    BY <1>2, <1>3, <1>9, CursorOn, CursorIs
  <2>3. Valid(p, r, x, sel) BY <2>2, BrowserWindow
  <2>4. Valid(p, r, x, n - 1) BY <2>1, <2>2, <2>3, <1>3 DEF Window, Extent
  <2>5. o2 = -1
    <3>1. n - offset = Height BY <1>9, CursorIs
    <3> QED BY <3>1, <1>2
  <2>6. Holds(p2, r2, x2, S) /\ r2 = GetEntry(n) /\ r2 # Blank BY <1>6 DEF Around
  <2>7. Window(p2, r2, x2, S) BY <2>1, <2>6, WindowHolds
  <2>8. Valid(p2, r2, x2, 0) /\ Entry(p2, r2, x2, 0) = r2 BY <2>6, <2>7 DEF Window, Extent
  <2>9. Entry(p, r, x, n - 1) < r2 /\ Entry(p, r, x, n - 1) \in S
    <3>1. n - 1 < n BY <1>3
    <3>2. Entry(p, r, x, n - 1) < Entry(p, r, x, n) BY <2>1, <2>2, <2>4, <1>3, <3>1 DEF Window, Sorted
    <3> QED BY <3>2, <2>1, <2>2, <2>4, <2>6 DEF Window, Within
  <2>10. Valid(p2, r2, x2, -1)
    <3> PICK b : b = Entry(p, r, x, n - 1) OBVIOUS
    <3>1. b \in S /\ b < r2 BY <2>9
    <3> QED BY <3>1, <2>1, <2>6, RescanReaches
  <2>11. Entry(p2, r2, x2, -1) = Entry(p, r, x, n - 1)
    <3>1. Entry(p2, r2, x2, 0) = Entry(p, r, x, n) BY <2>1, <2>6, <2>8
    <3> QED BY <3>1, <2>1, <2>4, <2>7, <2>8, <2>10, <1>3, NeighbourAgain
  <2>12. Entry(p, r, x, n - 1) \in Visible(p, r, x, o)
    <3>1. o <= n - 1 /\ n - 1 < o + Height BY <1>9, CursorIs
    <3> QED BY <3>1, <2>1, <2>2, <2>4, VisibleIs
  <2>13. Entry(p2, r2, x2, -1) \in Visible(p2, r2, x2, -1)
    <3>1. -1 \in Int /\ -1 <= -1 /\ -1 < -1 + Height BY HeightAssumption
    <3> QED BY <3>1, <2>7, <2>10, VisibleIs
  <2> PICK c : c = Entry(p, r, x, n - 1) OBVIOUS
  <2>14. c \in Lines /\ c \in Lines'
    <3>1. Lines = Visible(p, r, x, o) /\ Lines' = Visible(p2, r2, x2, o2) BY LinesAre, LinesAfter
    <3> QED BY <3>1, <2>5, <2>11, <2>12, <2>13
  <2> QED BY <2>14, <1>7, PageJoins
<1>10. n < offset + Height \/ n = offset + Height BY <1>3, CursorIs
<1> QED BY <1>8, <1>9, <1>10

LEMMA StepPrevPage ==
    ASSUME BrowserInv, BrowserInv', PrevPage
    PROVE  \A a, b \in Lines \cup Lines', n \in Shown : a < n /\ n < b => n \in Lines \cup Lines'
<1>1. InBrowser /\ Keep /\ sel' = 0 BY DEF PrevPage
<1>2. PICK n \in offset .. offset + Height :
          /\ CheckIndex(n) /\ \A m \in offset .. n - 1 : ~CheckIndex(m)
          /\ ScanUpdate(GetEntry(n))
          /\ offset' = IF n = offset THEN 1 - Height ELSE offset - n
  BY DEF PrevPage
<1>3. n \in Int /\ n >= offset /\ n <= offset + Height BY CursorIs
<1>4. CheckIndex(sel) BY <1>2, <1>3, CursorOn
<1>5. n <= sel
  <2>1. sel \notin offset .. n - 1 BY <1>2, <1>4
  <2> QED BY <2>1, <1>3, CursorIs
<1>6. offset' \in Int /\ 1 - Height <= offset' /\ offset' <= 0 BY <1>2, <1>3, <1>5, CursorIs
<1>7. n < offset + Height BY <1>3, <1>5, CursorIs
<1>8. GetEntry(n) \in Shown BY <1>2, <1>3, EntryShown
<1>9. Around(GetEntry(n)) BY <1>1, <1>2, <1>8, RescanKeeps
<1>10. Shown' = Shown BY <1>9 DEF Around
<1>11. GetEntry(n) \in Lines /\ GetEntry(n) \in Lines' BY <1>2, <1>3, <1>6, <1>7, <1>9, PageMeets
<1> PICK c : c = GetEntry(n) OBVIOUS
<1>12. c \in Lines /\ c \in Lines' BY <1>11
<1> QED BY <1>12, <1>10, PageJoins

\* filesel.c: whatever the order of the directories, the names that a filter lets
\* through and the keys that are pressed, the window holds a stretch of the names
\* without a gap, the cursor is on one, and it can be moved on to every other.
THEOREM BrowserCorrect == SelSpec => []SelInv
<1>1. BrowserInv => SelInv BY BrowserTyped, WindowIsComplete, CursorIsOnName, EndsAre DEF SelInv
<1> QED BY BrowserInit, BrowserStep, <1>1, PTL DEF SelSpec

\* Filesel_Update: UP and DOWN go to the neighbouring name and a page skips none,
\* over a rescan of the directory too.
THEOREM BrowserSkipsNothing == SelSpec => NothingSkipped
<1>1. BrowserInv /\ BrowserInv' /\ [SelNext]_selVars =>
          [/\ Next1 => /\ Selected < Selected'
                       /\ ~\E n \in Shown : Selected < n /\ n < Selected'
           /\ Prev1 => /\ Selected' < Selected
                       /\ ~\E n \in Shown : Selected' < n /\ n < Selected
           /\ NextPage \/ PrevPage =>
                 \A a, b \in Lines \cup Lines', n \in Shown :
                     a < n /\ n < b => n \in Lines \cup Lines']_selVars
  BY StepNext, StepPrev, StepNextPage, StepPrevPage
<1> QED BY BrowserInit, BrowserStep, <1>1, PTL DEF SelSpec, NothingSkipped

-----------------------------------------------------------------------------
(* The uploads.  The inductive invariant relates the bytes in the FIFO, in  *)
(* the buffer and still in the file to the place in memory they are for,    *)
(* and tells what the transfers before this one have left there; what the   *)
(* memory holds is claimed only while no wait timed out, but that nothing   *)
(* else is written always.                                                  *)

Loads == {"read", "send", "finish", "sent"}
Checks == {"vread", "compare", "checked"}
Stages == {"idle", "return", "plain", "prg", "crt", "swizzle", "swait", "data", "dwait",
           "dcheck", "download", "fetch", "stored"} \cup Loads \cup Checks

\* The transfer in progress: where it begins in memory and in the file, how many
\* bytes it is to be, how many are to come, where it ends, and what goes where.
Origin ==
    IF job.format = "plain" THEN job.base + done
    ELSE IF job.format = "prg" THEN job.base + job.spec
    ELSE job.base + job.spec[done].start
From ==
    IF job.format = "plain" THEN 0
    ELSE Less(IF job.format = "prg" THEN 2 ELSE job.spec[done].from, job.len)
Wanted ==
    IF job.format = "plain" THEN Piece
    ELSE IF job.format = "prg" THEN job.size ELSE job.spec[done].size
ToCome == Less(left, job.len - at)
Stop == Origin + Less(Wanted, job.len - From)
ByteAt(a) == a - Origin + From + 1

\* The call in progress.
Fitting ==
    /\ job.format \in {"plain", "prg", "crt", "swizzle", "data", "download"}
    /\ JobFits(job) /\ job.size = AutoSize(job)

UploadTyped ==
    /\ job = NoJob \/ Fitting
    /\ stage \in Stages /\ mem \in [0 .. MemSize - 1 -> Int]
    /\ fifo \in Seq(Int) /\ Len(fifo) <= MemBuf
    /\ adr \in Nat /\ adr + Len(fifo) <= MemSize /\ writes \in BOOLEAN
    /\ at \in 0 .. job.len /\ left \in Nat /\ buf \in Seq(Int) /\ Len(buf) <= FileBuf
    /\ rc \in 0 .. 2 /\ out \in Seq(Int) /\ late \in BOOLEAN /\ err \in BOOLEAN
    /\ done \in Nat /\ result \in 0 .. 1

\* What is written, and what the FPGA will still write.
KeptOff ==
    /\ job.format # "download" => \A a \in DOMAIN mem \ DOMAIN Expected : mem[a] = Old
    /\ writes => \A k \in 1 .. Len(fifo) : adr + k - 1 \in DOMAIN Expected
    /\ job.format = "download" => fifo = << >> /\ \A a \in DOMAIN mem : mem[a] = a + 1

\* Between two calls.
Idle ==
    stage = "idle" =>
        /\ job = NoJob /\ fifo = << >> /\ adr = 0 /\ writes /\ at = 0 /\ left = 0 /\ buf = << >>
        /\ rc = 0 /\ out = << >> /\ ~late /\ ~err /\ done = 0 /\ result = 0 /\ opened = 0
        /\ \A a \in DOMAIN mem : mem[a] = Old

\* What goes on belongs to the format.
Belongs ==
    /\ stage \notin {"idle"} => job.format # "none"
    /\ stage \in {"plain", "prg", "crt", "swizzle", "data", "download"} => job.format = stage
    /\ stage \in Loads => job.format \in {"plain", "prg", "crt"}
    /\ stage \in Checks => job.format \in {"plain", "prg"}
    /\ stage = "swait" => job.format = "swizzle"
    /\ stage \in {"dwait", "dcheck"} => job.format = "data"
    /\ stage \in {"fetch", "stored"} => job.format = "download"
    /\ job.format = "crt" => result = 1
    /\ stage \in {"swizzle", "swait", "data", "dwait", "dcheck"} => ~err

AtWork == {"plain"} \cup Loads \cup Checks

\* Which piece of a plain binary, block of a CRT file.
Counted ==
    /\ job.format = "plain" /\ stage \in AtWork =>
          /\ done <= job.size
          /\ stage # "plain" => done < job.size
          /\ done = job.size \/ done % job.len = 0
    /\ job.format = "prg" /\ stage \in Loads \cup Checks => job.len # 0
    /\ job.format = "crt" => done <= Len(job.spec)
    /\ job.format = "crt" /\ stage \in Loads => done > 0

\* The pieces before this one are in memory, unless the card failed.
Earlier ==
    job.format = "plain" /\ stage \in AtWork /\ ~err /\ (~late \/ job.verify) =>
        /\ \A a \in job.base .. job.base + done - 1 : mem[a] = ((a - job.base) % job.len) + 1
        /\ stage = "plain" => fifo = << >>

\* A buffer is read from the file, sent, and written by the FPGA.
Uploading ==
    stage \in Loads =>
        /\ writes /\ Origin <= adr
        /\ stage # "send" => buf = << >>
        /\ stage = "finish" => ToCome = 0 \/ err
        /\ stage # "sent" => adr + Len(fifo) + Len(buf) + ToCome <= Stop
        /\ stage = "sent" /\ ~late => fifo = << >> /\ (err \/ adr = Stop)
        /\ ~late => /\ stage # "sent" => adr + Len(fifo) + Len(buf) + ToCome = Stop
                    /\ \A a \in Origin .. adr - 1 : mem[a] = ByteAt(a)
                    /\ \A k \in 1 .. Len(fifo) : fifo[k] = ByteAt(adr + k - 1)
                    /\ \A k \in 1 .. Len(buf) : buf[k] = ByteAt(adr + Len(fifo) + k - 1)
                    /\ stage # "sent" /\ ToCome # 0 => ByteAt(adr + Len(fifo) + Len(buf)) = at + 1

\* A buffer is read from the file and compared with the memory.
Comparing ==
    stage \in {"vread", "compare"} =>
        /\ job.verify /\ ~writes /\ fifo = << >> /\ Origin <= adr
        /\ stage = "vread" => buf = << >> /\ rc = 0
        /\ rc \in 0 .. 1
        /\ adr + Len(buf) + ToCome = Stop
        /\ \A k \in 1 .. Len(buf) : buf[k] = ByteAt(adr + k - 1)
        /\ ToCome # 0 => ByteAt(adr + Len(buf)) = at + 1
        /\ rc = 0 => \A a \in Origin .. adr - 1 : mem[a] = ByteAt(a)

Compared ==
    stage = "checked" =>
        /\ rc \in 0 .. 1
        /\ ~late \/ job.verify => fifo = << >>
        /\ rc = 0 /\ ~err /\ (~late \/ job.verify) =>
              \A a \in Origin .. Stop - 1 : mem[a] = ByteAt(a)

\* A swizzled file: turns pieces are done.
Turns == done \div Consume
Width == Len(job.spec)
Token(a) ==
    LET t == job.spec[((a - job.base) % Width) + 1]
    IN IF t > 0 THEN ((a - job.base) \div Width) * Consume + t ELSE t

Swizzling ==
    stage \in {"swizzle", "swait"} =>
        LET here == job.base + Turns * Width
            behind == IF stage = "swait" THEN here + Width ELSE here
        IN /\ writes
           /\ done = 0 \/ job.len % Consume = 0
           /\ done % Consume = 0 /\ done <= job.len
           /\ stage = "swait" => done < job.len /\ job.len % Consume = 0
           /\ ~late =>
                 /\ stage = "swizzle" => fifo = << >>
                 /\ stage = "swait" => here <= adr /\ adr + Len(fifo) = behind
                 /\ \A a \in job.base .. (IF stage = "swait" THEN adr ELSE here) - 1 :
                       mem[a] = Token(a)
                 /\ \A k \in 1 .. Len(fifo) : fifo[k] = Token(adr + k - 1)
                 /\ \A a \in DOMAIN mem : a >= behind => mem[a] = Old

\* The data line.
Sending ==
    stage \in {"data", "dwait", "dcheck"} =>
        /\ done \in 0 .. 1 
        /\ stage = "dwait" => writes
        /\ stage = "dwait" /\ ~late =>
              /\ job.base <= adr /\ adr + Len(fifo) = job.base + job.size
              /\ \A a \in job.base .. adr - 1 : mem[a] = a - job.base + 1
              /\ \A k \in 1 .. Len(fifo) : fifo[k] = adr + k - job.base
        /\ stage = "dcheck" => fifo = << >>

\* A download.
Storing ==
    /\ stage = "fetch" =>
        /\ left <= job.size /\ Len(buf) <= left
        /\ adr = job.base + (job.size - left) + Len(buf)
        /\ \A k \in 1 .. Len(buf) : buf[k] = job.base + (job.size - left) + k
        /\ rc = 0
    /\ stage = "stored" => adr <= job.base + job.size /\ rc \in 0 .. 1
    /\ stage \in {"fetch", "stored"} =>
        /\ Len(out) <= CardRoom
        /\ job.size <= CardRoom /\ ~err =>
              /\ Len(out) = job.size - left /\ \A k \in 1 .. Len(out) : out[k] = job.base + k
        /\ stage = "stored" /\ ~late /\ ~err /\ job.size <= CardRoom => left = 0

Returned ==
    stage = "return" =>
        /\ opened = 0
        /\ result = 0 /\ err => job.format \notin {"swizzle", "data"}
        /\ result = 0 /\ ~err /\ (~late \/ (job.verify /\ job.format \in {"plain", "prg"})) =>
            /\ fifo = << >>
            /\ \A a \in DOMAIN Expected : mem[a] = Expected[a]
            /\ job.format = "download" /\ job.size <= CardRoom =>
                  out = [k \in 1 .. job.size |-> job.base + k]

\* The memory holds what it is to hold or what it held; the FIFO is empty outside a
\* transfer.
NoneWrong ==
    job.format \in {"plain", "prg"} /\ ~late =>
        /\ \A a \in DOMAIN Expected : mem[a] \in {Old, Expected[a]}
        /\ stage \notin Loads => fifo = << >>

CallInv ==
    /\ UploadTyped /\ KeptOff /\ Idle /\ Belongs /\ Counted /\ Earlier /\ Uploading /\ Comparing
    /\ Compared /\ Swizzling /\ Sending /\ Storing /\ Returned /\ NoneWrong
-----------------------------------------------------------------------------
\* Arithmetic.

LEMMA LessIs ==
    ASSUME NEW a \in Nat, NEW b \in Nat
    PROVE  Less(a, b) \in Nat /\ Less(a, b) <= a /\ Less(a, b) <= b
           /\ (Less(a, b) = a \/ Less(a, b) = b)
BY DEF Less

LEMMA Dividing ==
    ASSUME NEW a \in Nat, NEW d \in Nat \ {0}
    PROVE  /\ a \div d \in Nat /\ a % d \in 0 .. d - 1
           /\ a = d * (a \div d) + (a % d)
OBVIOUS

\* A number has one quotient and one rest.
LEMMA OneQuotient ==
    ASSUME NEW d \in Nat \ {0}, NEW q \in Nat, NEW r \in 0 .. d - 1
    PROVE  (d * q + r) \div d = q /\ (d * q + r) % d = r
<1> DEFINE a == d * q + r
           p == a \div d
           s == a % d
<1>1. a \in Nat
  OBVIOUS
<1>2. p \in Nat /\ s \in 0 .. d - 1 /\ a = d * p + s
  BY <1>1, Dividing
<1> HIDE DEF p, s
<1>3. d * p + s = d * q + r
  BY <1>2
<1>4. ~(p < q)
  <2> SUFFICES ASSUME p + 1 <= q PROVE FALSE
    BY <1>2
  <2>1. d * (p + 1) <= d * q
    BY <1>2
  <2> QED BY <2>1, <1>2, <1>3
<1>5. ~(q < p)
  <2> SUFFICES ASSUME q + 1 <= p PROVE FALSE
    BY <1>2
  <2>1. d * (q + 1) <= d * p
    BY <1>2
  <2> QED BY <2>1, <1>2, <1>3
<1>6. p = q
  BY <1>2, <1>4, <1>5
<1> QED BY <1>2, <1>6 DEF p, s

\* One more of the same.
LEMMA NextMultiple ==
    ASSUME NEW d \in Nat \ {0}, NEW a \in Nat, a % d = 0
    PROVE  /\ (a + d) % d = 0 /\ (a + d) \div d = (a \div d) + 1
           /\ \A b \in Nat : b % d = 0 /\ a < b => a + d <= b /\ (a \div d) + 1 <= b \div d
           /\ \A x \in 0 .. d - 1 : (a + x) % d = x /\ (a + x) \div d = a \div d
<1> DEFINE q == a \div d
<1>1. q \in Nat /\ a = d * q
  BY Dividing
<1> HIDE DEF q
<1>2. a + d = d * (q + 1) + 0 /\ q + 1 \in Nat /\ 0 \in 0 .. d - 1
  BY <1>1
<1>3. (a + d) % d = 0 /\ (a + d) \div d = q + 1
  <2>1. (d * (q + 1) + 0) % d = 0 /\ (d * (q + 1) + 0) \div d = q + 1
    BY <1>2, OneQuotient
  <2> QED BY <2>1, <1>2
<1>4. ASSUME NEW b \in Nat, b % d = 0, a < b
      PROVE  a + d <= b /\ q + 1 <= b \div d
  <2> DEFINE p == b \div d
  <2>1. p \in Nat /\ b = d * p
    BY <1>4, Dividing
  <2> HIDE DEF p
  <2>2. ~(p <= q)
    <3> SUFFICES ASSUME p <= q PROVE FALSE
      OBVIOUS
    <3>1. d * p <= d * q
      BY <1>1, <2>1
    <3> QED BY <3>1, <1>1, <2>1, <1>4
  <2>3. d * (q + 1) <= d * p
    BY <2>2, <1>1, <2>1
  <2> QED BY <2>1, <2>2, <2>3, <1>1 DEF p
<1>5. ASSUME NEW x \in 0 .. d - 1
      PROVE  (a + x) % d = x /\ (a + x) \div d = q
  BY <1>1, <1>5, OneQuotient
<1> QED BY <1>3, <1>4, <1>5 DEF q

LEMMA OneMore ==
    ASSUME NEW d \in Nat \ {0}, NEW a \in Nat, a % d = 0, NEW b \in Nat, b % d = 0, a < b
    PROVE  /\ (a + d) % d = 0 /\ (a + d) \div d = (a \div d) + 1 /\ a + d <= b
           /\ (a \div d) + 1 <= b \div d
<1>1. (a + d) % d = 0 /\ (a + d) \div d = (a \div d) + 1
  BY NextMultiple
<1>2. a + d <= b /\ (a \div d) + 1 <= b \div d
  BY NextMultiple
<1> QED BY <1>1, <1>2

LEMMA Beyond ==
    ASSUME NEW d \in Nat \ {0}, NEW a \in Nat, a % d = 0, NEW x \in 0 .. d - 1
    PROVE  (a + x) % d = x /\ (a + x) \div d = a \div d
BY NextMultiple

-----------------------------------------------------------------------------
\* The call.

LEMMA FittingIs ==
    ASSUME Fitting
    PROVE  /\ job.base \in Nat /\ job.size \in Nat /\ job.len \in Nat /\ job.verify \in BOOLEAN
           /\ job.format = "plain" =>
                 /\ job.base + job.size <= MemSize
                 /\ job.size # 0 => job.len # 0 /\ (job.size <= job.len \/ job.size % job.len = 0)
           /\ job.format = "prg" =>
                 job.spec \in Nat /\ job.base + job.spec + Less(job.size, Body(job)) <= MemSize
           /\ job.format = "crt" =>
                 /\ job.spec \in Seq([good : BOOLEAN, start : Nat, size : Nat, from : Nat])
                 /\ \A k \in 1 .. Len(job.spec) :
                       job.base + job.spec[k].start + job.spec[k].size <= MemSize
           /\ job.format = "swizzle" =>
                 /\ job.spec \in Seq(Int) /\ Len(job.spec) <= MemBuf /\ Consume > 0
                 /\ job.base + (job.len \div Consume) * Len(job.spec) <= MemSize
           /\ job.format = "data" => job.size <= MemBuf /\ job.base + job.size <= MemSize
           /\ job.format = "download" => job.size # 0 /\ job.base + job.size <= MemSize
<1> DEFINE R == [format : {job.format}, base : Nat, size : Nat, len : Nat,
                 verify : BOOLEAN, spec : {job.spec}]
<1>1. job \in R
  BY DEF Fitting, JobFits
<1>2. job.base \in Nat /\ job.size \in Nat /\ job.len \in Nat /\ job.verify \in BOOLEAN
  BY <1>1
<1> QED BY <1>2 DEF Fitting, JobFits, Consume

LEMMA TakenIs ==
    ASSUME NEW s \in Seq(Int)
    PROVE  Taken(s) \in Nat /\ Taken(s) <= Len(s)
<1> DEFINE A == {k \in 1 .. Len(s) : s[k] > 0}
<1>1. Len(s) \in Nat
  BY LenProperties
<1>2. IsFiniteSet(1 .. Len(s)) /\ Cardinality(1 .. Len(s)) = Len(s)
  <2>1. 1 \in Int /\ Len(s) \in Int
    BY <1>1
  <2>2. /\ IsFiniteSet(1 .. Len(s))
        /\ Cardinality(1 .. Len(s)) = IF 1 > Len(s) THEN 0 ELSE Len(s) - 1 + 1
    BY ONLY <2>1, FS_Interval, Zenon
  <2> QED BY <1>1, <2>2
<1>3. IsFiniteSet(A) /\ Cardinality(A) <= Len(s)
  BY <1>2, FS_Subset
<1> QED BY <1>3, FS_CardinalityType DEF Taken

\* Which memory a call writes.
LEMMA ExpectedWhere ==
    ASSUME Fitting
    PROVE  /\ job.format = "plain" => DOMAIN Expected = job.base .. job.base + job.size - 1
           /\ job.format = "prg" =>
                 DOMAIN Expected =
                     job.base + job.spec .. job.base + job.spec + Less(job.size, Body(job)) - 1
           /\ job.format = "crt" =>
                 DOMAIN Expected = UNION {job.base + b.start .. job.base + b.start + b.size - 1 :
                                            b \in {job.spec[k] : k \in 1 .. Len(job.spec)}}
           /\ job.format = "swizzle" =>
                 DOMAIN Expected =
                     job.base .. job.base + (job.len \div Consume) * Len(job.spec) - 1
           /\ job.format = "data" => DOMAIN Expected = job.base .. job.base + job.size - 1
           /\ job.format = "download" => DOMAIN Expected = {}
<1>1. CASE job.format = "plain"
  BY <1>1 DEF Expected, ExpectedOf
<1>2. CASE job.format = "prg"
  BY <1>2 DEF Expected, ExpectedOf
<1>3. CASE job.format = "crt"
  BY <1>3 DEF Expected, ExpectedOf
<1>4. CASE job.format = "swizzle"
  BY <1>4 DEF Expected, ExpectedOf, Consume
<1>5. CASE job.format = "data"
  BY <1>5 DEF Expected, ExpectedOf
<1>6. CASE job.format = "download"
  BY <1>6 DEF Expected, ExpectedOf
<1> QED BY <1>1, <1>2, <1>3, <1>4, <1>5, <1>6 DEF Fitting

\* And what with, of the formats of which anything is told.
LEMMA ExpectedWhat ==
    ASSUME Fitting, NEW a \in DOMAIN Expected
    PROVE  /\ job.format = "plain" => Expected[a] = ((a - job.base) % job.len) + 1
           /\ job.format = "prg" => Expected[a] = a - job.base - job.spec + 3
           /\ job.format = "swizzle" => Expected[a] = Token(a)
           /\ job.format = "data" => Expected[a] = a - job.base + 1
<1> USE ExpectedWhere
<1>1. CASE job.format = "plain"
  BY <1>1 DEF Expected, ExpectedOf
<1>2. CASE job.format = "prg"
  BY <1>2 DEF Expected, ExpectedOf
<1>3. CASE job.format = "swizzle"
  BY <1>3 DEF Expected, ExpectedOf, Consume, Token, Width
<1>4. CASE job.format = "data"
  BY <1>4 DEF Expected, ExpectedOf
<1> QED BY <1>1, <1>2, <1>3, <1>4 DEF Fitting

LEMMA NothingExpected == ASSUME job = NoJob PROVE DOMAIN Expected = {}
BY DEF NoJob, Expected, ExpectedOf

LEMMA InCall ==
    ASSUME UploadTyped, Belongs, stage # "idle"
    PROVE  Fitting
BY DEF UploadTyped, Belongs, NoJob

\* A transfer stays in what the call is to write.
LEMMA PlacedIs ==
    Fitting /\ done \in Nat /\ Belongs /\ Counted /\ stage \in Loads \cup Checks =>
        /\ Fitting /\ job.len \in Nat
        /\ Origin \in Nat /\ From \in 0 .. job.len /\ Wanted \in Nat /\ Stop \in Nat
        /\ Origin <= Stop /\ Stop <= MemSize
        /\ \A a \in Origin .. Stop - 1 : a \in DOMAIN Expected
        /\ Stop = Origin + Less(Wanted, job.len - From)
        /\ job.format = "plain" => Piece > 0 /\ Stop = Origin + Piece /\ From = 0
        /\ job.format = "prg" =>
              DOMAIN Expected = Origin .. Stop - 1 /\ (Origin < Stop => From = 2)
<1> SUFFICES ASSUME Fitting, done \in Nat, Belongs, Counted, stage \in Loads \cup Checks
             PROVE  /\ Fitting /\ job.len \in Nat
                    /\ Origin \in Nat /\ From \in 0 .. job.len /\ Wanted \in Nat /\ Stop \in Nat
                    /\ Origin <= Stop /\ Stop <= MemSize
                    /\ \A a \in Origin .. Stop - 1 : a \in DOMAIN Expected
                    /\ Stop = Origin + Less(Wanted, job.len - From)
                    /\ job.format = "plain" => Piece > 0 /\ Stop = Origin + Piece /\ From = 0
                    /\ job.format = "prg" =>
                          DOMAIN Expected = Origin .. Stop - 1 /\ (Origin < Stop => From = 2)
  OBVIOUS
<1>1. Fitting /\ stage # "idle" /\ stage # "plain" /\ done \in Nat
  BY DEF Loads, Checks
<1>2. job.base \in Nat /\ job.size \in Nat /\ job.len \in Nat
  BY <1>1, FittingIs
<1>3. CASE job.format = "plain"
  <2>1. done < job.size /\ (done = job.size \/ done % job.len = 0)
    BY <1>3, <1>1 DEF Counted, AtWork
  <2>2. job.len # 0 /\ job.base + job.size <= MemSize
        /\ (job.size <= job.len \/ job.size % job.len = 0)
    BY <2>1, <1>1, <1>2, <1>3, FittingIs
  <2>3. Piece \in Nat /\ Piece > 0 /\ Piece <= job.len /\ Less(Piece, job.len - 0) = Piece
    BY <2>1, <2>2, <1>1, <1>2 DEF Piece, Less
  <2>4. done + Piece <= job.size
    <3>1. CASE job.size <= job.len
      <4>1. done = 0
        BY <2>1, <2>2, <3>1, <1>1, <1>2
      <4> QED BY <4>1, <1>2, <3>1 DEF Piece, Less
    <3>2. CASE job.size > job.len
      <4>1. job.size % job.len = 0 /\ done % job.len = 0 /\ Piece = job.len
        BY <2>1, <2>2, <3>2, <1>1, <1>2 DEF Piece, Less
      <4> QED BY <4>1, <2>1, <2>2, <1>1, <1>2, NextMultiple
    <3> QED BY <3>1, <3>2, <1>2
  <2>5. Origin = job.base + done /\ From = 0 /\ Wanted = Piece /\ Stop = Origin + Piece
    BY <1>3, <2>3 DEF Origin, From, Wanted, Stop
  <2>6. DOMAIN Expected = job.base .. job.base + job.size - 1
    BY <1>1, <1>3, ExpectedWhere
  <2>7. Stop = Origin + Less(Wanted, job.len - From)
    BY DEF Stop
  <2>8. Origin \in Nat /\ Stop \in Nat /\ Origin <= Stop /\ Stop <= MemSize
    BY <2>2, <2>3, <2>4, <2>5, <1>1, <1>2, MemoryAssumption
  <2>9. \A a \in Origin .. Stop - 1 : a \in DOMAIN Expected
    BY <2>3, <2>4, <2>5, <2>6, <1>1, <1>2, SMTT(30)
  <2> QED BY <2>2, <2>3, <2>5, <2>7, <2>8, <2>9, <1>1, <1>2, <1>3
<1>4. CASE job.format = "prg"
  <2>1. job.spec \in Nat /\ job.base + job.spec + Less(job.size, Body(job)) <= MemSize
    BY <1>4, <1>1, FittingIs
  <2>2. Origin = job.base + job.spec /\ From = Less(2, job.len) /\ Wanted = job.size
    BY <1>4 DEF Origin, From, Wanted
  <2>3. From \in 0 .. job.len /\ Body(job) = job.len - From /\ Body(job) \in Nat
    BY <2>2, <1>2 DEF Body, Less
  <2>4. Stop = Origin + Less(job.size, Body(job)) /\ Less(job.size, Body(job)) \in Nat
    BY <2>2, <2>3, <1>2 DEF Stop, Less
  <2>5. DOMAIN Expected = job.base + job.spec .. job.base + job.spec + Less(job.size, Body(job)) - 1
    BY <1>1, <1>4, ExpectedWhere
  <2> HIDE DEF Body, Less
  <2>6. Origin \in Nat /\ Stop \in Nat /\ Origin <= Stop /\ Stop <= MemSize
        /\ DOMAIN Expected = Origin .. Stop - 1
    BY <2>1, <2>2, <2>4, <2>5, <1>2, SMTT(30)
  <2>7. Stop = Origin + Less(Wanted, job.len - From)
    BY DEF Stop
  <2>8. Origin < Stop => From = 2
    BY <2>2, <2>3, <2>4, <2>6, <1>2 DEF Less
  <2> QED BY <2>6, <2>2, <2>3, <2>7, <2>8, <1>1, <1>2, <1>4
<1>5. CASE job.format = "crt"
  <2>0. done \in 1 .. Len(job.spec)
    <3>1. stage \in Loads
      BY <1>5 DEF Belongs, Checks, Loads
    <3>2. job.spec \in Seq([good : BOOLEAN, start : Nat, size : Nat, from : Nat])
      BY <1>5, <1>1, FittingIs
    <3> QED BY <3>1, <3>2, <1>5, <1>1, LenProperties DEF Counted
  <2>1. job.spec[done] \in [good : BOOLEAN, start : Nat, size : Nat, from : Nat]
    BY <2>0, <1>1, <1>5, FittingIs, ElementOfSeq
  <2> DEFINE b == job.spec[done]
  <2>2. b.start \in Nat /\ b.size \in Nat /\ b.from \in Nat
    BY <2>1
  <2>3. job.base + b.start + b.size <= MemSize
    BY <2>0, <1>5, <1>1, FittingIs
  <2>4. b.start + job.base .. job.base + b.start + b.size - 1 \subseteq DOMAIN Expected
    <3>1. b \in {job.spec[k] : k \in 1 .. Len(job.spec)}
      BY <2>0
    <3>2. job.base + b.start .. job.base + b.start + b.size - 1 \subseteq DOMAIN Expected
      BY <3>1, <1>1, <1>5, ExpectedWhere
    <3> QED BY <3>2, <2>2, <1>2
  <2>5. Origin = job.base + b.start /\ From = Less(b.from, job.len) /\ Wanted = b.size
    BY <1>5 DEF Origin, From, Wanted
  <2>6. From \in 0 .. job.len
    BY <2>5, <2>2, <1>2 DEF Less
  <2> HIDE DEF b
  <2>7. Stop = Origin + Less(Wanted, job.len - From)
    BY DEF Stop
  <2>8. Less(Wanted, job.len - From) \in 0 .. b.size
    BY <2>2, <2>5, <2>6, <1>2 DEF Less
  <2>9. Origin \in Nat /\ Stop \in Nat /\ Origin <= Stop /\ Stop <= MemSize
        /\ \A a \in Origin .. Stop - 1 : a \in DOMAIN Expected
    BY <2>2, <2>3, <2>4, <2>5, <2>7, <2>8, <1>2, MemoryAssumption
  <2> QED BY <2>2, <2>5, <2>6, <2>7, <2>9, <1>1, <1>2, <1>5
<1> QED BY <1>3, <1>4, <1>5 DEF Belongs, Loads, Checks

LEMMA InPlace ==
    ASSUME UploadTyped, Belongs, Counted, stage \in Loads \cup Checks
    PROVE  /\ Fitting /\ job.len \in Nat
           /\ Origin \in Nat /\ From \in 0 .. job.len /\ Wanted \in Nat /\ Stop \in Nat
           /\ Origin <= Stop /\ Stop <= MemSize
           /\ \A a \in Origin .. Stop - 1 : a \in DOMAIN Expected
           /\ Stop = Origin + Less(Wanted, job.len - From)
           /\ job.format = "plain" => Piece > 0 /\ Stop = Origin + Piece /\ From = 0
           /\ job.format = "prg" =>
                 DOMAIN Expected = Origin .. Stop - 1 /\ (Origin < Stop => From = 2)
<1>1. stage # "idle" /\ done \in Nat
  BY DEF Loads, Checks, UploadTyped
<1> QED BY <1>1, InCall, PlacedIs

LEMMA SameCall ==
    ASSUME UNCHANGED <<job, done>>
    PROVE  /\ Origin' = Origin /\ From' = From /\ Wanted' = Wanted /\ Stop' = Stop
           /\ Piece' = Piece /\ Expected' = Expected /\ Fitting' = Fitting
           /\ Consume' = Consume /\ Turns' = Turns /\ Width' = Width
<1>1. job' = job /\ done' = done
  OBVIOUS
<1>2. Consume' = Consume /\ Expected' = Expected /\ Width' = Width /\ Piece' = Piece
  BY <1>1 DEF Consume, Expected, Width, Piece
<1>3. Origin' = Origin /\ From' = From
  BY <1>1 DEF Origin, From
<1>4. Wanted' = Wanted
  BY <1>1, <1>2 DEF Wanted
<1>5. Fitting' = Fitting
  BY <1>1 DEF Fitting
<1> QED BY <1>1, <1>2, <1>3, <1>4, <1>5 DEF Stop, Turns

\* A step that goes on with the same call keeps what holds of it and its place.
LEMMA SameKept ==
    ASSUME Belongs, Counted, UNCHANGED <<job, done, result, stage, err>>
    PROVE  Belongs' /\ Counted'
BY DEF Belongs, Counted

\* So does one that leaves the memory alone, of the bytes in it.
LEMMA NoneStays ==
    ASSUME NoneWrong, UNCHANGED <<job, mem>>, late => late',
           job.format \in {"plain", "prg"} /\ ~late' => stage' \in Loads \/ fifo' = << >>
    PROVE  NoneWrong'
<1>1. Expected' = Expected
  BY DEF Expected
<1> QED BY <1>1 DEF NoneWrong

\* What a transfer puts at an address is what is to be there.
LEMMA ByteExpected ==
    ASSUME UploadTyped, Belongs, Counted, stage \in Loads \cup Checks,
           job.format \in {"plain", "prg"}, NEW a \in Origin .. Stop - 1
    PROVE  a \in DOMAIN Expected /\ Expected[a] = ByteAt(a)
<1>1. /\ Fitting /\ Origin \in Nat /\ Stop \in Nat /\ a \in DOMAIN Expected /\ job.len \in Nat
      /\ job.format = "plain" => Piece > 0 /\ Stop = Origin + Piece /\ From = 0
      /\ job.format = "prg" /\ Origin < Stop => From = 2
  BY InPlace
<1>2. job.base \in Nat /\ job.size \in Nat /\ done \in Nat
  BY <1>1, FittingIs DEF UploadTyped
<1>3. CASE job.format = "plain"
  <2>1. done < job.size /\ done % job.len = 0 /\ job.len # 0 /\ Origin = job.base + done
    BY <1>1, <1>2, <1>3, FittingIs DEF Counted, AtWork, Origin, Loads, Checks
  <2> DEFINE n == job.len
             x == a - Origin
  <2>2. Piece <= n
    BY <1>1, <1>2 DEF Piece, Less
  <2>3. n \in Nat \ {0} /\ done \in Nat /\ done % n = 0 /\ x \in 0 .. n - 1 /\ a - job.base = done + x
    BY <1>1, <1>2, <1>3, <2>1, <2>2 DEF Piece, Less
  <2>4. ByteAt(a) = x + 1
    BY <1>1, <1>3 DEF ByteAt
  <2>5. Expected[a] = ((a - job.base) % n) + 1
    BY <1>1, <1>3, ExpectedWhat
  <2> HIDE DEF n, x
  <2>6. (done + x) % n = x
    BY ONLY <2>3, Beyond
  <2> QED BY <1>1, <2>3, <2>4, <2>5, <2>6
<1>4. CASE job.format = "prg"
  <2>1. From = 2 /\ job.spec \in Nat /\ Origin = job.base + job.spec /\ a \in Int
    BY <1>1, <1>4, FittingIs DEF Origin
  <2>2. Expected[a] = a - job.base - job.spec + 3 /\ ByteAt(a) = a - Origin + 3
    BY <1>1, <1>4, <2>1, ExpectedWhat DEF ByteAt
  <2> QED BY <1>1, <1>2, <2>1, <2>2
<1> QED BY <1>3, <1>4

-----------------------------------------------------------------------------
\* The FPGA writes a byte.

LEMMA DrainKeeps ==
    ASSUME CallInv, Drain, UNCHANGED call
    PROVE  CallInv'
<1> USE DEF call, xfer, file
<1>1. UploadTyped /\ KeptOff /\ Idle /\ Belongs /\ Counted /\ Earlier /\ Uploading /\ Comparing
      /\ Compared /\ Swizzling /\ Sending /\ Storing /\ Returned
  BY DEF CallInv
<1>2. /\ writes /\ fifo # << >> /\ fifo \in Seq(Int) /\ adr \in Nat /\ Len(fifo) \in Nat
      /\ mem' = [mem EXCEPT ![adr] = Head(fifo)] /\ fifo' = Tail(fifo) /\ adr' = adr + 1
      /\ UNCHANGED <<writes, stage, at, err, left, buf, rc, out, late, job, done, result, opened>>
  BY <1>1, EmptySeq DEF Drain, UploadTyped
<1>3. /\ fifo' \in Seq(Int) /\ Len(fifo') = Len(fifo) - 1 /\ Len(fifo) > 0 /\ Head(fifo) = fifo[1]
      /\ fifo[1] \in Int /\ \A k \in 1 .. Len(fifo') : fifo'[k] = fifo[k + 1]
  <2>1. Len(fifo) > 0
    BY <1>2, EmptySeq
  <2>2. fifo[1] \in Int
    BY <1>2, <2>1, ElementOfSeq
  <2> QED BY <1>2, <2>1, <2>2, HeadTailProperties
<1>4. adr < MemSize /\ MemSize \in Nat
  BY <1>1, <1>2, <1>3, MemoryAssumption DEF UploadTyped
<1>5. /\ mem' \in [0 .. MemSize - 1 -> Int] /\ DOMAIN mem = 0 .. MemSize - 1
      /\ DOMAIN mem' = DOMAIN mem
      /\ mem'[adr] = fifo[1] /\ \A a \in DOMAIN mem : a # adr => mem'[a] = mem[a]
  BY <1>1, <1>2, <1>3, <1>4 DEF UploadTyped
<1>6. UploadTyped'
  <2>1. (job = NoJob \/ Fitting)'
    BY <1>1, <1>2, SameCall DEF UploadTyped
  <2>2. adr' \in Nat /\ adr' + Len(fifo') <= MemSize /\ Len(fifo') <= MemBuf
    BY <1>1, <1>2, <1>3, <1>4, BufferAssumption DEF UploadTyped
  <2>3. at' \in 0 .. job'.len
    BY <1>1, <1>2 DEF UploadTyped
  <2> QED BY <2>1, <2>2, <2>3, <1>1, <1>2, <1>3, <1>5 DEF UploadTyped
<1>7. Belongs' /\ Counted'
  BY <1>1, <1>2, SameKept
<1>8. KeptOff'
  <2>1. adr \in DOMAIN Expected /\ Expected' = Expected
    <3>1. 1 \in 1 .. Len(fifo) /\ adr + 1 - 1 = adr
      BY <1>2, <1>3
    <3> QED BY <3>1, <1>1, <1>2, SameCall DEF KeptOff
  <2>2. job.format # "download"
    BY <1>1, <1>2 DEF KeptOff
  <2>3. ASSUME NEW k \in 1 .. Len(fifo')
        PROVE  adr' + k - 1 \in DOMAIN Expected
    <3>1. k + 1 \in 1 .. Len(fifo) /\ adr + (k + 1) - 1 = adr' + k - 1
      BY <2>3, <1>2, <1>3
    <3> QED BY <3>1, <1>1, <1>2 DEF KeptOff
  <2>4. \A a \in DOMAIN mem \ DOMAIN Expected : mem'[a] = Old
    BY <2>1, <2>2, <1>1, <1>5 DEF KeptOff
  <2> QED BY <2>1, <2>2, <2>3, <2>4, <1>2, <1>5 DEF KeptOff
<1>9. Idle'
  BY <1>1, <1>2 DEF Idle
<1>10. stage \in Loads \cup Checks => Origin \in Nat /\ Origin' = Origin /\ Stop' = Stop /\ From' = From
  BY <1>1, <1>2, SameCall, InPlace
<1>11. Earlier'
  <2> SUFFICES ASSUME job.format = "plain", stage \in AtWork, ~err, ~late \/ job.verify
               PROVE  /\ stage \in Loads
                      /\ \A a \in job.base .. job.base + done - 1 :
                            mem'[a] = ((a - job.base) % job.len) + 1
    BY <1>2 DEF Earlier, Loads
  <2>1. stage \in Loads
    BY <1>1, <1>2 DEF Earlier, AtWork, Checks, Comparing, Compared
  <2>2. job.base + done <= adr /\ job.base \in Nat /\ done \in Nat
    <3>1. Origin <= adr /\ Origin = job.base + done
      BY <1>1, <2>1 DEF Uploading, Origin
    <3>2. Fitting
      BY <1>1, <2>1, InPlace
    <3> QED BY <3>1, <3>2, <1>1, FittingIs DEF UploadTyped
  <2>3. ASSUME NEW a \in job.base .. job.base + done - 1
        PROVE  mem'[a] = mem[a]
    BY <2>2, <2>3, <1>2, <1>4, <1>5
  <2> QED BY <2>1, <2>3, <1>1 DEF Earlier
<1>12. Uploading'
  <2> SUFFICES ASSUME stage \in Loads
               PROVE  Uploading'
    BY <1>2 DEF Uploading
  <2>1. /\ Origin \in Nat /\ Origin' = Origin /\ Stop' = Stop /\ From' = From /\ ToCome' = ToCome
        /\ Stop \in Nat /\ From \in Nat
    BY <1>1, <1>2, <1>10, InPlace DEF ToCome
  <2>2. ToCome \in Nat /\ Len(buf) \in Nat
    <3>1. at \in 0 .. job.len /\ left \in Nat /\ job.len \in Nat
      BY <1>1, InPlace DEF UploadTyped
    <3> QED BY <3>1, <1>1 DEF ToCome, Less, UploadTyped
  <2>3. ASSUME ~late
        PROVE  /\ \A a \in Origin .. adr' - 1 : mem'[a] = ByteAt(a)
               /\ \A k \in 1 .. Len(fifo') : fifo'[k] = ByteAt(adr' + k - 1)
               /\ \A k \in 1 .. Len(buf) : buf[k] = ByteAt(adr' + Len(fifo') + k - 1)
    <3>1. /\ \A a \in Origin .. adr - 1 : mem[a] = ByteAt(a)
          /\ \A k \in 1 .. Len(fifo) : fifo[k] = ByteAt(adr + k - 1)
          /\ \A k \in 1 .. Len(buf) : buf[k] = ByteAt(adr + Len(fifo) + k - 1)
      BY <1>1, <2>3 DEF Uploading
    <3>2. fifo[1] = ByteAt(adr)
      BY <3>1, <1>2, <1>3 DEF ByteAt
    <3>3. ASSUME NEW a \in Origin .. adr' - 1 PROVE mem'[a] = ByteAt(a)
      BY <3>1, <3>2, <3>3, <2>1, <1>2, <1>4, <1>5
    <3>4. ASSUME NEW k \in 1 .. Len(fifo') PROVE fifo'[k] = ByteAt(adr' + k - 1)
      <4>1. k + 1 \in 1 .. Len(fifo) /\ adr + (k + 1) - 1 = adr' + k - 1
        BY <3>4, <1>2, <1>3
      <4> QED BY <4>1, <3>1, <1>3
    <3>5. adr' + Len(fifo') = adr + Len(fifo)
      BY <1>2, <1>3
    <3> QED BY <3>1, <3>3, <3>4, <3>5
  <2>4. \A a : ByteAt(a)' = a - Origin + From + 1
    BY <2>1 DEF ByteAt
  <2>5. adr' + Len(fifo') = adr + Len(fifo) /\ Origin <= adr'
    BY <1>1, <1>2, <1>3, <2>1 DEF Uploading
  <2> QED BY <1>1, <1>2, <2>1, <2>2, <2>3, <2>4, <2>5, ZenonT(40) DEF Uploading, ByteAt
<1>13. Comparing' /\ Compared'
  BY <1>1, <1>2, <1>10 DEF Comparing, Compared, Checks
<1>14. Swizzling'
  <2> SUFFICES ASSUME stage \in {"swizzle", "swait"}
               PROVE  Swizzling'
    BY <1>2 DEF Swizzling
  <2> DEFINE here == job.base + Turns * Width
  <2>1. /\ Fitting /\ Consume' = Consume /\ Turns' = Turns /\ Width' = Width
        /\ \A a : Token(a)' = Token(a)
    <3>1. job' = job
      BY <1>2
    <3> QED BY <3>1, <1>1, <1>2, SameCall, InCall DEF Token
  <2>2. job.base \in Nat /\ Width \in Nat /\ Turns \in Nat /\ here \in Nat
    <3>1. job.format = "swizzle"
      BY <1>1 DEF Belongs
    <3>2. job.base \in Nat /\ Width \in Nat /\ Consume > 0
      BY <2>1, <3>1, FittingIs, LenProperties DEF Width
    <3>3. Consume \in Nat
      BY <3>1, <2>1, FittingIs, TakenIs DEF Consume
    <3>4. Consume \in Nat \ {0} /\ done \in Nat
      BY <3>2, <3>3, <1>1 DEF UploadTyped
    <3>5. Turns \in Nat
      BY <3>4, Dividing DEF Turns
    <3> HIDE DEF here
    <3>6. Turns * Width \in Nat
      BY <3>2, <3>5
    <3> QED BY <3>2, <3>5, <3>6 DEF here
  <2> HIDE DEF here
  <2>3. CASE late
    BY <2>1, <2>3, <1>1, <1>2 DEF Swizzling
  <2>4. CASE ~late
    <3>1. /\ stage = "swait" /\ here <= adr /\ adr + Len(fifo) = here + Width
          /\ \A a \in job.base .. adr - 1 : mem[a] = Token(a)
          /\ \A k \in 1 .. Len(fifo) : fifo[k] = Token(adr + k - 1)
          /\ \A a \in DOMAIN mem : a >= here + Width => mem[a] = Old
      BY <1>1, <1>2, <2>4 DEF Swizzling, here
    <3>2. fifo[1] = Token(adr)
      <4>1. 1 \in 1 .. Len(fifo) /\ adr + 1 - 1 = adr
        BY <1>2, <1>3
      <4> QED BY <4>1, <3>1
    <3>3. ASSUME NEW a \in job.base .. adr' - 1 PROVE mem'[a] = Token(a)
      BY <3>1, <3>2, <3>3, <2>2, <1>2, <1>4, <1>5
    <3>4. ASSUME NEW k \in 1 .. Len(fifo') PROVE fifo'[k] = Token(adr' + k - 1)
      <4>1. k + 1 \in 1 .. Len(fifo) /\ adr + (k + 1) - 1 = adr' + k - 1
        BY <3>4, <1>2, <1>3
      <4> QED BY <4>1, <3>1, <1>3
    <3>5. \A a \in DOMAIN mem' : a >= here + Width => mem'[a] = Old
      BY <3>1, <2>2, <1>2, <1>3, <1>4, <1>5
    <3>6. here <= adr' /\ adr' + Len(fifo') = here + Width
      BY <3>1, <2>2, <1>2, <1>3
    <3>7. job.base + Turns' * Width' = here
      BY <2>1 DEF here
    <3> QED BY <3>1, <3>3, <3>4, <3>5, <3>6, <3>7, <2>1, <1>1, <1>2 DEF Swizzling
  <2> QED BY <2>3, <2>4, <1>1 DEF UploadTyped
<1>15. Sending'
  <2> SUFFICES ASSUME stage = "dwait", ~late
               PROVE  Sending'
    BY <1>1, <1>2 DEF Sending
  <2>1. job.base \in Nat /\ job.size \in Nat
    BY <1>1, InCall, FittingIs
  <2>2. /\ job.base <= adr /\ adr + Len(fifo) = job.base + job.size
        /\ \A a \in job.base .. adr - 1 : mem[a] = a - job.base + 1
        /\ \A k \in 1 .. Len(fifo) : fifo[k] = adr + k - job.base
    BY <1>1 DEF Sending
  <2>3. fifo[1] = adr - job.base + 1
    BY <2>1, <2>2, <1>2, <1>3
  <2>4. ASSUME NEW a \in job.base .. adr' - 1 PROVE mem'[a] = a - job.base + 1
    BY <2>1, <2>2, <2>3, <2>4, <1>2, <1>4, <1>5, SMTT(30)
  <2>5. ASSUME NEW k \in 1 .. Len(fifo') PROVE fifo'[k] = adr' + k - job.base
    <3>1. k + 1 \in 1 .. Len(fifo)
      BY <2>5, <1>2, <1>3
    <3>2. fifo'[k] = fifo[k + 1] /\ fifo[k + 1] = adr + (k + 1) - job.base
      BY <3>1, <2>2, <2>5, <1>3
    <3>3. k \in Int /\ adr' = adr + 1 /\ adr \in Nat /\ job.base \in Nat
      BY <2>1, <2>5, <1>2
    <3>4. adr + (k + 1) - job.base = adr' + k - job.base
      BY ONLY <3>3
    <3> QED BY <3>2, <3>4
  <2> QED BY <1>1, <1>2, <1>3, <2>1, <2>2, <2>4, <2>5 DEF Sending
<1>16. Storing'
  <2>1. stage \notin {"fetch", "stored"}
    BY <1>1, <1>2 DEF Belongs, KeptOff
  <2> QED BY <2>1, <1>2 DEF Storing
<1>17. Returned'
  BY <1>1, <1>2 DEF Returned
<1>18. NoneWrong'
  <2> SUFFICES ASSUME job.format \in {"plain", "prg"}, ~late
               PROVE  stage \in Loads /\ \A a \in DOMAIN Expected : mem'[a] \in {Old, Expected[a]}
    BY <1>2, SameCall DEF NoneWrong
  <2>1. /\ stage \in Loads /\ stage # "sent"
        /\ \A a \in DOMAIN Expected : mem[a] \in {Old, Expected[a]}
    BY <1>1, <1>2 DEF CallInv, NoneWrong, Uploading
  <2>2. Origin \in Nat /\ Stop \in Nat /\ \A a \in DOMAIN Expected : a \in DOMAIN mem
    <3>1. Fitting /\ stage \in Loads \cup Checks
      BY <1>1, <2>1, InPlace
    <3>2. job.format = "plain" => DOMAIN Expected \subseteq 0 .. MemSize - 1
      BY <3>1, <1>4, FittingIs, ExpectedWhere
    <3>3. job.format = "prg" => DOMAIN Expected = Origin .. Stop - 1 /\ Stop <= MemSize
      BY <3>1, <1>1, InPlace
    <3> QED BY <3>1, <3>2, <3>3, <1>1, <1>4, <1>5, InPlace
  <2>3. adr \in Origin .. Stop - 1 /\ fifo[1] = ByteAt(adr)
    <3>1. /\ Origin <= adr /\ adr + Len(fifo) + Len(buf) + ToCome = Stop
          /\ \A k \in 1 .. Len(fifo) : fifo[k] = ByteAt(adr + k - 1)
      BY <1>1, <2>1 DEF Uploading
    <3>2. ToCome \in Nat /\ Len(buf) \in Nat
      <4>1. at \in 0 .. job.len /\ left \in Nat /\ job.len \in Nat
        BY <1>1, <2>1, InPlace DEF UploadTyped
      <4> QED BY <4>1, <1>1 DEF ToCome, Less, UploadTyped
    <3>3. fifo[1] = ByteAt(adr)
      BY <3>1, <1>2, <1>3
    <3>4. adr < Stop
      BY <3>1, <3>2, <2>2, <1>2, <1>3
    <3> QED BY <3>1, <3>3, <3>4, <2>2, <1>2
  <2>4. mem'[adr] = Expected[adr]
    BY <2>1, <2>3, <1>1, <1>5, ByteExpected
  <2> QED BY <2>1, <2>2, <2>4, <1>5
<1> QED BY <1>6, <1>7, <1>8, <1>9, <1>11, <1>12, <1>13, <1>14, <1>15, <1>16, <1>17, <1>18 DEF CallInv

-----------------------------------------------------------------------------
\* Chunks and buffers.

LEMMA ChunkIs ==
    ASSUME buf \in Seq(Int), buf # << >>
    PROVE  /\ ToChunk \in Seq(Int) /\ Rest \in Seq(Int)
           /\ Len(ToChunk) \in Nat /\ Len(ToChunk) > 0 /\ Len(ToChunk) <= MemBuf
           /\ Len(Rest) = Len(buf) - Len(ToChunk) /\ Len(ToChunk) <= Len(buf)
           /\ \A k \in 1 .. Len(ToChunk) : ToChunk[k] = buf[k]
           /\ \A k \in 1 .. Len(Rest) : Rest[k] = buf[k + Len(ToChunk)]
<1> DEFINE n == Less(MemBuf, Len(buf))
<1>1. Len(buf) \in Nat /\ Len(buf) > 0 /\ MemBuf \in Nat \ {0}
  BY EmptySeq, LenProperties, BufferAssumption
<1>2. n \in 1 .. Len(buf) /\ n <= MemBuf
  BY <1>1 DEF Less
<1> HIDE DEF n
<1>3. \A k \in 1 .. Len(buf) : buf[k] \in Int
  BY ElementOfSeq
<1>4. ToChunk \in Seq(Int) /\ Len(ToChunk) = n /\ \A k \in 1 .. n : ToChunk[k] = buf[k]
  <2>1. ToChunk = SubSeq(buf, 1, n)
    BY DEF ToChunk, n
  <2>2. \A k \in 1 .. n : buf[k] \in Int
    BY <1>1, <1>2, <1>3
  <2>3. 1 \in Int /\ n \in Int
    BY <1>2
  <2>4. /\ SubSeq(buf, 1, n) \in Seq(Int) /\ Len(SubSeq(buf, 1, n)) = IF 1 <= n THEN n - 1 + 1 ELSE 0
        /\ \A k \in 1 .. n - 1 + 1 : SubSeq(buf, 1, n)[k] = buf[1 + k - 1]
    BY ONLY <2>2, <2>3, SubSeqProperties
  <2> QED BY <2>1, <2>4, <1>2
<1>5. Rest \in Seq(Int) /\ Len(Rest) = Len(buf) - n
      /\ \A k \in 1 .. Len(buf) - n : Rest[k] = buf[k + n]
  <2> DEFINE m == n + 1
             l == Len(buf)
  <2>1. Rest = SubSeq(buf, m, l)
    BY <1>4 DEF Rest
  <2>2. \A k \in m .. l : buf[k] \in Int
    BY <1>1, <1>2, <1>3
  <2>3. m \in Int /\ l \in Int /\ l - m + 1 = l - n /\ (m <= l \/ l - n = 0)
        /\ \A k \in Int : m + k - 1 = k + n
    BY <1>1, <1>2
  <2> HIDE DEF m, l
  <2>4. /\ SubSeq(buf, m, l) \in Seq(Int)
        /\ Len(SubSeq(buf, m, l)) = IF m <= l THEN l - m + 1 ELSE 0
        /\ \A k \in 1 .. l - m + 1 : SubSeq(buf, m, l)[k] = buf[m + k - 1]
    BY ONLY <2>2, <2>3, SubSeqProperties
  <2>5. Len(SubSeq(buf, m, l)) = l - n
    BY <2>3, <2>4, <1>2
  <2>6. ASSUME NEW k \in 1 .. l - n
        PROVE  SubSeq(buf, m, l)[k] = buf[k + n]
    <3>1. k \in Int /\ m + k - 1 = k + n /\ k \in 1 .. l - m + 1
      BY <2>3
    <3> QED BY <2>4, <3>1
  <2> QED BY <2>1, <2>4, <2>5, <2>6 DEF l
<1> QED BY <1>1, <1>2, <1>4, <1>5

LEMMA BytesAre ==
    ASSUME NEW p \in Nat, NEW n \in Nat
    PROVE  /\ Bytes(p, n) \in Seq(Int) /\ Len(Bytes(p, n)) = n
           /\ \A k \in 1 .. n : Bytes(p, n)[k] = p + k
BY DEF Bytes

\* What is read is part of what was to come; nothing is read at the end or when the
\* card fails.
LEMMA ReadIs ==
    ASSUME UploadTyped, job.len \in Nat, NEW here, NEW filled, NEW ends,
           ReadFile(here, filled, ends, job.len), UNCHANGED call
    PROVE  /\ UNCHANGED <<mem, fifo, adr, writes, rc, out, late, job, done, result, opened>>
           /\ stage = here /\ stage' \in {filled, ends} /\ err' \in BOOLEAN /\ (err => err')
           /\ ToCome \in Nat /\ ToCome' \in Nat
           /\ at' \in 0 .. job.len /\ left' \in Nat /\ buf' \in Seq(Int) /\ Len(buf') <= FileBuf
           /\ \/ /\ stage' = ends /\ UNCHANGED <<at, left, buf>> /\ ToCome' = ToCome
                 /\ ToCome = 0 \/ err'
              \/ /\ stage' = filled /\ ToCome # 0 /\ Len(buf') + ToCome' = ToCome
                 /\ \A k \in 1 .. Len(buf') : buf'[k] = at + k
                 /\ ToCome' # 0 => at' = at + Len(buf')
<1> DEFINE all == Less(FileBuf, job.len - at)
<1>1. at \in 0 .. job.len /\ left \in Nat /\ job.len - at \in Nat /\ buf \in Seq(Int)
      /\ Len(buf) <= FileBuf /\ err \in BOOLEAN /\ FileBuf \in Nat \ {0}
  BY BufferAssumption DEF UploadTyped
<1>2. all \in Nat /\ all <= FileBuf /\ all <= job.len - at /\ (all = 0 => job.len - at = 0)
  BY <1>1 DEF Less
<1>3. stage = here /\ UNCHANGED <<mem, fifo, adr, writes, rc, out, late, job, done, result, opened>>
  BY DEF ReadFile, fpga, call
<1>4. ToCome \in Nat /\ (left = 0 \/ job.len - at = 0 => ToCome = 0)
  BY <1>1 DEF ToCome, Less
<1>5. ASSUME stage' = ends, UNCHANGED <<at, left, buf>>
      PROVE  ToCome' = ToCome
  BY <1>3, <1>5 DEF ToCome
<1>6. CASE left = 0 /\ stage' = ends /\ UNCHANGED <<file, left, buf>>
  BY <1>1, <1>3, <1>4, <1>5, <1>6 DEF file
<1>7. ASSUME left # 0, NEW n \in 0 .. FileBuf, Access(n, all),
             IF n = 0 THEN stage' = ends /\ UNCHANGED <<at, left, buf>>
             ELSE /\ buf' = Bytes(at, Less(left, n)) /\ at' = at + n
                  /\ left' = left - Less(left, n) /\ stage' = filled
      PROVE  /\ stage' \in {filled, ends} /\ err' \in BOOLEAN /\ (err => err') /\ ToCome' \in Nat
             /\ at' \in 0 .. job.len /\ left' \in Nat /\ buf' \in Seq(Int) /\ Len(buf') <= FileBuf
             /\ \/ /\ stage' = ends /\ UNCHANGED <<at, left, buf>> /\ ToCome' = ToCome
                   /\ ToCome = 0 \/ err'
                \/ /\ stage' = filled /\ ToCome # 0 /\ Len(buf') + ToCome' = ToCome
                   /\ \A k \in 1 .. Len(buf') : buf'[k] = at + k
                   /\ ToCome' # 0 => at' = at + Len(buf')
  <2>1. n \in Nat /\ n <= FileBuf /\ n <= job.len - at /\ err' \in BOOLEAN /\ (err => err')
        /\ (n = 0 => all = 0 \/ err')
    <3>1. CASE err /\ n = 0 /\ UNCHANGED err
      BY <3>1, <1>1
    <3>2. CASE ~err /\ n = all /\ UNCHANGED err
      BY <3>2, <1>1, <1>2
    <3>3. CASE ~err /\ CardFails /\ n < all /\ err' = TRUE
      <4>1. err' \in BOOLEAN
        BY <3>3, Zenon
      <4> QED BY <4>1, <3>3, <1>1, <1>2
    <3> QED BY <3>1, <3>2, <3>3, <1>7 DEF Access
  <2> HIDE DEF all
  <2>2. CASE n = 0
    <3>1. stage' = ends /\ UNCHANGED <<at, left, buf>>
      BY <1>7, <2>2
    <3>2. ToCome = 0 \/ err'
      BY <2>1, <2>2, <1>2, <1>4
    <3> QED BY <3>1, <3>2, <2>1, <1>1, <1>4, <1>5
  <2>3. CASE n # 0
    <3> DEFINE k == Less(left, n)
               r == job.len - at
    <3>1. stage' = filled /\ buf' = Bytes(at, k) /\ at' = at + n /\ left' = left - k
      BY <1>7, <2>3
    <3>2. r \in Nat /\ ToCome = Less(left, r) /\ n <= r
      BY <1>1, <2>1 DEF ToCome
    <3>3. /\ k \in Nat /\ k <= n /\ left - k \in Nat
          /\ Less(left - k, r - n) \in Nat /\ k + Less(left - k, r - n) = Less(left, r)
          /\ Less(left, r) # 0
          /\ Less(left - k, r - n) # 0 => k = n
      BY <3>2, <2>1, <2>3, <1>1, <1>7, SMTT(30) DEF Less
    <3> HIDE DEF k
    <3>4. at \in Nat /\ job.len \in Nat /\ at + n \in 0 .. job.len /\ job.len - (at + n) = r - n
      BY <1>1, <2>1
    <3>5. buf' \in Seq(Int) /\ Len(buf') = k /\ \A m \in 1 .. k : buf'[m] = at + m
      <4>1. /\ Bytes(at, k) \in Seq(Int) /\ Len(Bytes(at, k)) = k
            /\ \A m \in 1 .. k : Bytes(at, k)[m] = at + m
        BY ONLY <3>3, <3>4, BytesAre
      <4> QED BY <4>1, <3>1
    <3>6. ToCome' = Less(left - k, r - n)
      BY <3>1, <3>4, <1>3 DEF ToCome
    <3>7. k <= FileBuf
      BY <3>3, <2>1, <1>1
    <3> QED BY <3>1, <3>2, <3>3, <3>4, <3>5, <3>6, <3>7, <2>1
  <2> QED BY <2>2, <2>3
<1>8. \/ left = 0 /\ stage' = ends /\ UNCHANGED <<file, left, buf>>
      \/ left # 0 /\ \E n \in 0 .. FileBuf :
            /\ Access(n, all)
            /\ IF n = 0 THEN stage' = ends /\ UNCHANGED <<at, left, buf>>
               ELSE /\ buf' = Bytes(at, Less(left, n)) /\ at' = at + n
                    /\ left' = left - Less(left, n) /\ stage' = filled
  BY DEF ReadFile
<1> HIDE DEF all
<1>9. CASE left # 0
  <2>1. PICK n \in 0 .. FileBuf :
            /\ Access(n, all)
            /\ IF n = 0 THEN stage' = ends /\ UNCHANGED <<at, left, buf>>
               ELSE /\ buf' = Bytes(at, Less(left, n)) /\ at' = at + n
                    /\ left' = left - Less(left, n) /\ stage' = filled
    BY <1>8, <1>9, Zenon
  <2> QED BY <2>1, <1>3, <1>4, <1>7, <1>9, Zenon
<1> QED BY <1>6, <1>8, <1>9

-----------------------------------------------------------------------------
\* Where the other parts say nothing.

LEMMA OnlyLoads ==
    ASSUME stage' \in Loads
    PROVE  Idle' /\ Comparing' /\ Compared' /\ Swizzling' /\ Sending' /\ Storing' /\ Returned'
BY DEF Loads, Idle, Comparing, Compared, Swizzling, Sending, Storing, Returned

LEMMA OnlyChecks ==
    ASSUME stage' \in Checks
    PROVE  Idle' /\ Uploading' /\ Swizzling' /\ Sending' /\ Storing' /\ Returned'
BY DEF Checks, Loads, Idle, Uploading, Swizzling, Sending, Storing, Returned

\* A step within a transfer that leaves the memory alone.
LEMMA TransferKeeps ==
    ASSUME CallInv, UNCHANGED <<job, done, result, mem>>, late => late', err => err',
           \/ stage \in Loads /\ stage' \in Loads
           \/ stage \in Checks /\ stage' \in Checks
    PROVE  /\ Belongs' /\ Counted' /\ Earlier'
           /\ Fitting' /\ Expected' = Expected
           /\ Origin' = Origin /\ From' = From /\ Stop' = Stop /\ job'.len = job.len
           /\ \A a : ByteAt(a)' = ByteAt(a)
           /\ job.format # "download"
           /\ \A a \in DOMAIN mem' \ DOMAIN Expected' : mem'[a] = Old
<1>1. UploadTyped /\ KeptOff /\ Belongs /\ Counted /\ Earlier
  BY DEF CallInv
<1>2. job' = job /\ done' = done /\ result' = result /\ mem' = mem
  OBVIOUS
<1>3. Fitting /\ stage \in Loads \cup Checks
  BY <1>1, InPlace
<1>4. /\ Expected' = Expected /\ Fitting' /\ Origin' = Origin /\ From' = From /\ Stop' = Stop
  BY <1>2, <1>3, SameCall
<1>5. Belongs' /\ job.format # "download"
  BY <1>1, <1>2 DEF Belongs, Loads, Checks
<1>6. Counted'
  BY <1>1, <1>2 DEF Counted, AtWork, Loads, Checks
<1>7. Earlier'
  BY <1>1, <1>2 DEF Earlier, AtWork, Loads, Checks
<1>8. \A a \in DOMAIN mem' \ DOMAIN Expected' : mem'[a] = Old
  BY <1>1, <1>2, <1>4, <1>5 DEF KeptOff
<1> QED BY <1>2, <1>4, <1>5, <1>6, <1>7, <1>8 DEF ByteAt

-----------------------------------------------------------------------------
\* The upload.

LEMMA LoadIs ==
    ASSUME CallInv, stage \in Loads
    PROVE  /\ UploadTyped /\ job.len \in Nat /\ Fitting /\ writes /\ Origin <= adr
           /\ Origin \in Nat /\ Stop \in Nat /\ From \in Nat /\ Stop <= MemSize /\ adr \in Nat
           /\ ToCome \in Nat /\ Len(fifo) \in Nat /\ Len(buf) \in Nat /\ Len(<< >>) = 0
           /\ stage # "send" => buf = << >>
           /\ stage = "finish" => ToCome = 0 \/ err
           /\ stage # "sent" => adr + Len(fifo) + Len(buf) + ToCome <= Stop
           /\ \A a \in Origin .. Stop - 1 : a \in DOMAIN Expected
           /\ stage # "sent" /\ ~late =>
                 /\ adr + Len(fifo) + Len(buf) + ToCome = Stop
                 /\ \A a \in Origin .. adr - 1 : mem[a] = ByteAt(a)
                 /\ \A k \in 1 .. Len(fifo) : fifo[k] = ByteAt(adr + k - 1)
                 /\ \A k \in 1 .. Len(buf) : buf[k] = ByteAt(adr + Len(fifo) + k - 1)
                 /\ ToCome # 0 => ByteAt(adr + Len(fifo) + Len(buf)) = at + 1
<1>1. UploadTyped /\ Belongs /\ Counted /\ Uploading
  BY DEF CallInv
<1>2. job.len \in Nat /\ at \in 0 .. job.len /\ left \in Nat
  BY <1>1, InPlace DEF UploadTyped
<1>3. ToCome \in Nat
  BY <1>2 DEF ToCome, Less
<1>4. fifo \in Seq(Int) /\ buf \in Seq(Int) /\ adr \in Nat
  BY <1>1 DEF UploadTyped
<1>5. Len(fifo) \in Nat /\ Len(buf) \in Nat /\ Len(<< >>) = 0
  BY <1>4, LenProperties
<1>6. Fitting /\ Origin \in Nat /\ From \in Nat /\ Stop \in Nat /\ Stop <= MemSize
      /\ \A a \in Origin .. Stop - 1 : a \in DOMAIN Expected
  BY <1>1, InPlace
<1> QED BY <1>1, <1>2, <1>3, <1>4, <1>5, <1>6 DEF Uploading

\* The next step of an upload may fill and empty buffer and FIFO.
LEMMA LoadKeeps ==
    ASSUME CallInv, stage \in Loads \ {"sent"}, stage' \in Loads,
           UNCHANGED <<job, done, result, mem, adr, writes, out>>, late' \in BOOLEAN, late => late',
           err' \in BOOLEAN, err => err',
           fifo' = fifo \/ (fifo' \in Seq(Int) /\ Len(fifo') <= MemBuf /\ stage' = "send"),
           buf' \in Seq(Int) /\ Len(buf') <= FileBuf,
           at' \in 0 .. job.len /\ left' \in Nat /\ rc' \in 0 .. 2,
           stage' # "send" => buf' = << >>,
           stage' = "finish" => ToCome' = 0 \/ err',
           adr + Len(fifo') + Len(buf') + ToCome' <= Stop,
           ~late' =>
               /\ stage' = "sent" => fifo' = << >> /\ (ToCome' = 0 \/ err')
               /\ adr + Len(fifo') + Len(buf') + ToCome' = Stop
               /\ \A k \in 1 .. Len(fifo') : fifo'[k] = ByteAt(adr + k - 1)
               /\ \A k \in 1 .. Len(buf') : buf'[k] = ByteAt(adr + Len(fifo') + k - 1)
               /\ ToCome' # 0 => ByteAt(adr + Len(fifo') + Len(buf')) = at' + 1
    PROVE  CallInv'
<1>1. /\ UploadTyped /\ job.len \in Nat /\ writes /\ Origin <= adr
      /\ Origin \in Nat /\ Stop \in Nat /\ Stop <= MemSize /\ adr \in Nat /\ Len(<< >>) = 0
      /\ \A a \in Origin .. Stop - 1 : a \in DOMAIN Expected
  BY LoadIs
<1>2. /\ Belongs' /\ Counted' /\ Earlier' /\ Fitting' /\ Expected' = Expected
      /\ Origin' = Origin /\ Stop' = Stop
      /\ \A a : ByteAt(a)' = ByteAt(a)
      /\ job.format # "download" /\ \A a \in DOMAIN mem' \ DOMAIN Expected' : mem'[a] = Old
  BY TransferKeeps
<1>3. Idle' /\ Comparing' /\ Compared' /\ Swizzling' /\ Sending' /\ Storing' /\ Returned'
  BY OnlyLoads
<1>4. /\ fifo' \in Seq(Int) /\ Len(fifo') <= MemBuf /\ Len(fifo') \in Nat /\ Len(buf') \in Nat
      /\ ToCome' \in Nat
  <2>1. fifo' \in Seq(Int) /\ Len(fifo') <= MemBuf
    BY <1>1 DEF UploadTyped
  <2>2. ToCome' = Less(left', job.len - at')
    BY DEF ToCome
  <2>3. ToCome' \in Nat
    BY <2>2, <1>1 DEF Less
  <2> QED BY <2>1, <2>3, LenProperties
<1>5. adr + Len(fifo') <= Stop
  BY <1>1, <1>4
<1>6. UploadTyped'
  <2>1. adr' \in Nat /\ adr' + Len(fifo') <= MemSize
    BY <1>1, <1>4, <1>5, MemoryAssumption
  <2>2. stage' \in Stages
    BY DEF Stages
  <2>3. at' \in 0 .. job'.len
    OBVIOUS
  <2> QED BY <2>1, <2>2, <2>3, <1>1, <1>2, <1>4 DEF UploadTyped
<1>7. KeptOff'
  <2>1. ASSUME NEW k \in 1 .. Len(fifo')
        PROVE  adr' + k - 1 \in DOMAIN Expected'
    <3>1. adr + k - 1 \in Origin .. Stop - 1 /\ adr' = adr
      BY <2>1, <1>1, <1>4, <1>5
    <3> QED BY <3>1, <1>1, <1>2
  <2> QED BY <2>1, <1>2 DEF KeptOff
<1>8. Uploading'
  <2>1. CASE late'
    BY <2>1, <1>1, <1>2 DEF Uploading
  <2>2. CASE ~late'
    <3>1. /\ adr + Len(fifo') + Len(buf') + ToCome' = Stop
          /\ \A k \in 1 .. Len(fifo') : fifo'[k] = ByteAt(adr + k - 1)
          /\ \A k \in 1 .. Len(buf') : buf'[k] = ByteAt(adr + Len(fifo') + k - 1)
          /\ ToCome' # 0 => ByteAt(adr + Len(fifo') + Len(buf')) = at' + 1
      BY <2>2
    <3>2. stage' = "sent" => fifo' = << >> /\ buf' = << >> /\ (ToCome' = 0 \/ err')
      BY <2>2
    <3>3. stage' = "sent" => err' \/ adr = Stop
      BY <3>1, <3>2, <1>1
    <3>4. \A a \in Origin .. adr - 1 : mem[a] = ByteAt(a)
      BY <2>2, LoadIs
    <3> QED BY <3>1, <3>2, <3>3, <3>4, <1>1, <1>2 DEF Uploading
  <2> QED BY <2>1, <2>2
<1>9. NoneWrong'
  BY NoneStays DEF CallInv
<1> QED BY <1>2, <1>3, <1>6, <1>7, <1>8, <1>9 DEF CallInv

LEMMA ReadKeepsLoad ==
    ASSUME CallInv, ReadFile("read", "send", "finish", job.len), UNCHANGED call
    PROVE  CallInv'
<1>0. stage = "read" /\ stage \in Loads
  BY DEF ReadFile, Loads
<1>1. /\ UploadTyped /\ job.len \in Nat /\ adr \in Nat
      /\ Len(fifo) \in Nat /\ buf = << >> /\ Len(<< >>) = 0 /\ ToCome \in Nat /\ Stop \in Nat
      /\ adr + Len(fifo) + ToCome <= Stop
  BY <1>0, LoadIs
<1>2. /\ UNCHANGED <<mem, fifo, adr, writes, rc, out, late, job, done, result, opened>>
      /\ stage' \in {"send", "finish"} /\ err' \in BOOLEAN /\ (err => err')
      /\ ToCome' \in Nat
      /\ at' \in 0 .. job.len /\ left' \in Nat /\ buf' \in Seq(Int) /\ Len(buf') <= FileBuf
      /\ \/ /\ stage' = "finish" /\ UNCHANGED <<at, left, buf>> /\ ToCome' = ToCome
            /\ ToCome = 0 \/ err'
         \/ /\ stage' = "send" /\ ToCome # 0 /\ Len(buf') + ToCome' = ToCome
            /\ \A k \in 1 .. Len(buf') : buf'[k] = at + k
            /\ ToCome' # 0 => at' = at + Len(buf')
  BY <1>1, ReadIs
<1>3. ~late => /\ adr + Len(fifo) + ToCome = Stop
               /\ \A k \in 1 .. Len(fifo) : fifo[k] = ByteAt(adr + k - 1)
               /\ ToCome # 0 => ByteAt(adr + Len(fifo)) = at + 1
  BY <1>0, <1>1, LoadIs
<1>4. Len(buf') \in Nat /\ Len(buf') + ToCome' = ToCome
  BY <1>1, <1>2, LenProperties
<1>5. late \in BOOLEAN /\ rc \in 0 .. 2 /\ stage' \in Loads /\ stage \in Loads \ {"sent"}
  BY <1>0, <1>1, <1>2 DEF UploadTyped, Loads
<1>6. adr + Len(fifo') + Len(buf') + ToCome' = adr + Len(fifo) + ToCome
  <2>1. fifo' = fifo
    BY <1>2
  <2>2. Len(fifo') = Len(fifo)
    BY <2>1
  <2> DEFINE t == ToCome'
             u == ToCome
             l == Len(buf')
             m == Len(fifo)
  <2>3. l + t = u /\ l \in Nat /\ t \in Nat /\ u \in Nat /\ m \in Nat /\ adr \in Nat
    BY <1>1, <1>2, <1>4
  <2> HIDE DEF t, u, l, m
  <2>4. adr + m + l + t = adr + m + u
    BY ONLY <2>3
  <2> QED BY <2>2, <2>4 DEF t, u, l, m
<1>7. ASSUME ~late, ToCome # 0
      PROVE  /\ \A k \in 1 .. Len(buf') : buf'[k] = ByteAt(adr + Len(fifo) + k - 1)
             /\ ToCome' # 0 => ByteAt(adr + Len(fifo) + Len(buf')) = at' + 1
  <2>1. adr + Len(fifo) - Origin + From + 1 = at + 1 /\ Origin \in Nat /\ From \in Nat /\ at \in Nat
    BY <1>0, <1>1, <1>3, <1>7, LoadIs DEF ByteAt, UploadTyped
  <2>2. (\A k \in 1 .. Len(buf') : buf'[k] = at + k) /\ (ToCome' # 0 => at' = at + Len(buf'))
    <3>1. CASE UNCHANGED <<at, left, buf>>
      <4>1. Len(buf') = 0 /\ at' = at
        BY <3>1, <1>1
      <4> QED BY <4>1, <2>1
    <3> QED BY <3>1, <1>2
  <2>3. at = adr + Len(fifo) - Origin + From
    BY <2>1, <1>1
  <2>4. \A k \in Int : ByteAt(adr + Len(fifo) + k - 1) = at + k
    BY <2>1, <2>3, <1>1 DEF ByteAt
  <2>5. ByteAt(adr + Len(fifo) + Len(buf')) = at + Len(buf') + 1
    BY <2>1, <2>3, <1>1, <1>4 DEF ByteAt
  <2>6. ASSUME NEW k \in 1 .. Len(buf')
        PROVE  buf'[k] = ByteAt(adr + Len(fifo) + k - 1)
    <3>1. k \in Int
      BY <1>4, <2>6
    <3> QED BY <3>1, <2>2, <2>4
  <2>7. ASSUME ToCome' # 0
        PROVE  ByteAt(adr + Len(fifo) + Len(buf')) = at' + 1
    BY <2>2, <2>5, <2>7
  <2> QED BY <2>6, <2>7
<1>8. /\ buf' = << >> \/ ToCome # 0
      /\ stage' # "send" => buf' = << >>
      /\ stage' = "finish" => ToCome' = 0 \/ err'
  BY <1>1, <1>2
<1>9. \A k \in 1 .. Len(buf') : ToCome # 0
  BY <1>1, <1>8
<1> QED BY <1>1, <1>2, <1>3, <1>5, <1>6, <1>7, <1>8, <1>9, LoadKeeps

LEMMA SameToCome ==
    ASSUME UNCHANGED <<job, at, left>>
    PROVE  ToCome' = ToCome
BY DEF ToCome

LEMMA SendKeeps ==
    ASSUME CallInv, SendChunk, UNCHANGED call
    PROVE  CallInv'
<1>0. /\ stage = "send" /\ buf # << >> /\ fifo = << >> /\ late' = late
      /\ fifo' = ToChunk /\ buf' = Rest
      /\ UNCHANGED <<mem, adr, writes, stage, at, err, left, rc, out, job, done, result, opened>>
  BY DEF SendChunk, InTime, call, file
<1>1. stage \in Loads \ {"sent"} /\ stage' \in Loads /\ stage \in Loads /\ stage' = "send"
  BY <1>0 DEF Loads
<1>2. /\ UploadTyped /\ Len(fifo) = 0 /\ adr \in Nat /\ ToCome \in Nat /\ Stop \in Nat
      /\ Len(buf) \in Nat /\ adr + 0 + Len(buf) + ToCome <= Stop
      /\ Origin \in Nat /\ From \in Nat
  BY <1>0, <1>1, LoadIs
<1>3. ToCome' = ToCome
  BY <1>0, SameToCome
<1>4. /\ ToChunk \in Seq(Int) /\ Rest \in Seq(Int)
      /\ Len(ToChunk) \in Nat /\ Len(ToChunk) > 0 /\ Len(ToChunk) <= MemBuf
      /\ Len(Rest) = Len(buf) - Len(ToChunk) /\ Len(ToChunk) <= Len(buf)
      /\ \A k \in 1 .. Len(ToChunk) : ToChunk[k] = buf[k]
      /\ \A k \in 1 .. Len(Rest) : Rest[k] = buf[k + Len(ToChunk)]
  BY <1>0, <1>2, ChunkIs DEF UploadTyped
<1>5. Len(fifo') = Len(ToChunk) /\ Len(buf') = Len(Rest)
  BY <1>0
<1>6. /\ Len(buf') <= FileBuf /\ at' \in 0 .. job.len /\ left' \in Nat /\ rc' \in 0 .. 2
      /\ late' \in BOOLEAN /\ err' \in BOOLEAN
  BY <1>0, <1>2, <1>4, <1>5, BufferAssumption DEF UploadTyped
<1>7. adr + Len(fifo') + Len(buf') + ToCome' = adr + 0 + Len(buf) + ToCome
  BY <1>2, <1>3, <1>4, <1>5
<1>8. ASSUME ~late
      PROVE  /\ adr + Len(fifo') + Len(buf') + ToCome' = Stop
             /\ \A k \in 1 .. Len(fifo') : fifo'[k] = ByteAt(adr + k - 1)
             /\ \A k \in 1 .. Len(buf') : buf'[k] = ByteAt(adr + Len(fifo') + k - 1)
             /\ ToCome' # 0 => ByteAt(adr + Len(fifo') + Len(buf')) = at' + 1
  <2>1. /\ adr + 0 + Len(buf) + ToCome = Stop
        /\ \A k \in 1 .. Len(buf) : buf[k] = ByteAt(adr + 0 + k - 1)
        /\ ToCome # 0 => ByteAt(adr + 0 + Len(buf)) = at + 1
    BY <1>0, <1>1, <1>2, <1>8, LoadIs
  <2>2. ASSUME NEW k \in 1 .. Len(fifo')
        PROVE  fifo'[k] = ByteAt(adr + k - 1)
    <3>1. k \in 1 .. Len(buf) /\ adr + 0 + k - 1 = adr + k - 1 /\ k \in 1 .. Len(ToChunk)
      BY <2>2, <1>2, <1>4, <1>5
    <3> QED BY <3>1, <2>1, <1>0, <1>4
  <2>3. ASSUME NEW k \in 1 .. Len(buf')
        PROVE  buf'[k] = ByteAt(adr + Len(fifo') + k - 1)
    <3>1. /\ k + Len(ToChunk) \in 1 .. Len(buf) /\ k \in 1 .. Len(Rest)
          /\ adr + 0 + (k + Len(ToChunk)) - 1 = adr + Len(fifo') + k - 1
      BY <2>3, <1>2, <1>4, <1>5
    <3>2. buf'[k] = buf[k + Len(ToChunk)]
      BY <3>1, <1>0, <1>4
    <3>3. buf[k + Len(ToChunk)] = ByteAt(adr + 0 + (k + Len(ToChunk)) - 1)
      BY <3>1, <2>1
    <3> QED BY <3>1, <3>2, <3>3
  <2>4. adr + Len(fifo') + Len(buf') = adr + 0 + Len(buf)
    BY <1>2, <1>4, <1>5
  <2> QED BY <2>1, <2>2, <2>3, <2>4, <1>0, <1>3, <1>7
<1>9. fifo' \in Seq(Int) /\ Len(fifo') <= MemBuf /\ buf' \in Seq(Int)
  BY <1>0, <1>4
<1>10. adr + Len(fifo') + Len(buf') + ToCome' <= Stop
  BY <1>2, <1>7
<1> QED BY <1>0, <1>1, <1>6, <1>8, <1>9, <1>10, LoadKeeps

\* Whenever a wait times out, the FIFO stays and the rest of the buffer goes.
LEMMA LateKeeps ==
    ASSUME CallInv, stage \in Loads \ {"sent"}, stage' \in {"send", "sent"}, late' = TRUE,
           UNCHANGED <<mem, fifo, adr, writes, at, err, left, out, job, done, result>>,
           rc' \in 0 .. 2, buf' = << >> \/ (buf # << >> /\ buf' = Rest /\ stage' = "send")
    PROVE  CallInv'
<1>1. /\ UploadTyped /\ adr \in Nat /\ ToCome \in Nat /\ Stop \in Nat /\ Len(<< >>) = 0
      /\ Len(fifo) \in Nat /\ Len(buf) \in Nat /\ adr + Len(fifo) + Len(buf) + ToCome <= Stop
  BY LoadIs
<1>2. ToCome' = ToCome
  BY SameToCome
<1>3. buf' \in Seq(Int) /\ Len(buf') \in Nat /\ Len(buf') <= Len(buf)
  <2>1. CASE buf' = << >>
    BY <2>1, <1>1, EmptySeq
  <2>2. CASE buf # << >> /\ buf' = Rest
    BY <2>2, <1>1, ChunkIs, LenProperties DEF UploadTyped
  <2> QED BY <2>1, <2>2
<1>4. /\ Len(buf') <= FileBuf /\ at' \in 0 .. job.len /\ left' \in Nat /\ late' \in BOOLEAN
      /\ err' \in BOOLEAN
  BY <1>1, <1>3, BufferAssumption DEF UploadTyped
<1>5. adr + Len(fifo') + Len(buf') + ToCome' <= Stop
  <2>1. Len(fifo') = Len(fifo)
    OBVIOUS
  <2> QED BY <2>1, <1>1, <1>2, <1>3
<1>6. stage' \in Loads /\ stage' # "finish"
  BY DEF Loads
<1> QED BY <1>3, <1>4, <1>5, <1>6, LoadKeeps

LEMMA LostKeeps ==
    ASSUME CallInv, ChunkLost, UNCHANGED call
    PROVE  CallInv'
<1>1. /\ stage = "send" /\ stage' = "send" /\ buf # << >> /\ buf' = Rest /\ late' = TRUE /\ rc' = 1
      /\ UNCHANGED <<mem, fifo, adr, writes, at, err, left, out, job, done, result>>
  BY DEF ChunkLost, TimesOut, call, fpga, file
<1> QED BY <1>1, LateKeeps DEF Loads

LEMMA StopsKeeps ==
    ASSUME CallInv, SendStops, UNCHANGED call
    PROVE  CallInv'
<1>1. /\ stage = "send" /\ stage' = "sent" /\ buf' = << >> /\ late' = TRUE /\ rc' = 1
      /\ UNCHANGED <<mem, fifo, adr, writes, at, err, left, out, job, done, result>>
  BY DEF SendStops, TimesOut, call, fpga, file
<1> QED BY <1>1, LateKeeps DEF Loads

\* Nothing but the place changes, if nothing is in the buffer or to come.
LEMMA OnwardKeeps ==
    ASSUME CallInv, stage \in Loads \ {"sent"}, stage' \in {"read", "sent"}, buf = << >>,
           UNCHANGED <<mem, fifo, adr, writes, at, err, left, buf, out, late, job, done, result>>,
           rc' \in 0 .. 2, stage' = "sent" => fifo = << >> /\ (ToCome = 0 \/ err)
    PROVE  CallInv'
<1>1. /\ UploadTyped /\ adr \in Nat /\ ToCome \in Nat /\ Stop \in Nat /\ Len(<< >>) = 0
      /\ adr + Len(fifo) + Len(buf) + ToCome <= Stop
  BY LoadIs
<1>2. ToCome' = ToCome
  BY SameToCome
<1>3. ASSUME ~late
      PROVE  /\ adr + Len(fifo) + Len(buf) + ToCome = Stop
             /\ \A k \in 1 .. Len(fifo) : fifo[k] = ByteAt(adr + k - 1)
             /\ \A k \in 1 .. Len(buf) : buf[k] = ByteAt(adr + Len(fifo) + k - 1)
             /\ ToCome # 0 => ByteAt(adr + Len(fifo) + Len(buf)) = at + 1
  BY <1>3, LoadIs
<1>4. stage' \in Loads /\ stage' # "finish" /\ stage' # "send"
  BY DEF Loads
<1>5. /\ buf' \in Seq(Int) /\ Len(buf') <= FileBuf /\ late' \in BOOLEAN
      /\ at' \in 0 .. job.len /\ left' \in Nat /\ err' \in BOOLEAN
  BY <1>1 DEF UploadTyped
<1> QED BY <1>1, <1>2, <1>3, <1>4, <1>5, LoadKeeps

LEMMA BufferKeeps ==
    ASSUME CallInv, BufferSent, UNCHANGED call
    PROVE  CallInv'
<1>1. /\ stage = "send" /\ stage' = "read" /\ buf = << >>
      /\ UNCHANGED <<mem, fifo, adr, writes, at, err, left, buf, rc, out, late, job, done, result>>
  BY DEF BufferSent, call, fpga, xfer, file
<1>2. rc' \in 0 .. 2
  BY <1>1 DEF CallInv, UploadTyped
<1> QED BY <1>1, <1>2, OnwardKeeps DEF Loads

LEMMA FinishKeeps ==
    ASSUME CallInv, FinishFile, UNCHANGED call
    PROVE  CallInv'
<1>1. /\ stage = "finish" /\ stage' = "sent" /\ stage \in Loads /\ stage \in Loads \ {"sent"}
      /\ UNCHANGED <<mem, fifo, adr, writes, at, err, left, buf, out, job, done, result>>
  BY DEF FinishFile, call, fpga, file, Loads
<1>2. buf = << >> /\ (ToCome = 0 \/ err) /\ UploadTyped
  BY <1>1, LoadIs
<1>3. CASE InTime /\ rc' = IF left # 0 THEN 2 ELSE rc
  <2>1. fifo = << >> /\ late' = late /\ rc' \in 0 .. 2
    BY <1>2, <1>3 DEF InTime, UploadTyped
  <2> QED BY <2>1, <1>1, <1>2, OnwardKeeps
<1>4. CASE TimesOut /\ rc' = 1
  BY <1>1, <1>2, <1>4, LateKeeps DEF TimesOut
<1> QED BY <1>3, <1>4 DEF FinishFile

-----------------------------------------------------------------------------
\* The verification.

LEMMA CheckIs ==
    ASSUME CallInv, stage \in Checks \ {"checked"}
    PROVE  /\ UploadTyped /\ job.len \in Nat /\ Fitting /\ ~writes /\ fifo = << >> /\ job.verify
           /\ Origin \in Nat /\ Stop \in Nat /\ From \in Nat /\ Stop <= MemSize /\ adr \in Nat
           /\ ToCome \in Nat /\ Len(buf) \in Nat /\ Len(<< >>) = 0 /\ Origin <= adr
           /\ stage = "vread" => buf = << >> /\ rc = 0
           /\ rc \in 0 .. 1 /\ adr + Len(buf) + ToCome = Stop
           /\ \A k \in 1 .. Len(buf) : buf[k] = ByteAt(adr + k - 1)
           /\ ToCome # 0 => ByteAt(adr + Len(buf)) = at + 1
           /\ rc = 0 => \A a \in Origin .. adr - 1 : mem[a] = ByteAt(a)
<1>1. UploadTyped /\ Belongs /\ Counted /\ Comparing
  BY DEF CallInv
<1>2. job.len \in Nat /\ at \in 0 .. job.len /\ left \in Nat
  BY <1>1, InPlace DEF UploadTyped
<1>3. ToCome \in Nat
  BY <1>2 DEF ToCome, Less
<1>4. buf \in Seq(Int) /\ adr \in Nat
  BY <1>1 DEF UploadTyped
<1>5. Len(buf) \in Nat /\ Len(<< >>) = 0
  BY <1>4, LenProperties
<1>6. Fitting /\ Origin \in Nat /\ From \in Nat /\ Stop \in Nat /\ Stop <= MemSize
  BY <1>1, InPlace
<1> QED BY <1>1, <1>2, <1>3, <1>4, <1>5, <1>6 DEF Comparing, Checks

\* The next step of a verification goes on along the memory.
LEMMA CheckKeeps ==
    ASSUME CallInv, stage \in Checks \ {"checked"}, stage' \in Checks,
           UNCHANGED <<job, done, result, mem, fifo, writes, out>>, late' \in BOOLEAN, late => late',
           err' \in BOOLEAN, err => err', adr' \in Nat, adr <= adr',
           buf' \in Seq(Int) /\ Len(buf') <= FileBuf /\ Len(buf') \in Nat,
           at' \in 0 .. job.len /\ left' \in Nat /\ rc' \in 0 .. 1,
           stage' = "vread" => buf' = << >> /\ rc' = 0,
           stage' # "checked" =>
               /\ adr' + Len(buf') + ToCome' = Stop
               /\ \A k \in 1 .. Len(buf') : buf'[k] = ByteAt(adr' + k - 1)
               /\ ToCome' # 0 => ByteAt(adr' + Len(buf')) = at' + 1,
           stage' = "checked" => adr' <= Stop /\ (rc' = 0 => adr' = Stop \/ err'),
           rc' = 0 => \A a \in Origin .. adr' - 1 : mem[a] = ByteAt(a)
    PROVE  CallInv'
<1>1. /\ UploadTyped /\ job.len \in Nat /\ ~writes /\ fifo = << >> /\ Origin <= adr /\ job.verify
      /\ Origin \in Nat /\ Stop \in Nat /\ Stop <= MemSize /\ adr \in Nat /\ Len(<< >>) = 0
  BY CheckIs
<1>2. /\ Belongs' /\ Counted' /\ Earlier' /\ Fitting' /\ Expected' = Expected
      /\ Origin' = Origin /\ Stop' = Stop
      /\ \A a : ByteAt(a)' = ByteAt(a)
      /\ job.format # "download" /\ \A a \in DOMAIN mem' \ DOMAIN Expected' : mem'[a] = Old
  BY TransferKeeps
<1>3. Idle' /\ Uploading' /\ Swizzling' /\ Sending' /\ Storing' /\ Returned'
  BY OnlyChecks
<1>4. ToCome' \in Nat
  <2>1. ToCome' = Less(left', job.len - at')
    BY DEF ToCome
  <2> QED BY <2>1, <1>1 DEF Less
<1>5. adr' <= Stop /\ adr' + Len(fifo') <= MemSize
  <2>1. Stop \in Nat /\ MemSize \in Nat /\ Stop <= MemSize
    BY <1>1, MemoryAssumption
  <2>2. adr' <= Stop
    <3>1. CASE stage' = "checked"
      BY <3>1
    <3>2. CASE stage' # "checked"
      <4>1. adr' + Len(buf') + ToCome' = Stop
        BY <3>2
      <4> QED BY <4>1, <1>1, <1>4
    <3> QED BY <3>1, <3>2
  <2>3. Len(fifo') = 0
    BY <1>1
  <2> DEFINE x == adr'
             l == Len(fifo')
  <2>4. x \in Nat /\ x <= Stop /\ l = 0
    BY <2>2, <2>3
  <2> HIDE DEF x, l
  <2>5. x + l <= MemSize
    BY ONLY <2>1, <2>4
  <2> QED BY <2>2, <2>5 DEF x, l
<1>6. UploadTyped'
  <2>1. stage' \in Stages /\ rc' \in 0 .. 2 /\ at' \in 0 .. job'.len
    BY DEF Stages
  <2> QED BY <2>1, <1>1, <1>2, <1>5 DEF UploadTyped
<1>7. KeptOff'
  BY <1>1, <1>2 DEF KeptOff
<1>8. Comparing'
  <2> SUFFICES ASSUME stage' \in {"vread", "compare"}
               PROVE  Comparing'
    BY DEF Comparing
  <2>1. /\ adr' + Len(buf') + ToCome' = Stop'
        /\ \A k \in 1 .. Len(buf') : buf'[k] = ByteAt(adr + k - 1)'
        /\ ToCome' # 0 => ByteAt(adr + Len(buf))' = at' + 1
    BY <1>1, <1>2
  <2>2. rc' = 0 => \A a \in Origin' .. adr' - 1 : mem'[a] = ByteAt(a)'
    BY <1>2
  <2>3. job'.verify /\ ~writes' /\ fifo' = << >> /\ Origin' <= adr'
    BY <1>1, <1>2
  <2> QED BY <2>1, <2>2, <2>3 DEF Comparing
<1>9. Compared'
  BY <1>1, <1>2 DEF Compared
<1>10. NoneWrong'
  BY <1>1, NoneStays DEF CallInv
<1> QED BY <1>2, <1>3, <1>6, <1>7, <1>8, <1>9, <1>10 DEF CallInv

LEMMA ReadKeepsCheck ==
    ASSUME CallInv, ReadFile("vread", "compare", "checked", job.len), UNCHANGED call
    PROVE  CallInv'
<1>0. stage = "vread" /\ stage \in Checks \ {"checked"}
  BY DEF ReadFile, Checks
<1>1. /\ UploadTyped /\ job.len \in Nat /\ adr \in Nat /\ Origin \in Nat /\ From \in Nat
      /\ buf = << >> /\ Len(buf) = 0 /\ rc = 0 /\ ToCome \in Nat /\ Stop \in Nat
      /\ adr + 0 + ToCome = Stop
      /\ ToCome # 0 => ByteAt(adr + 0) = at + 1
      /\ \A a \in Origin .. adr - 1 : mem[a] = ByteAt(a)
  BY <1>0, CheckIs
<1>2. /\ UNCHANGED <<mem, fifo, adr, writes, rc, out, late, job, done, result, opened>>
      /\ stage' \in {"compare", "checked"} /\ err' \in BOOLEAN /\ (err => err')
      /\ ToCome' \in Nat
      /\ at' \in 0 .. job.len /\ left' \in Nat /\ buf' \in Seq(Int) /\ Len(buf') <= FileBuf
      /\ \/ /\ stage' = "checked" /\ UNCHANGED <<at, left, buf>> /\ ToCome' = ToCome
            /\ ToCome = 0 \/ err'
         \/ /\ stage' = "compare" /\ ToCome # 0 /\ Len(buf') + ToCome' = ToCome
            /\ \A k \in 1 .. Len(buf') : buf'[k] = at + k
            /\ ToCome' # 0 => at' = at + Len(buf')
  BY <1>1, ReadIs
<1>3. /\ Len(buf') \in Nat /\ late' \in BOOLEAN /\ rc' = 0 /\ adr' = adr /\ stage' \in Checks
      /\ stage' # "vread"
  BY <1>1, <1>2, LenProperties DEF UploadTyped, Checks
<1>4. ASSUME stage' = "compare"
      PROVE  /\ adr' + Len(buf') + ToCome' = Stop
             /\ \A k \in 1 .. Len(buf') : buf'[k] = ByteAt(adr' + k - 1)
             /\ ToCome' # 0 => ByteAt(adr' + Len(buf')) = at' + 1
  <2>1. /\ ToCome # 0 /\ Len(buf') + ToCome' = ToCome
        /\ \A k \in 1 .. Len(buf') : buf'[k] = at + k
        /\ ToCome' # 0 => at' = at + Len(buf')
    BY <1>2, <1>4
  <2>2. at = adr - Origin + From /\ at \in Nat
    BY <2>1, <1>1 DEF ByteAt, UploadTyped
  <2>3. \A k \in Int : ByteAt(adr + k - 1) = at + k
    BY <2>2, <1>1 DEF ByteAt
  <2>4. ByteAt(adr + Len(buf')) = at + Len(buf') + 1
    BY <2>2, <1>1, <1>3 DEF ByteAt
  <2>5. adr' + Len(buf') + ToCome' = Stop
    <3> DEFINE t == ToCome'
               u == ToCome
               l == Len(buf')
    <3>1. l + t = u /\ l \in Nat /\ t \in Nat /\ u \in Nat /\ adr \in Nat /\ adr + 0 + u = Stop
          /\ adr' = adr
      BY <2>1, <1>1, <1>2, <1>3
    <3> HIDE DEF t, u, l
    <3>2. adr' + l + t = Stop
      BY ONLY <3>1
    <3> QED BY <3>2 DEF t, l
  <2>6. ASSUME NEW k \in 1 .. Len(buf')
        PROVE  buf'[k] = ByteAt(adr' + k - 1)
    <3>1. k \in Int
      BY <1>3, <2>6
    <3> QED BY <3>1, <2>1, <2>3, <1>3
  <2>7. ASSUME ToCome' # 0
        PROVE  ByteAt(adr' + Len(buf')) = at' + 1
    BY <2>1, <2>4, <2>7, <1>3
  <2> QED BY <2>5, <2>6, <2>7
<1>5. stage' = "checked" => adr' <= Stop /\ (adr' = Stop \/ err')
  BY <1>1, <1>2, <1>3
<1> QED BY <1>0, <1>1, <1>2, <1>3, <1>4, <1>5, CheckKeeps

LEMMA CompareKeeps ==
    ASSUME CallInv, CompareChunk, UNCHANGED call
    PROVE  CallInv'
<1> USE DEF call, fpga, xfer, file
<1>0. stage = "compare" /\ stage \in Checks \ {"checked"}
  BY DEF CompareChunk, Checks
<1>1. /\ UploadTyped /\ job.len \in Nat /\ adr \in Nat /\ Origin \in Nat /\ fifo = << >>
      /\ rc \in 0 .. 1 /\ ToCome \in Nat /\ Stop \in Nat /\ Len(buf) \in Nat /\ Len(<< >>) = 0
      /\ adr + Len(buf) + ToCome = Stop
      /\ \A k \in 1 .. Len(buf) : buf[k] = ByteAt(adr + k - 1)
      /\ ToCome # 0 => ByteAt(adr + Len(buf)) = at + 1
      /\ rc = 0 => \A a \in Origin .. adr - 1 : mem[a] = ByteAt(a)
  BY <1>0, CheckIs
<1>2. at \in 0 .. job.len /\ left \in Nat /\ buf \in Seq(Int) /\ Len(buf) <= FileBuf
      /\ late \in BOOLEAN /\ err \in BOOLEAN /\ adr <= Stop /\ FileBuf \in Nat
  BY <1>1, BufferAssumption DEF UploadTyped
<1>3. CASE buf = << >> /\ stage' = (IF rc = 0 THEN "vread" ELSE "checked") /\ UNCHANGED <<fpga, xfer, late>>
  <2>1. ToCome' = ToCome
    BY <1>3, SameToCome
  <2>2. /\ UNCHANGED <<mem, fifo, adr, writes, at, err, left, buf, rc, out, late, job, done, result>>
    BY <1>3
  <2>3. stage' \in Checks /\ (stage' = "vread" => rc = 0) /\ (stage' = "checked" => rc # 0)
    BY <1>3 DEF Checks
  <2> QED BY <2>1, <2>2, <2>3, <1>0, <1>1, <1>2, <1>3, CheckKeeps
<1>4. CASE /\ buf # << >> /\ InTime
           /\ rc' = IF Memory(Len(ToChunk)) = ToChunk THEN rc ELSE 1
           /\ adr' = adr + Len(ToChunk) /\ buf' = Rest
           /\ UNCHANGED <<mem, fifo, writes, stage, file, left, out>>
  <2>1. ToCome' = ToCome
    BY <1>4, SameToCome
  <2>2. /\ ToChunk \in Seq(Int) /\ Rest \in Seq(Int)
        /\ Len(ToChunk) \in Nat /\ Len(ToChunk) > 0
        /\ Len(Rest) = Len(buf) - Len(ToChunk) /\ Len(ToChunk) <= Len(buf)
        /\ \A k \in 1 .. Len(ToChunk) : ToChunk[k] = buf[k]
        /\ \A k \in 1 .. Len(Rest) : Rest[k] = buf[k + Len(ToChunk)]
    BY <1>2, <1>4, ChunkIs
  <2>3. /\ adr' \in Nat /\ adr <= adr' /\ buf' \in Seq(Int) /\ Len(buf') = Len(buf) - Len(ToChunk)
        /\ Len(buf') \in Nat /\ Len(buf') <= FileBuf /\ rc' \in 0 .. 1
    BY <2>2, <1>1, <1>2, <1>4, SMTT(30)
  <2>4. adr' + Len(buf') = adr + Len(buf)
    BY <2>2, <2>3, <1>1, <1>4
  <2>5. ASSUME NEW k \in 1 .. Len(buf')
        PROVE  buf'[k] = ByteAt(adr' + k - 1)
    <3>1. /\ k + Len(ToChunk) \in 1 .. Len(buf) /\ k \in 1 .. Len(Rest)
          /\ adr + (k + Len(ToChunk)) - 1 = adr' + k - 1
      BY <2>2, <2>3, <2>5, <1>1, <1>4
    <3>2. buf'[k] = buf[k + Len(ToChunk)]
      BY <3>1, <2>2, <1>4
    <3>3. buf[k + Len(ToChunk)] = ByteAt(adr + (k + Len(ToChunk)) - 1)
      BY <3>1, <1>1
    <3> QED BY <3>1, <3>2, <3>3
  <2>6. ASSUME rc' = 0, NEW a \in Origin .. adr' - 1
        PROVE  mem[a] = ByteAt(a)
    <3>1. rc = 0 /\ Memory(Len(ToChunk)) = ToChunk
      BY <2>6, <1>4
    <3>2. CASE a < adr
      BY <3>1, <3>2, <2>3, <2>6, <1>1
    <3>3. CASE a >= adr
      <4> DEFINE k == a - adr + 1
      <4>1. k \in 1 .. Len(ToChunk) /\ k \in 1 .. Len(buf) /\ adr + k - 1 = a
        BY <3>3, <2>2, <2>3, <2>6, <1>1, <1>4
      <4> HIDE DEF k
      <4>2. Memory(Len(ToChunk))[k] = mem[adr + k - 1]
        BY <4>1 DEF Memory
      <4>3. ToChunk[k] = buf[k] /\ buf[k] = ByteAt(adr + k - 1)
        BY <4>1, <2>2, <1>1
      <4> QED BY <4>1, <4>2, <4>3, <3>1
    <3> QED BY <3>2, <3>3, <2>3, <2>6, <1>1
  <2>7. late' = late /\ stage' = "compare" /\ stage' \in Checks
    BY <1>0, <1>4 DEF InTime, Checks
  <2>8. /\ UNCHANGED <<mem, fifo, writes, at, err, left, out, job, done, result>>
    BY <1>4
  <2>9. adr' + Len(buf') + ToCome' = Stop /\ (ToCome' # 0 => ByteAt(adr' + Len(buf')) = at' + 1)
    BY <2>1, <2>4, <2>8, <1>1
  <2> QED BY <2>3, <2>5, <2>6, <2>7, <2>8, <2>9, <1>0, <1>2, CheckKeeps
<1>5. CASE /\ buf # << >> /\ TimesOut /\ stage' = "checked" /\ rc' = 1 /\ buf' = << >>
           /\ UNCHANGED <<fpga, file, left, out>>
  <2>1. /\ UNCHANGED <<mem, fifo, adr, writes, at, err, left, out, job, done, result>> /\ late' = TRUE
    BY <1>5 DEF TimesOut
  <2>2. buf' \in Seq(Int) /\ Len(buf') \in Nat /\ Len(buf') <= FileBuf /\ stage' \in Checks
    BY <1>1, <1>2, <1>5, EmptySeq DEF Checks
  <2> QED BY <2>1, <2>2, <1>0, <1>1, <1>2, <1>5, CheckKeeps
<1> QED BY <1>3, <1>4, <1>5 DEF CompareChunk

-----------------------------------------------------------------------------
\* The download.

LEMMA FetchIs ==
    ASSUME CallInv, stage = "fetch"
    PROVE  /\ UploadTyped /\ Fitting /\ job.format = "download" /\ fifo = << >>
           /\ job.base \in Nat /\ job.size \in Nat /\ job.base + job.size <= MemSize
           /\ \A a \in 0 .. MemSize - 1 : mem[a] = a + 1
           /\ left \in Nat /\ left <= job.size /\ Len(buf) \in Nat /\ Len(buf) <= left /\ adr \in Nat
           /\ adr = job.base + (job.size - left) + Len(buf) /\ rc = 0
           /\ \A k \in 1 .. Len(buf) : buf[k] = job.base + (job.size - left) + k
           /\ Len(out) \in Nat /\ Len(out) <= CardRoom
           /\ job.size <= CardRoom /\ ~err =>
                 Len(out) = job.size - left /\ \A k \in 1 .. Len(out) : out[k] = job.base + k
<1>1. UploadTyped /\ Belongs /\ KeptOff /\ Storing
  BY DEF CallInv
<1>2. Fitting /\ job.format = "download"
  BY <1>1, InCall DEF Belongs
<1>3. Len(buf) \in Nat /\ Len(out) \in Nat
  BY <1>1, LenProperties DEF UploadTyped
<1>4. fifo = << >> /\ \A a \in 0 .. MemSize - 1 : mem[a] = a + 1
  BY <1>1, <1>2 DEF KeptOff, UploadTyped
<1> QED BY <1>1, <1>2, <1>3, <1>4, FittingIs DEF Storing, UploadTyped

LEMMA DownloadKeeps ==
    ASSUME CallInv, stage = "fetch", stage' \in {"fetch", "stored"},
           UNCHANGED <<job, done, result, mem, fifo, writes, at>>, late' \in BOOLEAN,
           err' \in BOOLEAN,
           adr' \in Nat, adr' <= job.base + job.size, left' \in Nat, rc' \in 0 .. 2,
           buf' \in Seq(Int), Len(buf') <= FileBuf, out' \in Seq(Int), Storing'
    PROVE  CallInv'
<1>1. /\ UploadTyped /\ Fitting /\ job.format = "download" /\ fifo = << >> /\ job.base \in Nat
      /\ job.size \in Nat /\ job.base + job.size <= MemSize
  BY FetchIs
<1>2. UploadTyped'
  <2>1. Fitting'
    BY <1>1, SameCall
  <2>2. Len(fifo') = 0 /\ fifo' \in Seq(Int)
    BY <1>1, EmptySeq
  <2>3. adr' + Len(fifo') <= MemSize
    <3> DEFINE x == adr'
               l == Len(fifo')
    <3>1. x \in Nat /\ x <= job.base + job.size /\ l = 0
      BY <2>2
    <3> HIDE DEF x, l
    <3>2. x + l <= MemSize
      BY <3>1, <1>1, MemoryAssumption
    <3> QED BY <3>2 DEF x, l
  <2>4. Len(fifo') <= MemBuf /\ at' \in 0 .. job'.len /\ stage' \in Stages
    BY <2>2, <1>1, BufferAssumption DEF UploadTyped, Stages
  <2> QED BY <2>1, <2>2, <2>3, <2>4, <1>1 DEF UploadTyped
<1>3. KeptOff'
  <2>1. Len(fifo') = 0
    BY <1>1, EmptySeq
  <2>2. 1 .. Len(fifo') = {}
    BY <2>1
  <2> QED BY <1>1, <2>2 DEF CallInv, KeptOff
<1>4. Belongs' /\ Counted'
  BY <1>1 DEF CallInv, Belongs, Counted, Loads, Checks
<1>5. /\ Idle' /\ Earlier' /\ Uploading' /\ Comparing' /\ Compared' /\ Swizzling' /\ Sending'
      /\ Returned'
  BY <1>1 DEF Idle, Earlier, AtWork, Uploading, Comparing, Compared, Swizzling, Sending, Returned,
     Loads, Checks
<1>6. NoneWrong'
  BY <1>1 DEF NoneWrong
<1> QED BY <1>2, <1>3, <1>4, <1>5, <1>6 DEF CallInv

LEMMA FetchKeeps ==
    ASSUME CallInv, FetchChunk, UNCHANGED call
    PROVE  CallInv'
<1> USE DEF call, fpga, xfer, file
<1> DEFINE want == Less(FileBuf, left)
           n == Less(MemBuf, want - Len(buf))
<1>0. stage = "fetch"
  BY DEF FetchChunk
<1>1. /\ UploadTyped /\ Fitting /\ job.format = "download" /\ fifo = << >> /\ Len(<< >>) = 0
      /\ job.base \in Nat /\ job.size \in Nat /\ job.base + job.size <= MemSize
      /\ \A a \in 0 .. MemSize - 1 : mem[a] = a + 1
      /\ left \in Nat /\ left <= job.size /\ Len(buf) \in Nat /\ Len(buf) <= left /\ adr \in Nat
      /\ adr = job.base + (job.size - left) + Len(buf) /\ rc = 0
      /\ \A k \in 1 .. Len(buf) : buf[k] = job.base + (job.size - left) + k
      /\ Len(out) \in Nat /\ Len(out) <= CardRoom
      /\ job.size <= CardRoom /\ ~err =>
            Len(out) = job.size - left /\ \A k \in 1 .. Len(out) : out[k] = job.base + k
  BY <1>0, FetchIs, EmptySeq
<1>2. late \in BOOLEAN /\ err \in BOOLEAN /\ buf \in Seq(Int) /\ Len(buf) <= FileBuf /\ out \in Seq(Int)
      /\ MemSize \in Nat /\ FileBuf \in Nat
  BY <1>1, MemoryAssumption, BufferAssumption DEF UploadTyped
<1>3. adr <= job.base + job.size
  BY <1>1
<1>4. CASE left = 0 /\ stage' = "stored" /\ UNCHANGED <<fpga, xfer, late>>
  <2>1. UNCHANGED <<mem, fifo, adr, writes, at, err, left, buf, rc, out, late>>
    BY <1>4
  <2>2. Storing'
    BY <2>1, <1>1, <1>3, <1>4 DEF Storing
  <2> QED BY <2>1, <2>2, <1>0, <1>1, <1>2, <1>3, <1>4, DownloadKeeps
<1>5. CASE /\ n > 0 /\ InTime
           /\ buf' = buf \o Memory(n) /\ adr' = adr + n
           /\ UNCHANGED <<mem, fifo, writes, stage, file, left, rc, out>>
  <2>1. n \in Nat /\ Len(buf) + n <= want /\ want <= left /\ want <= FileBuf /\ want \in Nat
    <3>1. want \in Nat /\ want <= left /\ want <= FileBuf
      BY <1>1, <1>2, LessIs
    <3> HIDE DEF want
    <3>2. MemBuf \in Nat
      BY BufferAssumption
    <3> QED BY <3>1, <3>2, <1>1, <1>5 DEF Less
  <2> HIDE DEF n, want
  <2>0. n \in Nat /\ adr \in Nat /\ MemSize \in Nat /\ adr + n <= MemSize
    <3> DEFINE b == job.base
               s == job.size
               l == Len(buf)
    <3>1. b \in Nat /\ s \in Nat /\ l \in Nat /\ left \in Nat /\ left <= s /\ b + s <= MemSize
          /\ adr = b + (s - left) + l /\ adr \in Nat /\ n \in Nat /\ MemSize \in Nat /\ l + n <= want
          /\ want <= left /\ want \in Nat
      BY <2>1, <1>1, <1>2
    <3> HIDE DEF b, s, l
    <3> QED BY ONLY <3>1
  <2>2. /\ Memory(n) \in Seq(Int) /\ Len(Memory(n)) = n
        /\ \A k \in 1 .. n : Memory(n)[k] = adr + k
    <3>1. \A k \in 1 .. n : mem[adr + k - 1] = adr + k
      <4> SUFFICES ASSUME NEW k \in 1 .. n PROVE mem[adr + k - 1] = adr + k
        OBVIOUS
      <4>1. k \in Nat /\ 1 <= k /\ adr + k <= MemSize
        BY <2>1, <2>0
      <4>2. adr + k - 1 \in 0 .. MemSize - 1 /\ (adr + k - 1) + 1 = adr + k
        BY ONLY <4>1, <2>0
      <4> QED BY <4>2, <1>1
    <3>2. \A k \in 1 .. n : adr + k \in Int
      BY <1>1, <2>1
    <3>3. Memory(n) = [k \in 1 .. n |-> adr + k]
      BY <3>1 DEF Memory
    <3>4. [k \in 1 .. n |-> adr + k] = Bytes(adr, n)
      BY DEF Bytes
    <3> QED BY <3>3, <3>4, <2>0, <2>1, BytesAre
  <2>3. /\ buf' \in Seq(Int) /\ Len(buf') = Len(buf) + n
        /\ \A k \in 1 .. Len(buf) + n :
              buf'[k] = IF k <= Len(buf) THEN buf[k] ELSE Memory(n)[k - Len(buf)]
    <3> DEFINE m == Memory(n)
    <3>1. m \in Seq(Int) /\ Len(m) = n /\ buf \in Seq(Int) /\ buf' = buf \o m
      BY <2>2, <1>2, <1>5
    <3> HIDE DEF m
    <3>2. /\ buf \o m \in Seq(Int) /\ Len(buf \o m) = Len(buf) + Len(m)
          /\ \A k \in 1 .. Len(buf) + Len(m) :
                (buf \o m)[k] = IF k <= Len(buf) THEN buf[k] ELSE m[k - Len(buf)]
      BY ONLY <3>1, ConcatProperties
    <3>3. /\ buf' \in Seq(Int) /\ Len(buf') = Len(buf) + n
          /\ \A k \in 1 .. Len(buf) + n :
                buf'[k] = IF k <= Len(buf) THEN buf[k] ELSE m[k - Len(buf)]
      BY ONLY <3>1, <3>2
    <3> QED BY <3>3 DEF m
  <2>4. \A k \in 1 .. Len(buf') : buf'[k] = job.base + (job.size - left) + k
    <3> SUFFICES ASSUME NEW k \in 1 .. Len(buf) + n
                 PROVE  buf'[k] = job.base + (job.size - left) + k
      BY <2>3
    <3>0. k \in Nat /\ k >= 1
      BY <2>1, <1>1
    <3>1. CASE k <= Len(buf)
      <4>1. k \in 1 .. Len(buf)
        BY <3>0, <3>1, <1>1
      <4>2. buf[k] = job.base + (job.size - left) + k
        BY <4>1, <1>1
      <4> QED BY <4>2, <3>1, <2>3
    <3>2. CASE k > Len(buf)
      <4>1. k - Len(buf) \in 1 .. n /\ ~(k <= Len(buf))
            /\ adr + (k - Len(buf)) = job.base + (job.size - left) + k
        <5> DEFINE b == job.base
                   s == job.size
                   l == Len(buf)
        <5>1. b \in Nat /\ s \in Nat /\ l \in Nat /\ left \in Nat /\ n \in Nat /\ k \in Nat
              /\ adr = b + (s - left) + l /\ k > l /\ k \in 1 .. l + n
          BY <3>0, <3>2, <2>1, <1>1
        <5> HIDE DEF b, s, l
        <5>2. k - l \in 1 .. n /\ ~(k <= l) /\ adr + (k - l) = b + (s - left) + k
          BY ONLY <5>1
        <5> QED BY <5>2 DEF b, s, l
      <4>2. Memory(n)[k - Len(buf)] = adr + (k - Len(buf))
        BY <4>1, <2>2
      <4> QED BY <4>1, <4>2, <2>3
    <3> QED BY <3>1, <3>2, <2>1, <1>1
  <2>5. adr' = job.base + (job.size - left) + Len(buf') /\ Len(buf') <= left /\ Len(buf') <= FileBuf
        /\ adr' \in Nat /\ adr' <= job.base + job.size
    <3> DEFINE b == job.base
               s == job.size
               l == Len(buf)
               m == Len(buf')
               x == adr'
    <3>1. b \in Nat /\ s \in Nat /\ l \in Nat /\ left \in Nat /\ left <= s /\ m = l + n
          /\ adr = b + (s - left) + l /\ adr \in Nat /\ n \in Nat /\ l + n <= want
          /\ want <= left /\ want <= FileBuf /\ want \in Nat /\ FileBuf \in Nat /\ x = adr + n
      BY <2>1, <2>3, <1>1, <1>2, <1>5
    <3> HIDE DEF b, s, l, m, x
    <3>2. x = b + (s - left) + m /\ m <= left /\ m <= FileBuf /\ x \in Nat /\ x <= b + s
      BY ONLY <3>1
    <3> QED BY <3>2 DEF b, s, m, x
  <2>6. late' = late
    BY <1>5 DEF InTime
  <2>7. UNCHANGED <<job, done, result, mem, fifo, writes, stage, at, err, left, rc, out>>
    BY <1>5
  <2>8. Storing'
    BY <2>4, <2>5, <2>6, <2>7, <1>0, <1>1 DEF Storing
  <2>9. left' \in Nat /\ rc' \in 0 .. 2 /\ out' \in Seq(Int) /\ late' \in BOOLEAN /\ err' \in BOOLEAN
        /\ stage' \in {"fetch", "stored"}
    BY <2>6, <2>7, <1>0, <1>1, <1>2
  <2> QED BY <2>3, <2>5, <2>7, <2>8, <2>9, <1>0, DownloadKeeps
<1>6. CASE /\ n > 0 /\ TimesOut /\ stage' = "stored" /\ rc' = 1 /\ buf' = << >>
           /\ UNCHANGED <<fpga, file, left, out>>
  <2>1. UNCHANGED <<mem, fifo, adr, writes, at, err, left, out>> /\ late' = TRUE
    BY <1>6 DEF TimesOut
  <2>2. Storing'
    BY <2>1, <1>1, <1>3, <1>6 DEF Storing
  <2>3. buf' \in Seq(Int) /\ Len(buf') <= FileBuf
    BY <1>1, <1>2, <1>6, EmptySeq
  <2> QED BY <2>1, <2>2, <2>3, <1>0, <1>1, <1>2, <1>3, <1>6, DownloadKeeps
<1> QED BY <1>4, <1>5, <1>6 DEF FetchChunk

LEMMA StoreKeeps ==
    ASSUME CallInv, StoreBuffer, UNCHANGED call
    PROVE  CallInv'
<1> USE DEF call, fpga
<1> DEFINE all == Less(Len(buf), CardRoom - Len(out))
<1>0. /\ stage = "fetch" /\ left # 0 /\ Len(buf) = Less(FileBuf, left) /\ buf' = << >>
      /\ UNCHANGED <<mem, fifo, adr, writes, at, rc, late, job, done, result>>
  BY DEF StoreBuffer
<1>1. /\ UploadTyped /\ Fitting /\ job.format = "download" /\ fifo = << >> /\ Len(<< >>) = 0
      /\ job.base \in Nat /\ job.size \in Nat /\ job.base + job.size <= MemSize
      /\ left \in Nat /\ left <= job.size /\ Len(buf) \in Nat /\ Len(buf) <= left /\ adr \in Nat
      /\ adr = job.base + (job.size - left) + Len(buf) /\ rc = 0
      /\ \A k \in 1 .. Len(buf) : buf[k] = job.base + (job.size - left) + k
      /\ Len(out) \in Nat /\ Len(out) <= CardRoom
      /\ job.size <= CardRoom /\ ~err =>
            Len(out) = job.size - left /\ \A k \in 1 .. Len(out) : out[k] = job.base + k
  BY <1>0, FetchIs, EmptySeq
<1>2. late \in BOOLEAN /\ err \in BOOLEAN /\ buf \in Seq(Int) /\ out \in Seq(Int)
      /\ CardRoom \in Nat /\ FileBuf \in Nat \ {0}
  BY <1>1, MemoryAssumption, BufferAssumption DEF UploadTyped
<1>3. adr <= job.base + job.size /\ Len(buf) > 0
  <2>1. PICK l : l = Len(buf)
    OBVIOUS
  <2>2. left \in Nat \ {0} /\ l = Less(FileBuf, left)
    BY <1>0, <1>1, <2>1
  <2>3. l = FileBuf \/ l = left
    BY <2>2 DEF Less
  <2>4. l \in Nat /\ l > 0
    BY <1>2, <2>2, <2>3
  <2>5. job.base \in Nat /\ job.size \in Nat /\ l <= left /\ left <= job.size
        /\ adr = job.base + (job.size - left) + l
    BY <1>1, <2>1
  <2>6. adr <= job.base + job.size
    BY <2>2, <2>4, <2>5
  <2> QED BY <2>1, <2>4, <2>6
<1>10. PICK n \in 0 .. Len(buf) :
          /\ Access(n, all)
          /\ IF n = 0 THEN stage' = "stored" /\ UNCHANGED <<out, left>>
             ELSE /\ out' = out \o SubSeq(buf, 1, n) /\ left' = left - Len(buf)
                  /\ UNCHANGED stage
  BY DEF StoreBuffer
<1>11. all \in Nat /\ all <= Len(buf) /\ Len(out) + all <= CardRoom
       /\ (job.size <= CardRoom /\ ~err => all = Len(buf))
  BY <1>1, <1>2, SMTT(30) DEF Less
<1>4. n \in Nat /\ n <= Len(buf) /\ Len(out) + n <= CardRoom /\ err' \in BOOLEAN
      /\ (~err' => ~err /\ (job.size <= CardRoom => n = Len(buf)))
  <2> HIDE DEF all
  <2>1. CASE err /\ n = 0 /\ UNCHANGED err
    BY <2>1, <1>1, <1>2
  <2>2. CASE ~err /\ n = all /\ UNCHANGED err
    BY <2>2, <1>1, <1>2, <1>11
  <2>3. CASE ~err /\ CardFails /\ n < all /\ err' = TRUE
    <3>1. err' \in BOOLEAN
      BY <2>3, Zenon
    <3> QED BY <3>1, <2>3, <1>1, <1>2, <1>11
  <2> QED BY <2>1, <2>2, <2>3, <1>10 DEF Access
<1> HIDE DEF all
<1>5. /\ late' \in BOOLEAN /\ rc' \in 0 .. 2 /\ buf' \in Seq(Int) /\ Len(buf') <= FileBuf
      /\ adr' \in Nat /\ adr' <= job.base + job.size
      /\ UNCHANGED <<job, done, result, mem, fifo, writes, at>>
  BY <1>0, <1>1, <1>2, <1>3, EmptySeq
<1>6. CASE n = 0
  <2>1. stage' = "stored" /\ UNCHANGED <<out, left>>
    BY <1>6, <1>10
  <2>2. err' \/ ~(job.size <= CardRoom)
    BY <1>3, <1>4, <1>6
  <2>3. Storing'
    BY <2>1, <2>2, <1>0, <1>1, <1>3 DEF Storing
  <2> QED BY <2>1, <2>3, <1>0, <1>1, <1>2, <1>4, <1>5, DownloadKeeps
<1>7. CASE n # 0
  <2>1. /\ out' = out \o SubSeq(buf, 1, n) /\ left' = left - Len(buf) /\ stage' = "fetch"
    BY <1>0, <1>7, <1>10
  <2>2. /\ SubSeq(buf, 1, n) \in Seq(Int) /\ Len(SubSeq(buf, 1, n)) = n
        /\ \A k \in 1 .. n : SubSeq(buf, 1, n)[k] = buf[k]
    <3>1. \A k \in 1 .. n : buf[k] \in Int
      BY <1>1, <1>2, <1>4, ElementOfSeq
    <3>2. 1 \in Int /\ n \in Int
      BY <1>4
    <3>3. /\ SubSeq(buf, 1, n) \in Seq(Int) /\ Len(SubSeq(buf, 1, n)) = IF 1 <= n THEN n - 1 + 1 ELSE 0
          /\ \A k \in 1 .. n - 1 + 1 : SubSeq(buf, 1, n)[k] = buf[1 + k - 1]
      BY ONLY <3>1, <3>2, SubSeqProperties
    <3> QED BY <3>3, <1>4
  <2>3. /\ out' \in Seq(Int) /\ Len(out') = Len(out) + n
        /\ \A k \in 1 .. Len(out) + n :
              out'[k] = IF k <= Len(out) THEN out[k] ELSE SubSeq(buf, 1, n)[k - Len(out)]
    BY <2>1, <2>2, <1>2, ConcatProperties, SMTT(30)
  <2>4. ASSUME job.size <= CardRoom, ~err'
        PROVE  Len(out') = job.size - left' /\ \A k \in 1 .. Len(out') : out'[k] = job.base + k
    <3>1. n = Len(buf) /\ Len(out) = job.size - left
          /\ \A k \in 1 .. Len(out) : out[k] = job.base + k
      BY <2>4, <1>1, <1>4
    <3>2. Len(out') = job.size - left'
      <4> DEFINE s == job.size
                 l == Len(buf)
                 m == Len(out)
                 w == Len(out')
                 t == left'
      <4>1. s \in Nat /\ l \in Nat /\ m \in Nat /\ left \in Nat /\ m = s - left /\ t = left - l
            /\ w = m + l
        BY <3>1, <2>1, <2>3, <1>1
      <4> HIDE DEF s, l, m, w, t
      <4>2. w = s - t
        BY ONLY <4>1
      <4> QED BY <4>2 DEF w, s, t
    <3>3. ASSUME NEW k \in 1 .. Len(out) + n
          PROVE  out'[k] = job.base + k
      <4>0. k \in Nat /\ k >= 1
        BY <3>3, <1>1, <1>4
      <4>1. CASE k <= Len(out)
        <5>1. k \in 1 .. Len(out)
          BY <4>0, <4>1, <1>1
        <5>2. out[k] = job.base + k
          BY <5>1, <3>1
        <5> QED BY <5>2, <4>1, <3>3, <2>3
      <4>2. CASE k > Len(out)
        <5>1. k - Len(out) \in 1 .. n /\ ~(k <= Len(out))
              /\ job.base + (job.size - left) + (k - Len(out)) = job.base + k
          <6> DEFINE b == job.base
                     s == job.size
                     m == Len(out)
          <6>1. b \in Nat /\ s \in Nat /\ m \in Nat /\ left \in Nat /\ n \in Nat /\ k \in Nat
                /\ m = s - left /\ k > m /\ k \in 1 .. m + n
            BY <4>0, <4>2, <3>1, <3>3, <1>1, <1>4
          <6> HIDE DEF b, s, m
          <6>2. k - m \in 1 .. n /\ ~(k <= m) /\ b + (s - left) + (k - m) = b + k
            BY ONLY <6>1
          <6> QED BY <6>2 DEF b, s, m
        <5>2. buf[k - Len(out)] = job.base + (job.size - left) + (k - Len(out))
          BY <5>1, <3>1, <1>1
        <5> QED BY <5>1, <5>2, <2>2, <2>3, <3>3
      <4> QED BY <4>1, <4>2, <3>3, <1>1, <1>4
    <3> QED BY <3>2, <3>3, <2>3
  <2>5. /\ left' \in Nat /\ left' <= job.size /\ Len(buf') = 0 /\ 0 <= left'
        /\ adr = job.base + (job.size - left') + 0 /\ Len(out') <= CardRoom
    <3> DEFINE b == job.base
               s == job.size
               l == Len(buf)
               t == left'
               w == Len(out')
    <3>1. b \in Nat /\ s \in Nat /\ l \in Nat /\ left \in Nat /\ left <= s /\ l <= left
          /\ adr = b + (s - left) + l /\ t = left - l
      BY <2>1, <1>1
    <3>2. w <= CardRoom /\ Len(buf') = 0
      BY <2>3, <1>0, <1>1, <1>4
    <3> HIDE DEF b, s, l, t, w
    <3>3. t \in Nat /\ t <= s /\ 0 <= t /\ adr = b + (s - t) + 0
      BY ONLY <3>1
    <3> QED BY <3>2, <3>3 DEF b, s, t, w
  <2>6. Storing'
    <3>1. \A k \in 1 .. Len(buf') : FALSE
      BY <2>5
    <3>2. job' = job /\ adr' = adr /\ rc' = 0
      BY <1>0, <1>1
    <3> QED BY <3>1, <3>2, <2>1, <2>4, <2>5 DEF Storing
  <2> QED BY <2>1, <2>3, <2>5, <2>6, <1>0, <1>4, <1>5, DownloadKeeps
<1> QED BY <1>6, <1>7

-----------------------------------------------------------------------------
\* A call begins and ends.

\* The size of a call is the size it was given, or that of its file.
LEMMA Begun ==
    ASSUME NEW j, JobFits(j),
           j.format \in {"plain", "prg", "crt", "swizzle", "data", "download"},
           job' = [j EXCEPT !.size = AutoSize(j)]
    PROVE  /\ Fitting' /\ job'.format = j.format /\ job'.base \in Nat /\ job'.size \in Nat
           /\ job'.len \in Nat
<1> DEFINE s == AutoSize(j)
           h == [j EXCEPT !.size = s]
<1>1. j \in [format : {j.format}, base : Nat, size : Nat, len : Nat,
             verify : BOOLEAN, spec : {j.spec}]
  BY DEF JobFits
<1>2. s \in Nat
  BY <1>1 DEF AutoSize, Body
<1>3. /\ h \in [format : {j.format}, base : Nat, size : Nat, len : Nat,
                verify : BOOLEAN, spec : {j.spec}]
      /\ h.format = j.format /\ h.base = j.base /\ h.size = s /\ h.len = j.len /\ h.spec = j.spec
  BY <1>1, <1>2
<1>4. s = IF j.size # 0 THEN j.size
          ELSE IF j.format = "plain" THEN j.len ELSE IF j.format = "prg" THEN Body(j) ELSE 0
  BY DEF AutoSize
<1> HIDE DEF s, h
<1>5. Body(h) = Body(j)
  BY <1>3 DEF Body
<1>6. AutoSize(h) = s
  BY <1>1, <1>3, <1>4, <1>5 DEF AutoSize
<1>7. h \in [format : {h.format}, base : Nat, size : Nat, len : Nat,
             verify : BOOLEAN, spec : {h.spec}]
  BY <1>3
<1>8. JobFits(h)
  BY <1>3, <1>5, <1>6, <1>7 DEF JobFits, s
<1>9. job' = h
  BY DEF h, s
<1> QED BY <1>1, <1>2, <1>3, <1>6, <1>8, <1>9 DEF Fitting

LEMMA ShapeIs ==
    Fitting => /\ job.format = "plain" /\ job.size # 0 => job.len # 0
               /\ job.format = "crt" =>
                     job.spec \in Seq([good : BOOLEAN, start : Nat, size : Nat, from : Nat])
               /\ job.format = "swizzle" =>
                     job.spec \in Seq(Int) /\ Consume \in Nat \ {0}
<1>1. job.spec \in Seq(Int) => Consume \in Nat
  BY TakenIs DEF Consume
<1> QED BY <1>1, FittingIs

LEMMA ExpectedWithin ==
    Fitting => /\ job.format = "plain" => DOMAIN Expected \subseteq 0 .. MemSize - 1
               /\ job.format = "prg" => DOMAIN Expected \subseteq 0 .. MemSize - 1
<1> SUFFICES ASSUME Fitting, job.format \in {"plain", "prg"}
             PROVE  DOMAIN Expected \subseteq 0 .. MemSize - 1
  OBVIOUS
<1>1. job.base \in Nat /\ job.size \in Nat /\ job.len \in Nat /\ MemSize \in Nat
  BY FittingIs, MemoryAssumption
<1>2. CASE job.format = "plain"
  BY <1>1, <1>2, FittingIs, ExpectedWhere
<1>3. CASE job.format = "prg"
  <2> DEFINE l == Less(job.size, Body(job))
  <2>1. job.spec \in Nat /\ job.base + job.spec + l <= MemSize
        /\ DOMAIN Expected = job.base + job.spec .. job.base + job.spec + l - 1 /\ l \in Nat
    BY <1>1, <1>3, FittingIs, ExpectedWhere DEF Less, Body
  <2> HIDE DEF l
  <2> QED BY <1>1, <2>1
<1> QED BY <1>2, <1>3

LEMMA BeginKeeps ==
    ASSUME CallInv, NEW j, JobFits(j),
           j.format \in {"plain", "prg", "crt", "swizzle", "data", "download"}, Begin(j)
    PROVE  CallInv'
<1> USE DEF xfer, file
<1>1. /\ UploadTyped /\ fifo = << >> /\ adr = 0 /\ writes /\ at = 0 /\ left = 0 /\ buf = << >>
      /\ rc = 0 /\ out = << >> /\ ~late /\ ~err
  BY DEF CallInv, Idle, Begin
<1>2. /\ \/ stage' = j.format /\ ~err'
         \/ stage' = "return" /\ opened' = 0
      /\ err' \in BOOLEAN
      /\ job' = [j EXCEPT !.size = AutoSize(j)] /\ done' = 0 /\ result' = 1
      /\ mem' = [a \in DOMAIN mem |-> IF j.format = "download" THEN a + 1 ELSE Old]
      /\ UNCHANGED <<fifo, adr, writes, at, left, buf, rc, out, late>>
  <2>1. CASE stage' = j.format /\ UNCHANGED err
    BY <2>1, <1>1 DEF Begin, UploadTyped
  <2>2. CASE stage' = "return" /\ opened' = 0 /\ err' = TRUE
    <3>1. err' \in BOOLEAN
      BY <2>2, Zenon
    <3> QED BY <3>1, <2>2 DEF Begin
  <2> QED BY <2>1, <2>2 DEF Begin
<1>3. /\ Fitting' /\ job'.format = j.format /\ job'.base \in Nat /\ job'.size \in Nat
      /\ job'.len \in Nat
  BY <1>2, Begun
<1>4. (Fitting => /\ job.format = "plain" /\ job.size # 0 => job.len # 0
                  /\ job.format = "crt" =>
                         job.spec \in Seq([good : BOOLEAN, start : Nat, size : Nat, from : Nat])
                  /\ job.format = "swizzle" =>
                         job.spec \in Seq(Int) /\ Consume \in Nat \ {0})'
  BY ShapeIs, PTL
<1>5. /\ mem \in [0 .. MemSize - 1 -> Int] /\ MemSize \in Nat /\ DOMAIN mem' = DOMAIN mem
      /\ mem' \in [0 .. MemSize - 1 -> Int]
      /\ j.format # "download" => \A a \in DOMAIN mem : mem'[a] = Old
      /\ j.format = "download" => \A a \in DOMAIN mem : mem'[a] = a + 1
  BY <1>1, <1>2, MemoryAssumption DEF UploadTyped, Old
<1>6. UploadTyped'
  BY <1>1, <1>2, <1>3, <1>5 DEF UploadTyped, Stages
<1>7. Len(fifo') = 0 /\ 1 .. Len(fifo') = {}
  BY <1>1, <1>2, EmptySeq
<1>8. KeptOff'
  BY <1>1, <1>2, <1>3, <1>5, <1>7 DEF KeptOff
<1>9. Idle' /\ Belongs'
  BY <1>2, <1>3 DEF Idle, Belongs, Loads, Checks
<1>10. Counted'
  <2>1. job'.format = "crt" => Len(job'.spec) \in Nat
    BY <1>3, <1>4, LenProperties
  <2>2. job'.format = "plain" => done' <= job'.size /\ (done' = job'.size \/ done' % job'.len = 0)
    <3> SUFFICES ASSUME job'.format = "plain", job'.size # 0 PROVE 0 % job'.len = 0
      BY <1>2, <1>3
    <3>1. job'.len \in Nat \ {0}
      BY <1>3, <1>4
    <3> QED BY <3>1
  <2> QED BY <2>1, <2>2, <1>2, <1>3 DEF Counted, Loads, Checks, AtWork
<1>11. Earlier'
  BY <1>1, <1>2, <1>3 DEF Earlier, AtWork, Loads, Checks
<1>12. Swizzling'
  <2> SUFFICES ASSUME stage' = "swizzle" PROVE Swizzling'
    BY <1>2 DEF Swizzling
  <2>1. Consume' \in Nat \ {0}
    BY <1>2, <1>3, <1>4
  <2>2. Turns' = 0 /\ done' % Consume' = 0
    <3> DEFINE c == Consume'
    <3>1. c \in Nat \ {0}
      BY <2>1
    <3> HIDE DEF c
    <3>2. 0 \div c = 0 /\ 0 % c = 0
      BY ONLY <3>1
    <3> QED BY <3>2, <1>2 DEF Turns, c
  <2>3. Width' \in Nat
    BY <1>2, <1>3, <1>4, LenProperties DEF Width
  <2>4. job'.base + Turns' * Width' = job'.base
    BY <2>2, <2>3, <1>3
  <2>5. j.format # "download" /\ \A k \in 1 .. Len(fifo') : FALSE
    BY <1>2, <1>7
  <2> QED BY <2>2, <2>4, <2>5, <1>1, <1>2, <1>3, <1>5 DEF Swizzling
<1>13. Uploading' /\ Comparing' /\ Compared' /\ Storing' /\ Returned'
  BY <1>2 DEF Uploading, Comparing, Compared, Storing, Returned, Loads
<1>14. Sending'
  BY <1>2 DEF Sending
<1>15. NoneWrong'
  <2> SUFFICES ASSUME job'.format \in {"plain", "prg"}, NEW a \in DOMAIN Expected'
               PROVE  mem'[a] = Old
    BY <1>1, <1>2 DEF NoneWrong
  <2>1. (Fitting => /\ job.format = "plain" => DOMAIN Expected \subseteq 0 .. MemSize - 1
                    /\ job.format = "prg" => DOMAIN Expected \subseteq 0 .. MemSize - 1)'
    BY ExpectedWithin, PTL
  <2> QED BY <2>1, <1>2, <1>3, <1>5
<1> QED BY <1>6, <1>8, <1>9, <1>10, <1>11, <1>12, <1>13, <1>14, <1>15 DEF CallInv

LEMMA EndKeeps ==
    ASSUME CallInv, End
    PROVE  CallInv'
<1>1. UploadTyped /\ opened = 0
  BY DEF CallInv, Returned, End
<1>2. /\ stage' = "idle" /\ mem' = [a \in DOMAIN mem |-> Old] /\ fifo' = << >> /\ adr' = 0 /\ writes'
      /\ at' = 0 /\ left' = 0 /\ buf' = << >> /\ rc' = 0 /\ out' = << >> /\ ~late' /\ late' \in BOOLEAN
      /\ ~err' /\ err' \in BOOLEAN
      /\ writes' \in BOOLEAN /\ job' = NoJob /\ done' = 0 /\ result' = 0 /\ opened' = opened
  BY DEF End
<1>3. Len(<< >>) = 0 /\ << >> \in Seq(Int) /\ MemSize \in Nat /\ MemBuf \in Nat /\ FileBuf \in Nat
  BY EmptySeq, MemoryAssumption, BufferAssumption
<1>4. job'.format = "none" /\ job'.len = 0
  BY <1>2 DEF NoJob
<1>5. mem' \in [0 .. MemSize - 1 -> Int] /\ \A a \in DOMAIN mem' : mem'[a] = Old
  BY <1>1, <1>2 DEF UploadTyped, Old
<1>6. UploadTyped'
  BY <1>2, <1>3, <1>4, <1>5 DEF UploadTyped, Stages
<1>7. KeptOff'
  BY <1>2, <1>3, <1>4, <1>5 DEF KeptOff
<1>8. Idle' /\ Belongs' /\ Counted' /\ Earlier'
  BY <1>1, <1>2, <1>4, <1>5 DEF Idle, Belongs, Counted, Earlier, Loads, Checks
<1>9. Uploading' /\ Comparing' /\ Compared' /\ Swizzling' /\ Sending' /\ Storing' /\ Returned'
  BY <1>2 DEF Uploading, Comparing, Compared, Swizzling, Sending, Storing, Returned, Loads
<1>10. NoneWrong'
  BY <1>4 DEF NoneWrong
<1> QED BY <1>6, <1>7, <1>8, <1>9, <1>10 DEF CallInv

\* A call that returns without an error has done its job.
LEMMA ClosingKeeps ==
    ASSUME CallInv, stage \notin Loads \cup {"idle"}, stage' = "return", opened' = 0,
           UNCHANGED <<job, done, fpga, at, left, buf, rc>>, late' \in BOOLEAN, late => late',
           err' \in BOOLEAN, out' \in Seq(Int),
           result' \in 0 .. 1, job.format = "crt" => result' = 1,
           result' = 0 /\ err' => job.format \notin {"swizzle", "data"},
           result' = 0 /\ ~err' /\ (~late' \/ (job.verify /\ job.format \in {"plain", "prg"})) =>
               /\ fifo = << >>
               /\ \A a \in DOMAIN Expected : mem[a] = Expected[a]
               /\ job.format = "download" /\ job.size <= CardRoom =>
                     out' = [k \in 1 .. job.size |-> job.base + k]
    PROVE  CallInv'
<1>1. UploadTyped /\ KeptOff /\ Belongs /\ Counted /\ NoneWrong
  BY DEF CallInv
<1>2. UNCHANGED <<mem, fifo, adr, writes, at, left, buf, rc, job, done>>
  BY DEF fpga
<1>3. Expected' = Expected /\ Fitting' = Fitting
  BY <1>2, SameCall
<1>4. UploadTyped'
  <2>1. stage' \in Stages /\ at' \in 0 .. job'.len
    BY <1>1, <1>2 DEF Stages, UploadTyped
  <2>2. (job = NoJob \/ Fitting)'
    BY <1>1, <1>2, <1>3 DEF UploadTyped
  <2> QED BY <2>1, <2>2, <1>1, <1>2 DEF UploadTyped
<1>5. KeptOff'
  BY <1>1, <1>2, <1>3 DEF KeptOff
<1>6. Idle' /\ Belongs' /\ Earlier'
  BY <1>1, <1>2 DEF Idle, Belongs, Earlier, AtWork, Loads, Checks
<1>7. Counted'
  BY <1>1, <1>2 DEF Counted, AtWork, Loads, Checks
<1>8. Uploading' /\ Comparing' /\ Compared' /\ Swizzling' /\ Sending' /\ Storing'
  BY DEF Uploading, Comparing, Compared, Swizzling, Sending, Storing, Loads
<1>9. Returned'
  BY <1>2, <1>3 DEF Returned
<1>10. NoneWrong'
  BY <1>1, <1>2, NoneStays DEF NoneWrong
<1> QED BY <1>4, <1>5, <1>6, <1>7, <1>8, <1>9, <1>10 DEF CallInv

LEMMA ReturnKeeps ==
    ASSUME CallInv, stage \notin Loads \cup {"idle", "return"}, stage' = "return", opened' = 0,
           UNCHANGED <<job, done, fpga, xfer>>, late' \in BOOLEAN, late => late',
           result' \in 0 .. 1, job.format = "crt" => result' = 1,
           result' = 0 /\ ~err /\ (~late' \/ (job.verify /\ job.format \in {"plain", "prg"})) =>
               /\ fifo = << >>
               /\ \A a \in DOMAIN Expected : mem[a] = Expected[a]
               /\ job.format = "download" /\ job.size <= CardRoom =>
                     out = [k \in 1 .. job.size |-> job.base + k]
    PROVE  CallInv'
<1>1. UploadTyped /\ Belongs
  BY DEF CallInv
<1>2. UNCHANGED <<at, err, left, buf, rc, out>>
  BY DEF xfer, file
<1>3. err' \in BOOLEAN /\ out' \in Seq(Int)
  BY <1>1, <1>2 DEF UploadTyped
<1>4. err' => job.format \notin {"swizzle", "data"}
  BY <1>1, <1>2 DEF UploadTyped, Belongs, Stages, Checks
<1> QED BY <1>2, <1>3, <1>4, ClosingKeeps

\* What was to be read is not there.
LEMMA UnreadKeeps ==
    ASSUME CallInv, ReadFails, stage \notin Loads \cup {"idle"}
    PROVE  CallInv'
<1>1. /\ stage' = "return" /\ opened' = 0 /\ result' = 1 /\ err' = TRUE
      /\ UNCHANGED <<job, done, fpga, at, left, buf, rc, out, late>>
  BY DEF ReadFails, Return
<1>2. out' \in Seq(Int) /\ late' \in BOOLEAN
  BY <1>1 DEF CallInv, UploadTyped
<1>3. err' \in BOOLEAN
  BY <1>1, Zenon
<1> QED BY <1>1, <1>2, <1>3, ClosingKeeps

-----------------------------------------------------------------------------
\* Transfers begin.

LEMMA LoadBegins ==
    ASSUME CallInv, stage \in {"plain", "prg", "crt"}, NEW base, NEW size, NEW skip \in Nat,
           FileToMem(base, size, skip, job.len), UNCHANGED <<job, result>>, done' \in Nat,
           job.format = "plain" => done' = done,
           Belongs', Counted', Origin' = base, From' = Less(skip, job.len), Wanted' = size
    PROVE  CallInv'
<1>1. /\ UploadTyped /\ KeptOff /\ Earlier /\ Fitting
  BY InCall DEF CallInv
<1>2. /\ stage' = "read" /\ adr' = base /\ writes' = TRUE /\ fifo' = << >> /\ buf' = << >> /\ rc' = 0
      /\ at' = Less(skip, job.len) /\ left' = size
      /\ UNCHANGED <<mem, err, out, late, job, result>>
  BY DEF FileToMem, SetAddress
<1>3. Expected' = Expected /\ Fitting' = Fitting
  BY <1>2 DEF Expected, Fitting
<1>4. (/\ Fitting /\ job.len \in Nat
       /\ Origin \in Nat /\ From \in 0 .. job.len /\ Wanted \in Nat /\ Stop \in Nat
       /\ Origin <= Stop /\ Stop <= MemSize
       /\ Stop = Origin + Less(Wanted, job.len - From))'
  <2>1. (Fitting /\ done \in Nat /\ Belongs /\ Counted /\ stage \in Loads \cup Checks)'
    BY <1>1, <1>2, <1>3 DEF Loads
  <2>2. (Fitting /\ done \in Nat /\ Belongs /\ Counted /\ stage \in Loads \cup Checks =>
           /\ Fitting /\ job.len \in Nat
           /\ Origin \in Nat /\ From \in 0 .. job.len /\ Wanted \in Nat /\ Stop \in Nat
           /\ Origin <= Stop /\ Stop <= MemSize
           /\ \A a \in Origin .. Stop - 1 : a \in DOMAIN Expected
           /\ Stop = Origin + Less(Wanted, job.len - From)
           /\ job.format = "plain" => Piece > 0 /\ Stop = Origin + Piece /\ From = 0
           /\ job.format = "prg" =>
                 DOMAIN Expected = Origin .. Stop - 1 /\ (Origin < Stop => From = 2))'
    BY PlacedIs, PTL
  <2> QED BY <2>1, <2>2
<1>5. /\ base \in Nat /\ size \in Nat /\ base <= MemSize /\ at' = From' /\ MemSize \in Nat
      /\ Stop' = base + Less(size, job.len - at') /\ job'.len = job.len
      /\ at' \in 0 .. job'.len /\ Less(size, job.len - at') \in Nat
  <2>1. at' = From' /\ job'.len = job.len /\ job.len \in Nat /\ at' \in 0 .. job'.len
    BY <1>2, <1>4
  <2>2. size \in Nat /\ job.len - at' \in Nat
    BY <1>4, <2>1
  <2>3. Less(size, job.len - at') \in Nat
    BY <2>2, LessIs
  <2>4. Stop' = base + Less(size, job.len - at')
    BY <1>4, <2>1
  <2>5. base <= MemSize /\ MemSize \in Nat
    <3> DEFINE s == Stop'
    <3>1. s \in Nat /\ base \in Nat /\ base <= s /\ s <= MemSize
      BY <1>4
    <3> HIDE DEF s
    <3> QED BY <3>1, MemoryAssumption
  <2> QED BY <1>4, <2>1, <2>2, <2>3, <2>4, <2>5
<1>6. ToCome' = Less(size, job.len - at')
  BY <1>2, <1>5 DEF ToCome
<1>7. Len(<< >>) = 0 /\ << >> \in Seq(Int) /\ MemBuf \in Nat /\ FileBuf \in Nat /\ 1 .. 0 = {}
  BY EmptySeq, BufferAssumption
<1>8. UploadTyped'
  <2>1. adr' + Len(fifo') <= MemSize /\ Len(fifo') <= MemBuf /\ Len(buf') <= FileBuf
    BY <1>2, <1>5, <1>7
  <2> QED BY <2>1, <1>1, <1>2, <1>3, <1>5, <1>7 DEF UploadTyped, Stages, Loads
<1>9. KeptOff'
  <2>1. job.format # "download"
    BY <1>2 DEF Belongs, Loads
  <2> QED BY <2>1, <1>1, <1>2, <1>3, <1>7 DEF KeptOff
<1>10. Earlier'
  BY <1>1, <1>2, <1>3 DEF Earlier, AtWork, Belongs, CallInv, Loads
<1>11. Uploading'
  <2>1. \A a \in Origin' .. adr' - 1 : FALSE
    BY <1>2, <1>5
  <2>2. Len(fifo') = 0 /\ Len(buf') = 0
    BY <1>2, <1>7
  <2>3. adr' + 0 + 0 + ToCome' = Stop'
    BY <1>2, <1>5, <1>6
  <2>4. ByteAt(adr + 0 + 0)' = at' + 1
    <3> DEFINE x == adr'
               y == at'
    <3>1. x \in Nat /\ y \in Nat /\ Origin' = x /\ From' = y
      BY <1>2, <1>5
    <3> HIDE DEF x, y
    <3>2. x + 0 + 0 - x + y + 1 = y + 1
      BY ONLY <3>1
    <3> QED BY <3>1, <3>2 DEF ByteAt, x, y
  <2>5. stage' = "read" /\ Origin' <= adr'
    BY <1>2, <1>5
    <2>6. (/\ writes /\ buf = << >> /\ fifo = << >> /\ stage = "read" /\ Origin <= adr
         /\ Len(fifo) = 0 /\ Len(buf) = 0 /\ adr + 0 + 0 + ToCome = Stop
         /\ ByteAt(adr + 0 + 0) = at + 1
         /\ \A a \in Origin .. adr - 1 : FALSE)'
    BY <2>1, <2>2, <2>3, <2>4, <2>5, <1>2
  <2> QED BY <2>6, <1>5 DEF Uploading
<1>12. Idle' /\ Comparing' /\ Compared' /\ Swizzling' /\ Sending' /\ Storing' /\ Returned'
  BY <1>2 DEF Idle, Comparing, Compared, Swizzling, Sending, Storing, Returned
<1>13. NoneWrong'
  BY <1>2, NoneStays DEF CallInv, Loads
<1> QED BY <1>8, <1>9, <1>10, <1>11, <1>12, <1>13 DEF CallInv

LEMMA CheckBegins ==
    ASSUME CallInv, stage = "sent", job.verify, job.format \in {"plain", "prg"},
           NEW skip \in Nat, FileToMemVerify(Origin, Wanted, skip, job.len), UNCHANGED call,
           From = Less(skip, job.len)
    PROVE  CallInv'
<1>1. /\ UploadTyped /\ KeptOff /\ Earlier /\ Belongs /\ Counted
  BY DEF CallInv
<1>2. /\ stage' = "vread" /\ adr' = Origin /\ ~writes' /\ writes' \in BOOLEAN /\ fifo' = << >>
      /\ buf' = << >> /\ rc' = 0 /\ at' = From /\ left' = Wanted
      /\ UNCHANGED <<mem, out, late, job, done, result>> /\ (err => err') /\ err' \in BOOLEAN
  <2>1. UNCHANGED err \/ err' = TRUE
    BY DEF FileToMemVerify
  <2>2. (err => err') /\ err' \in BOOLEAN
    BY <1>1, <2>1, Zenon DEF UploadTyped
  <2> QED BY <2>2 DEF FileToMemVerify, SetAddress, call
<1>3. /\ Expected' = Expected /\ Fitting' = Fitting /\ Origin' = Origin /\ From' = From
      /\ Stop' = Stop
  BY <1>2, SameCall
<1>4. /\ job.len \in Nat /\ Origin \in Nat /\ From \in 0 .. job.len /\ Wanted \in Nat
      /\ Stop \in Nat /\ Origin <= Stop /\ Stop <= MemSize /\ MemSize \in Nat
      /\ Stop = Origin + Less(Wanted, job.len - From)
  BY <1>1, InPlace, MemoryAssumption DEF Loads
<1>5. Len(<< >>) = 0 /\ << >> \in Seq(Int) /\ MemBuf \in Nat /\ FileBuf \in Nat /\ 1 .. 0 = {}
  BY EmptySeq, BufferAssumption
<1>6. UploadTyped'
  <2>1. adr' + Len(fifo') <= MemSize /\ Len(fifo') <= MemBuf /\ Len(buf') <= FileBuf
    BY <1>2, <1>4, <1>5
  <2> QED BY <2>1, <1>1, <1>2, <1>3, <1>4, <1>5 DEF UploadTyped, Stages, Checks
<1>7. KeptOff'
  BY <1>1, <1>2, <1>3, <1>5 DEF KeptOff
<1>8. Belongs' /\ Counted' /\ Earlier'
  BY <1>1, <1>2 DEF Belongs, Counted, Earlier, AtWork, Loads, Checks
<1>9. Comparing'
  <2>1. ToCome' = Less(Wanted, job.len - From)
    BY <1>2 DEF ToCome
  <2>2. adr' + 0 + ToCome' = Stop'
    BY <2>1, <1>2, <1>3, <1>4
  <2>3. ByteAt(adr + 0)' = at' + 1
    <3> DEFINE x == adr'
               y == at'
    <3>1. x \in Nat /\ y \in Nat /\ Origin' = x /\ From' = y
      BY <1>2, <1>3, <1>4
    <3> HIDE DEF x, y
    <3>2. x + 0 - x + y + 1 = y + 1
      BY ONLY <3>1
    <3> QED BY <3>1, <3>2 DEF ByteAt, x, y
  <2>4. Len(buf)' = 0 /\ \A a \in Origin' .. adr' - 1 : FALSE
    BY <1>2, <1>3, <1>4, <1>5
  <2>5. (/\ job.verify /\ ~writes /\ buf = << >> /\ fifo = << >> /\ stage = "vread" /\ rc = 0
         /\ Origin <= adr /\ Len(buf) = 0 /\ adr + 0 + ToCome = Stop
         /\ ByteAt(adr + 0) = at + 1
         /\ \A a \in Origin .. adr - 1 : FALSE)'
    BY <2>2, <2>3, <2>4, <1>2, <1>3, <1>4
  <2> QED BY <2>5 DEF Comparing
<1>10. Idle' /\ Uploading' /\ Compared' /\ Swizzling' /\ Sending' /\ Storing' /\ Returned'
  BY <1>2 DEF Idle, Uploading, Compared, Swizzling, Sending, Storing, Returned, Loads
<1>11. NoneWrong'
  BY <1>2, NoneStays DEF CallInv
<1> QED BY <1>6, <1>7, <1>8, <1>9, <1>10, <1>11 DEF CallInv

LEMMA PieceKeeps ==
    ASSUME CallInv, UploadPiece
    PROVE  CallInv'
<1>1. /\ stage = "plain" /\ UploadTyped /\ Belongs /\ Counted /\ Earlier
  BY DEF CallInv, UploadPiece
<1>2. /\ job.format = "plain" /\ Fitting /\ done \in Nat /\ done <= job.size
      /\ done = job.size \/ done % job.len = 0
  BY <1>1, InCall DEF Belongs, Counted, AtWork, UploadTyped
<1>3. job.base \in Nat /\ job.size \in Nat /\ job.len \in Nat
  BY <1>2, FittingIs
<1>4. CASE done < job.size
  <2>1. FileToMem(job.base + done, Piece, 0, job.len) /\ UNCHANGED <<job, done, result>>
    BY <1>4 DEF UploadPiece, call
  <2>2. stage' = "read" /\ Belongs' /\ Counted'
    BY <2>1, <1>1, <1>2, <1>4 DEF FileToMem, Belongs, Counted, AtWork, Loads, Checks
  <2>3. Origin' = job.base + done /\ From' = 0 /\ Wanted' = Piece
    BY <2>1, <1>2, SameCall DEF Origin, From, Wanted
  <2>4. Less(0, job.len) = 0
    BY <1>3 DEF Less
  <2> QED BY <2>1, <2>2, <2>3, <2>4, <1>1, <1>2, LoadBegins
<1>5. CASE ~(done < job.size)
  <2>1. done = job.size
    BY <1>2, <1>3, <1>5
  <2>2. /\ stage' = "return" /\ result' = result /\ opened' = 0
        /\ UNCHANGED <<job, done, fpga, xfer, late>>
    BY <1>5, <1>1 DEF UploadPiece, Return
  <2>3. ASSUME ~err, ~late \/ job.verify
        PROVE  fifo = << >> /\ \A a \in DOMAIN Expected : mem[a] = Expected[a]
    <3>1. /\ \A a \in job.base .. job.base + job.size - 1 : mem[a] = ((a - job.base) % job.len) + 1
          /\ fifo = << >>
      BY <2>1, <2>3, <1>1, <1>2 DEF Earlier, AtWork
    <3> QED BY <3>1, <1>2, ExpectedWhere, ExpectedWhat
  <2>4. result' \in 0 .. 1 /\ late' \in BOOLEAN
    BY <2>2, <1>1 DEF UploadTyped
  <2> QED BY <2>2, <2>3, <2>4, <1>1, <1>2, ReturnKeeps DEF Loads
<1> QED BY <1>4, <1>5 DEF UploadTyped

LEMMA PrgKeeps ==
    ASSUME CallInv, UploadPrg
    PROVE  CallInv'
<1>1. /\ stage = "prg" /\ UploadTyped /\ Belongs /\ Counted
  BY DEF CallInv, UploadPrg
<1>2. job.format = "prg" /\ done \in Nat
  BY <1>1 DEF Belongs, UploadTyped
<1>3. CASE job.len = 0 /\ Return(1) /\ UNCHANGED <<fpga, xfer, late>>
  <2>1. /\ stage' = "return" /\ result' = 1 /\ opened' = 0
        /\ UNCHANGED <<job, done, fpga, xfer, late>>
    BY <1>3 DEF Return
  <2>2. late' \in BOOLEAN
    BY <2>1, <1>1 DEF UploadTyped
  <2> QED BY <2>1, <2>2, <1>1, ReturnKeeps DEF Loads
<1>4. CASE /\ job.len # 0 /\ FileToMem(job.base + job.spec, job.size, 2, job.len)
           /\ UNCHANGED call
  <2>1. FileToMem(job.base + job.spec, job.size, 2, job.len) /\ UNCHANGED <<job, done, result>>
    BY <1>4 DEF call
  <2>2. stage' = "read" /\ Belongs' /\ Counted'
    BY <2>1, <1>1, <1>2, <1>4 DEF FileToMem, Belongs, Counted, AtWork, Loads, Checks
  <2>3. Origin' = job.base + job.spec /\ From' = Less(2, job.len) /\ Wanted' = job.size
    BY <2>1, <1>2 DEF Origin, From, Wanted
  <2> QED BY <2>1, <2>2, <2>3, <1>1, <1>2, LoadBegins
<1>5. CASE ReadFails
  BY <1>1, <1>5, UnreadKeeps DEF Loads
<1> QED BY <1>3, <1>4, <1>5 DEF UploadPrg

LEMMA BlockKeeps ==
    ASSUME CallInv, UploadBlock
    PROVE  CallInv'
<1>1. /\ stage = "crt" /\ UploadTyped /\ Belongs /\ Counted
  BY DEF CallInv, UploadBlock
<1>2. job.format = "crt" /\ Fitting /\ done \in Nat /\ done <= Len(job.spec) /\ result = 1
  BY <1>1, InCall DEF Belongs, Counted, UploadTyped
<1>3. job.spec \in Seq([good : BOOLEAN, start : Nat, size : Nat, from : Nat])
      /\ Len(job.spec) \in Nat
  BY <1>2, FittingIs, LenProperties
<1> DEFINE b == job.spec[done + 1]
<1>4. CASE /\ err \/ done = Len(job.spec) \/ ~b.good
           /\ Return(1) /\ UNCHANGED <<fpga, xfer, late>>
  <2>1. /\ stage' = "return" /\ result' = 1 /\ opened' = 0
        /\ UNCHANGED <<job, done, fpga, xfer, late>>
    BY <1>4 DEF Return
  <2>2. late' \in BOOLEAN
    BY <2>1, <1>1 DEF UploadTyped
  <2> QED BY <2>1, <2>2, <1>1, ReturnKeeps DEF Loads
<1>5. CASE /\ ~(err \/ done = Len(job.spec) \/ ~b.good)
           /\ FileToMem(job.base + b.start, b.size, b.from, job.len)
           /\ done' = done + 1 /\ UNCHANGED <<job, result, opened>>
  <2>1. /\ FileToMem(job.base + b.start, b.size, b.from, job.len)
        /\ done' = done + 1 /\ UNCHANGED <<job, result, opened>>
    BY <1>5
  <2>2. done + 1 \in 1 .. Len(job.spec)
    BY <1>2, <1>3, <1>5
  <2>3. b \in [good : BOOLEAN, start : Nat, size : Nat, from : Nat]
    BY <2>2, <1>3, ElementOfSeq
  <2>4. done' \in Nat /\ done' <= Len(job'.spec) /\ done' > 0
    BY <2>1, <2>2, <1>3
  <2>5. stage' = "read" /\ Belongs' /\ Counted'
    BY <2>1, <2>4, <1>1, <1>2 DEF FileToMem, Belongs, Counted, AtWork, Loads, Checks
  <2>6. Origin' = job.base + b.start /\ From' = Less(b.from, job.len) /\ Wanted' = b.size
    BY <2>1, <1>2 DEF Origin, From, Wanted
  <2>7. b.from \in Nat
    BY <2>3
  <2> QED BY <2>1, <2>4, <2>5, <2>6, <2>7, <1>1, <1>2, LoadBegins
<1>6. CASE ReadFails
  BY <1>1, <1>6, UnreadKeeps DEF Loads
<1> QED BY <1>4, <1>5, <1>6 DEF UploadBlock

-----------------------------------------------------------------------------
\* A transfer ends.

LEMMA UploadedKeeps ==
    ASSUME CallInv, Uploaded
    PROVE  CallInv'
<1>1. /\ stage = "sent" /\ UploadTyped /\ KeptOff /\ Belongs /\ Counted /\ Earlier /\ Uploading
      /\ UNCHANGED <<job, done, result, opened>> /\ stage \in Loads \cup Checks
  BY DEF CallInv, Uploaded, call, Loads
<1>2. /\ Expected' = Expected /\ Fitting' = Fitting /\ Origin' = Origin /\ From' = From
      /\ Stop' = Stop
  BY <1>1, SameCall
<1>3. CASE job.format = "crt" \/ ~job.verify
  <2>1. /\ UNCHANGED <<mem, fifo, adr, writes, at, err, left, buf, out, late>>
        /\ stage' = IF job.format = "crt" THEN "crt" ELSE "checked"
        /\ rc' = IF job.format = "crt" THEN rc ELSE 0
    BY <1>3 DEF Uploaded, fpga, xfer, file
  <2>2. UploadTyped'
    <3>1. stage' \in Stages /\ rc' \in 0 .. 2
      BY <2>1, <1>1 DEF Stages, Checks, UploadTyped
    <3> QED BY <3>1, <2>1, <1>1, <1>2 DEF UploadTyped
  <2>3. KeptOff'
    BY <2>1, <1>1, <1>2 DEF KeptOff
  <2>4. Belongs' /\ Counted' /\ Earlier'
    BY <2>1, <1>1 DEF Belongs, Counted, Earlier, AtWork, Loads, Checks
  <2>5. Compared'
    <3> SUFFICES ASSUME stage' = "checked" PROVE Compared'
      BY DEF Compared
    <3>1. ~job.verify /\ rc' = 0
      BY <2>1, <1>3
    <3>2. /\ ~late => fifo = << >>
          /\ ~late /\ ~err => \A a \in Origin .. Stop - 1 : mem[a] = ByteAt(a)
      BY <1>1 DEF Uploading, Loads
    <3>3. \A a : ByteAt(a)' = ByteAt(a)
      BY <1>2 DEF ByteAt
    <3> QED BY <3>1, <3>2, <3>3, <2>1, <1>1, <1>2 DEF Compared
  <2>6. Idle' /\ Uploading' /\ Comparing' /\ Swizzling' /\ Sending' /\ Storing' /\ Returned'
    BY <2>1 DEF Idle, Uploading, Comparing, Swizzling, Sending, Storing, Returned, Loads
  <2>7. NoneWrong'
    BY <2>1, <1>1, NoneStays DEF CallInv, Uploading, Loads
  <2> QED BY <2>2, <2>3, <2>4, <2>5, <2>6, <2>7 DEF CallInv
<1>4. CASE ~(job.format = "crt" \/ ~job.verify)
  <2>1. job.format \in {"plain", "prg"} /\ job.verify
    BY <1>1, <1>4 DEF Belongs
  <2>2. job.len \in Nat
    BY <1>1, InPlace
  <2>3. CASE job.format = "plain"
    <3>1. FileToMemVerify(Origin, Wanted, 0, job.len) /\ From = 0 /\ Less(0, job.len) = 0
      BY <2>2, <2>3, <1>4 DEF Uploaded, Origin, Wanted, From, Less
    <3> QED BY <3>1, <2>1, <1>1, CheckBegins DEF call
  <2>4. CASE job.format # "plain"
    <3>1. FileToMemVerify(Origin, Wanted, 2, job.len) /\ From = Less(2, job.len)
      BY <2>1, <2>4, <1>4 DEF Uploaded, Origin, Wanted, From
    <3> QED BY <3>1, <2>1, <1>1, CheckBegins DEF call
  <2> QED BY <2>3, <2>4
<1> QED BY <1>3, <1>4

LEMMA CheckedKeeps ==
    ASSUME CallInv, Checked
    PROVE  CallInv'
<1>0. stage = "checked" /\ UNCHANGED <<fpga, xfer, late>>
  BY DEF Checked
<1>1. /\ stage = "checked" /\ stage \in Loads \cup Checks /\ stage \in AtWork
      /\ UploadTyped /\ KeptOff /\ Belongs /\ Counted /\ Earlier /\ Compared
      /\ UNCHANGED <<fpga, xfer, late>>
  BY <1>0 DEF CallInv, Loads, Checks, AtWork
<1>2. /\ job.format \in {"plain", "prg"} /\ Fitting /\ rc \in 0 .. 1 /\ result' = rc
  <2>1. job.format \in {"plain", "prg"} /\ rc \in 0 .. 1
    BY <1>1 DEF Belongs, Compared, Checks
  <2>2. Fitting
    BY <1>1, InCall
  <2> QED BY <2>1, <2>2 DEF Checked
<1>3. /\ job.base \in Nat /\ job.size \in Nat /\ job.len \in Nat /\ done \in Nat
      /\ Origin \in Nat /\ Stop \in Nat
  BY <1>1, <1>2, FittingIs, InPlace DEF UploadTyped
<1>4. UNCHANGED <<mem, fifo, adr, writes, at, err, left, buf, rc, out, late>>
  BY <1>1 DEF fpga, xfer, file
<1>5. ~late \/ job.verify => fifo = << >>
                             /\ (rc = 0 /\ ~err => \A a \in Origin .. Stop - 1 : mem[a] = ByteAt(a))
  BY <1>1 DEF Compared
<1>6. CASE rc = 0 /\ job.format = "plain"
  <2>1. stage' = "plain" /\ done' = done + Piece /\ UNCHANGED <<job, opened>>
    BY <1>6 DEF Checked
  <2>2. /\ Piece > 0 /\ Stop = Origin + Piece /\ From = 0 /\ Origin = job.base + done
        /\ \A a \in Origin .. Stop - 1 : a \in job.base .. job.base + job.size - 1
    BY <1>1, <1>2, <1>6, InPlace, ExpectedWhere DEF Origin
  <2>3. /\ done < job.size /\ done % job.len = 0 /\ job.len \in Nat \ {0}
        /\ Piece = (IF job.size < job.len THEN job.size ELSE job.len)
    BY <1>1, <1>2, <1>3, <1>6, FittingIs DEF Counted, AtWork, Piece, Less
  <2>4. Piece \in Nat /\ done + Piece <= job.size /\ Piece <= job.len
    <3>1. Piece \in Nat /\ Piece <= job.len
      BY <2>3, <1>3
    <3>2. Stop - 1 \in Origin .. Stop - 1
      BY <3>1, <2>2, <1>3
    <3>3. Stop - 1 <= job.base + job.size - 1
      BY <3>2, <2>2, <1>3
    <3> QED BY <3>1, <3>3, <2>2, <1>3
  <2>5. done' = job.size \/ done' % job.len = 0
    <3>1. CASE job.size < job.len
      BY <3>1, <2>1, <2>3, <2>4, <1>3
    <3>2. CASE ~(job.size < job.len)
      BY <3>2, <2>1, <2>3, <1>3, NextMultiple
    <3> QED BY <3>1, <3>2
  <2>6. Counted' /\ Belongs'
    BY <2>1, <2>4, <2>5, <1>1, <1>6 DEF Counted, Belongs, AtWork, Loads, Checks
  <2>7. Expected' = Expected /\ Fitting' = Fitting
    BY <2>1 DEF Expected, Fitting
  <2>8. UploadTyped'
    <3>1. done' \in Nat /\ result' \in 0 .. 1 /\ stage' \in Stages /\ at' \in 0 .. job'.len
      BY <2>1, <2>4, <1>1, <1>2, <1>3, <1>4 DEF Stages, UploadTyped
    <3> QED BY <3>1, <2>1, <2>7, <1>1, <1>4 DEF UploadTyped
  <2>9. KeptOff'
    BY <2>1, <2>7, <1>1, <1>4 DEF KeptOff
  <2>10. Earlier'
    <3> SUFFICES ASSUME ~err, ~late \/ job.verify
                 PROVE  fifo = << >> /\ \A a \in job.base .. job.base + done' - 1 :
                                            mem[a] = ((a - job.base) % job.len) + 1
      BY <2>1, <1>4 DEF Earlier
    <3>1. \A a \in job.base .. job.base + done - 1 : mem[a] = ((a - job.base) % job.len) + 1
      BY <1>1, <1>6 DEF Earlier
    <3>2. ASSUME NEW a \in Origin .. Stop - 1
          PROVE  mem[a] = ((a - job.base) % job.len) + 1
      <4> DEFINE x == a - Origin
      <4>1. x \in 0 .. job.len - 1 /\ a - job.base = done + x
        BY <3>2, <2>2, <2>4, <1>3
      <4>2. mem[a] = x + 1
        BY <3>2, <2>2, <1>3, <1>5, <1>6 DEF ByteAt
      <4> HIDE DEF x
      <4>3. (done + x) % job.len = x
        <5> DEFINE n == job.len
        <5>1. n \in Nat \ {0} /\ done \in Nat /\ done % n = 0 /\ x \in 0 .. n - 1
          BY <4>1, <2>3, <1>3
        <5> HIDE DEF n
        <5>2. (done + x) % n = x
          BY ONLY <5>1, Beyond
        <5> QED BY <5>2 DEF n
      <4> QED BY <4>1, <4>2, <4>3
    <3>3. ASSUME NEW a \in job.base .. job.base + done' - 1
          PROVE  mem[a] = ((a - job.base) % job.len) + 1
      <4>1. a \in job.base .. job.base + done - 1 \/ a \in Origin .. Stop - 1
        BY <3>3, <2>1, <2>2, <2>4, <1>3
      <4> QED BY <4>1, <3>1, <3>2
    <3> QED BY <3>3, <1>5
  <2>11. /\ Idle' /\ Uploading' /\ Comparing' /\ Compared' /\ Swizzling' /\ Sending' /\ Storing'
         /\ Returned'
    BY <2>1 DEF Idle, Uploading, Comparing, Compared, Swizzling, Sending, Storing, Returned, Loads
  <2>12. NoneWrong'
    BY <2>1, <1>4, <1>5, NoneStays DEF CallInv
  <2> QED BY <2>6, <2>8, <2>9, <2>10, <2>11, <2>12 DEF CallInv
<1>7. CASE ~(rc = 0 /\ job.format = "plain")
  <2>1. stage' = "return" /\ opened' = 0 /\ UNCHANGED <<job, done>>
    BY <1>7 DEF Checked
  <2>2. ASSUME rc = 0, ~err, ~late \/ job.verify
        PROVE  fifo = << >> /\ \A a \in DOMAIN Expected : mem[a] = Expected[a]
    <3>1. job.format = "prg" /\ job.spec \in Nat
      BY <2>2, <1>2, <1>7, FittingIs
    <3>2. /\ DOMAIN Expected = Origin .. Stop - 1 /\ (Origin < Stop => From = 2)
          /\ Origin = job.base + job.spec
      BY <3>1, <1>1, InPlace DEF Origin
    <3>3. ASSUME NEW a \in DOMAIN Expected
          PROVE  mem[a] = Expected[a]
      <4>1. From = 2
        BY <3>2, <3>3, <1>3
      <4>2. mem[a] = a - Origin + From + 1
        BY <3>2, <3>3, <2>2, <1>5 DEF ByteAt
      <4>3. Expected[a] = a - job.base - job.spec + 3
        BY <3>1, <3>3, <1>2, ExpectedWhat
      <4>4. a \in Int
        BY <3>2, <3>3, <1>3
      <4> QED BY <4>1, <4>2, <4>3, <4>4, <3>1, <3>2, <1>3, SMTT(30)
    <3> QED BY <3>3, <2>2, <1>5
  <2>3. late' \in BOOLEAN
    BY <1>1, <1>4 DEF UploadTyped
  <2> QED BY <2>1, <2>2, <2>3, <1>1, <1>2, <1>4, ReturnKeeps DEF Loads
<1> QED BY <1>6, <1>7

-----------------------------------------------------------------------------
\* The swizzled file.

LEMMA SwizzleIs ==
    ASSUME CallInv, stage \in {"swizzle", "swait"}
    PROVE  /\ UploadTyped /\ KeptOff /\ Belongs /\ Counted /\ Swizzling
           /\ Fitting /\ job.format = "swizzle" /\ job.base \in Nat /\ job.len \in Nat /\ done \in Nat
           /\ job.spec \in Seq(Int) /\ Width \in Nat \ {0} /\ Width = Len(job.spec) /\ Width <= MemBuf
           /\ Consume \in Nat \ {0} /\ Turns \in Nat /\ done = Turns * Consume
           /\ (job.len \div Consume) \in Nat
           /\ job.base + (job.len \div Consume) * Width <= MemSize
           /\ DOMAIN Expected = job.base .. job.base + (job.len \div Consume) * Width - 1
           /\ done % Consume = 0 /\ done <= job.len /\ writes
           /\ job.base + Turns * Width \in Nat
<1>1. UploadTyped /\ KeptOff /\ Belongs /\ Counted /\ Swizzling
  BY DEF CallInv
<1>2. Fitting /\ job.format = "swizzle" /\ done \in Nat
  BY <1>1, InCall DEF Belongs, UploadTyped
<1>3. /\ job.base \in Nat /\ job.len \in Nat /\ job.spec \in Seq(Int) /\ Len(job.spec) <= MemBuf
      /\ Consume > 0 /\ job.base + (job.len \div Consume) * Len(job.spec) <= MemSize
  BY <1>2, FittingIs
<1>4. Consume \in Nat \ {0} /\ Consume <= Len(job.spec)
  BY <1>3, TakenIs DEF Consume
<1>5. Width \in Nat \ {0} /\ Width = Len(job.spec)
  BY <1>3, <1>4, LenProperties DEF Width
<1>6. /\ done % Consume = 0 /\ done <= job.len /\ writes
  BY <1>1 DEF Swizzling
<1>7. Turns \in Nat /\ done = Turns * Consume
  <2> DEFINE c == Consume
             q == done \div c
  <2>1. c \in Nat \ {0} /\ done \in Nat /\ done % c = 0
    BY <1>2, <1>4, <1>6
  <2> HIDE DEF c
  <2>2. q \in Nat /\ done = c * q + (done % c)
    BY ONLY <2>1, Dividing
  <2> HIDE DEF q
  <2>3. q \in Nat /\ done = q * c
    BY ONLY <2>1, <2>2
  <2> QED BY <2>3 DEF c, q, Turns
<1>8. (job.len \div Consume) \in Nat
  BY <1>3, <1>4, Dividing
<1>9. job.base + Turns * Width \in Nat
  BY <1>3, <1>5, <1>7
<1> QED BY <1>1, <1>2, <1>3, <1>4, <1>5, <1>6, <1>7, <1>8, <1>9, ExpectedWhere

LEMMA SwizzleEndKeeps ==
    ASSUME CallInv, SwizzleEnd
    PROVE  CallInv'
<1>2. /\ stage = "swizzle" /\ stage' = "return" /\ result' = (IF BadSpec THEN 1 ELSE 0)
      /\ opened' = 0 /\ UNCHANGED <<job, done, fpga, xfer, late>>
  BY DEF SwizzleEnd, Return
<1>3. /\ UploadTyped /\ Swizzling /\ Fitting /\ job.format = "swizzle" /\ done <= job.len
      /\ job.len \in Nat /\ done \in Nat /\ Width = Len(job.spec)
      /\ DOMAIN Expected = job.base .. job.base + (job.len \div Consume) * Width - 1
  BY <1>2, SwizzleIs
<1>4. ASSUME result' = 0, ~late
      PROVE  fifo = << >> /\ \A a \in DOMAIN Expected : mem[a] = Expected[a]
  <2>1. done = job.len
    <3>1. done >= job.len
      BY <1>2, <1>4 DEF SwizzleEnd
    <3> QED BY <3>1, <1>3
  <2>2. fifo = << >> /\ \A a \in job.base .. job.base + Turns * Width - 1 : mem[a] = Token(a)
    <3>1. /\ stage = "swizzle" /\ ~late /\ Swizzling /\ job.base + Turns * Width \in Nat
          /\ job.base \in Nat /\ Turns \in Nat /\ Width \in Nat
      BY <1>2, <1>4, SwizzleIs
    <3> QED BY ONLY <3>1 DEF Swizzling
  <2>3. Turns = job.len \div Consume
    BY <2>1 DEF Turns
  <2> QED BY <2>2, <2>3, <1>3, ExpectedWhat
<1>5. late' \in BOOLEAN /\ result' \in 0 .. 1 /\ late' = late
  BY <1>2, <1>3 DEF UploadTyped
<1> QED BY <1>2, <1>3, <1>4, <1>5, ReturnKeeps DEF Loads

LEMMA SwizzleUnreadKeeps == ASSUME CallInv, SwizzleUnread PROVE CallInv'
BY UnreadKeeps DEF SwizzleUnread, Loads

\* What is written in a turn, and where.
LEMMA TurnIs ==
    ASSUME CallInv, stage \in {"swizzle", "swait"}, done < job.len, job.len % Consume = 0,
           NEW k \in 1 .. Width
    PROVE  /\ job.base + Turns * Width + Width <= job.base + (job.len \div Consume) * Width
           /\ job.base + Turns * Width + k - 1 \in DOMAIN Expected
           /\ Token(job.base + Turns * Width + k - 1) =
                 IF job.spec[k] > 0 THEN done + job.spec[k] ELSE job.spec[k]
<1> DEFINE T == job.len \div Consume
           here == job.base + Turns * Width
           a == here + k - 1
<1>1. /\ job.base \in Nat /\ job.len \in Nat /\ done \in Nat /\ done % Consume = 0
      /\ Width \in Nat \ {0} /\ Consume \in Nat \ {0} /\ Turns \in Nat /\ done = Turns * Consume
      /\ T \in Nat /\ here \in Nat
      /\ DOMAIN Expected = job.base .. job.base + T * Width - 1
  BY SwizzleIs
<1>2. Turns + 1 <= T
  BY <1>1, NextMultiple DEF Turns
<1>3. Turns * Width + Width <= T * Width
  <2> DEFINE w == Width
             t == Turns
             m == T
  <2>1. w \in Nat /\ t \in Nat /\ m \in Nat /\ t + 1 <= m
    BY <1>1, <1>2
  <2> HIDE DEF w, t, m
  <2>2. (t + 1) * w <= m * w /\ (t + 1) * w = t * w + w
    BY ONLY <2>1
  <2> QED BY <2>2 DEF w, t, m
<1>4. /\ here + Width <= job.base + T * Width
      /\ a \in job.base .. job.base + T * Width - 1 /\ a - job.base = Width * Turns + (k - 1)
  <2> DEFINE b == job.base
             w == Width
             p == Turns * Width
             q == T * Width
             r == Width * Turns
  <2>1. /\ b \in Nat /\ w \in Nat /\ p \in Nat /\ q \in Nat /\ r = p /\ p + w <= q
        /\ k \in 1 .. w
    BY <1>1, <1>3, SMTT(30)
  <2> HIDE DEF b, w, p, q, r
  <2>2. b + p + w <= b + q /\ b + p + k - 1 \in b .. b + q - 1 /\ b + p + k - 1 - b = r + (k - 1)
    BY ONLY <2>1
  <2>3. /\ job.base = b /\ Width = w /\ Width * Turns = r /\ T * Width = q
        /\ here = b + p /\ a = b + p + k - 1
    BY DEF b, w, p, q, r
  <2> HIDE DEF a, here, T
  <2> QED BY ONLY <2>1, <2>2, <2>3
<1>7. (a - job.base) % Width = k - 1 /\ (a - job.base) \div Width = Turns
  <2> DEFINE w == Width
             t == Turns
             r == k - 1
             y == a - job.base
  <2>1. w \in Nat \ {0} /\ t \in Nat /\ r \in 0 .. w - 1 /\ y = w * t + r
    BY <1>1, <1>4
  <2> HIDE DEF w, t, r, y
  <2>2. y % w = r /\ y \div w = t
    BY ONLY <2>1, OneQuotient
  <2> QED BY <2>2 DEF w, t, r, y
<1>8. Token(a) = IF job.spec[k] > 0 THEN done + job.spec[k] ELSE job.spec[k]
  <2>1. k \in Int /\ (k - 1) + 1 = k
    BY <1>1
  <2> HIDE DEF a
  <2> QED BY <2>1, <1>1, <1>7 DEF Token
<1> QED BY <1>1, <1>4, <1>8

\* The other parts of the invariant say nothing of a swizzled file.
LEMMA OnlySwizzles ==
    ASSUME CallInv, stage \in {"swizzle", "swait"}, stage' \in {"swizzle", "swait"},
           UNCHANGED <<job, result, err>>
    PROVE  /\ NoneWrong' /\ Idle' /\ Belongs' /\ Counted' /\ Earlier' /\ Uploading' /\ Comparing' /\ Compared'
           /\ Sending' /\ Storing' /\ Returned'
<1>1. job.format = "swizzle" /\ Belongs
  BY DEF CallInv, Belongs
<1> QED BY <1>1 DEF Idle, Belongs, Counted, Earlier, AtWork, Uploading, Comparing, Compared, Sending,
           Storing, Returned, NoneWrong, Loads, Checks

LEMMA SwizzlePieceKeeps ==
    ASSUME CallInv, SwizzlePiece
    PROVE  CallInv'
<1> DEFINE here == job.base + Turns * Width
<1>1. /\ stage = "swizzle" /\ ~BadSpec /\ done < job.len /\ stage' = "swait"
      /\ UNCHANGED <<mem, at, err, left, buf, rc, out, job, done, result, opened>>
      /\ adr' = here /\ writes'
  BY DEF SwizzlePiece, BufToMem, xfer, file, call, Turns, Width
<1>2. /\ UploadTyped /\ KeptOff /\ Swizzling /\ Fitting /\ job.format = "swizzle"
      /\ job.base \in Nat /\ job.len \in Nat /\ done \in Nat
      /\ job.spec \in Seq(Int) /\ Width \in Nat \ {0} /\ Width = Len(job.spec) /\ Width <= MemBuf
      /\ job.base + (job.len \div Consume) * Width <= MemSize
      /\ (job.len \div Consume) * Width \in Nat
      /\ DOMAIN Expected = job.base .. job.base + (job.len \div Consume) * Width - 1
      /\ here \in Nat /\ MemSize \in Nat
  BY <1>1, SwizzleIs, MemoryAssumption
<1>3. job.len % Consume = 0
  BY <1>1 DEF BadSpec
<1>4. \A k \in 1 .. Width :
         /\ here + Width <= job.base + (job.len \div Consume) * Width
         /\ here + k - 1 \in DOMAIN Expected
         /\ Token(here + k - 1) = IF job.spec[k] > 0 THEN done + job.spec[k] ELSE job.spec[k]
  BY <1>1, <1>3, TurnIs
<1>5. here + Width <= MemSize /\ \A k \in 1 .. Width : here + k - 1 \in 0 .. MemSize - 1
  <2>1. 1 \in 1 .. Width
    BY <1>2
  <2>2. here + Width <= job.base + (job.len \div Consume) * Width
    BY <2>1, <1>4
  <2> DEFINE w == Width
             q == (job.len \div Consume) * Width
  <2>3. /\ w \in Nat /\ q \in Nat /\ here \in Nat /\ here + w <= job.base + q
        /\ job.base + q <= MemSize /\ MemSize \in Nat /\ job.base \in Nat
    BY <2>2, <1>2
  <2> HIDE DEF here, w, q
  <2>4. here + w <= MemSize /\ \A k \in 1 .. w : here + k - 1 \in 0 .. MemSize - 1
    BY <2>3
  <2> QED BY <2>4 DEF w
<1>6. PICK old \in MemToBuf(here, Len(job.spec)) :
         LET piece == [w \in 1 .. Len(job.spec) |->
                          IF job.spec[w] > 0 THEN done + job.spec[w]
                          ELSE IF job.spec[w] = 0 THEN old[w] ELSE job.spec[w]]
         IN /\ BufToMem(piece, here)
            /\ late' = (late \/ fifo' # piece \/ \E w \in 1 .. Len(job.spec) : old[w] = Garbage)
  BY DEF SwizzlePiece, Turns, Width
<1> DEFINE piece == [k \in 1 .. Width |->
                        IF job.spec[k] > 0 THEN done + job.spec[k]
                        ELSE IF job.spec[k] = 0 THEN old[k] ELSE job.spec[k]]
<1>7. /\ fifo' = piece \/ fifo' = << >>
      /\ late' = (late \/ fifo' # piece \/ \E k \in 1 .. Width : old[k] = Garbage)
  BY <1>2, <1>6 DEF BufToMem
<1>8. /\ old \in [1 .. Width -> Int]
      /\ \A k \in 1 .. Width : old[k] = mem[here + k - 1] \/ old[k] = Garbage
  <2>1. /\ old = [k \in 1 .. Width |-> mem[here + k - 1]] \/ old = [k \in 1 .. Width |-> Garbage]
    BY <1>6, <1>2 DEF MemToBuf
  <2>2. \A k \in 1 .. Width : mem[here + k - 1] \in Int
    BY <1>5, <1>2 DEF UploadTyped
  <2>3. Garbage \in Int
    BY DEF Garbage
  <2> QED BY <2>1, <2>2, <2>3
<1>9. \A k \in 1 .. Width : job.spec[k] \in Int
  BY <1>2, ElementOfSeq
<1>10. piece \in Seq(Int) /\ Len(piece) = Width /\ late' \in BOOLEAN
  <2>1. piece \in [1 .. Width -> Int]
    BY <1>2, <1>8, <1>9, SMTT(30)
  <2>2. piece \in Seq(Int) /\ Len(piece) = Width
    BY <2>1, <1>2, SMTT(30)
  <2> QED BY <2>2, <1>2, <1>7 DEF UploadTyped
<1>11. fifo' \in Seq(Int) /\ Len(fifo') \in Nat /\ Len(fifo') <= Width
  <2>1. Len(<< >>) = 0 /\ << >> \in Seq(Int)
    BY EmptySeq
  <2>2. Len(piece) = Width /\ piece \in Seq(Int) /\ Width \in Nat \ {0}
    BY <1>2, <1>10
  <2>3. fifo' = piece \/ fifo' = << >>
    BY <1>7
  <2> DEFINE f == fifo'
  <2>4. f = piece \/ f = << >>
    BY <2>3
  <2> HIDE DEF piece, f
  <2>5. Len(f) = Width \/ Len(f) = 0
    BY ONLY <2>1, <2>2, <2>4
  <2>6. f \in Seq(Int)
    BY ONLY <2>1, <2>2, <2>4
  <2> QED BY <2>2, <2>5, <2>6 DEF f
<1> HIDE DEF here, piece
<1>12. /\ Expected' = Expected /\ Fitting' = Fitting /\ Consume' = Consume /\ Turns' = Turns
       /\ Width' = Width /\ \A a : Token(a)' = Token(a)
  <2>1. UNCHANGED <<job, done>>
    BY <1>1
  <2>2. Consume' = Consume /\ Width' = Width
    BY <2>1, SameCall
  <2>3. ASSUME NEW a PROVE Token(a)' = Token(a)
    BY <2>1, <2>2 DEF Token
  <2> QED BY <2>1, <2>3, SameCall
<1>13. UploadTyped'
  <2>1. adr' + Len(fifo') <= MemSize /\ Len(fifo') <= MemBuf /\ adr' \in Nat
    <3> DEFINE l == Len(fifo')
    <3>1. l \in Nat /\ l <= Width /\ Width \in Nat /\ adr' = here /\ here \in Nat /\ Width <= MemBuf
          /\ here + Width <= MemSize /\ MemBuf \in Nat /\ MemSize \in Nat
      BY <1>1, <1>2, <1>5, <1>11, BufferAssumption
    <3> HIDE DEF l
    <3>2. here + l <= MemSize /\ l <= MemBuf
      BY ONLY <3>1
    <3> QED BY <3>1, <3>2 DEF l
  <2> QED BY <2>1, <1>1, <1>2, <1>10, <1>11, <1>12 DEF UploadTyped, Stages
<1>14. KeptOff'
  <2>1. ASSUME NEW k \in 1 .. Len(fifo')
        PROVE  adr' + k - 1 \in DOMAIN Expected'
    <3>1. k \in 1 .. Width
      BY <2>1, <1>2, <1>11
    <3> QED BY <3>1, <1>1, <1>4, <1>12
  <2> QED BY <2>1, <1>1, <1>2, <1>12 DEF KeptOff
<1>15. Swizzling'
  <2>1. done % Consume = 0 /\ done <= job.len
    BY <1>1, SwizzleIs
  <2>2. job'.base + Turns' * Width' = here
    BY <1>1, <1>12 DEF here
  <2>3. ASSUME ~late'
        PROVE  /\ here <= adr' /\ adr' + Len(fifo') = here + Width
               /\ \A a \in job.base .. adr' - 1 : mem[a] = Token(a)
               /\ \A k \in 1 .. Len(fifo') : fifo'[k] = Token(adr' + k - 1)
               /\ \A a \in DOMAIN mem : a >= here + Width => mem[a] = Old
    <3>1. ~late /\ fifo' = piece /\ \A k \in 1 .. Width : old[k] # Garbage
      BY <2>3, <1>7
    <3>2. /\ \A a \in job.base .. here - 1 : mem[a] = Token(a)
          /\ \A a \in DOMAIN mem : a >= here => mem[a] = Old
      <4>1. stage = "swizzle" /\ ~late /\ Swizzling /\ job.base + Turns * Width \in Nat
            /\ job.base \in Nat /\ Turns \in Nat /\ Width \in Nat
        BY <3>1, <1>1, SwizzleIs
      <4> QED BY ONLY <4>1 DEF Swizzling, here
    <3>3. DOMAIN mem = 0 .. MemSize - 1
      BY <1>2 DEF UploadTyped
    <3>4. ASSUME NEW k \in 1 .. Len(fifo')
          PROVE  fifo'[k] = Token(adr' + k - 1)
      <4>1. k \in 1 .. Width
        BY <3>1, <3>4, <1>10
      <4>2. here + k - 1 \in DOMAIN mem /\ here + k - 1 >= here
        BY <4>1, <3>3, <1>2, <1>5
      <4>3. old[k] = 0
        BY <4>1, <4>2, <3>1, <3>2, <1>8 DEF Old
      <4>4. piece[k] = IF job.spec[k] > 0 THEN done + job.spec[k] ELSE job.spec[k]
        BY <4>1, <4>3 DEF piece
      <4> QED BY <4>1, <4>4, <3>1, <1>1, <1>4
    <3>5. Len(fifo') = Width
      BY <3>1, <1>10
    <3>6. \A a \in DOMAIN mem : a >= here + Width => mem[a] = Old
      <4> SUFFICES ASSUME NEW a \in DOMAIN mem, a >= here + Width PROVE mem[a] = Old
        OBVIOUS
      <4>1. a \in Int /\ a >= here
        BY <3>3, <1>2
      <4> QED BY <4>1, <3>2
    <3> QED BY <3>2, <3>4, <3>5, <3>6, <1>1, <1>2
  <2>4. (/\ stage = "swait" /\ writes /\ job.len % Consume = 0 /\ done % Consume = 0
         /\ done < job.len /\ done <= job.len)'
    BY <2>1, <1>1, <1>3, <1>12
  <2>5. \/ late'
        \/ (LET h == job.base + Turns * Width
            IN /\ h <= adr /\ adr + Len(fifo) = h + Width
               /\ \A a \in job.base .. adr - 1 : mem[a] = Token(a)
               /\ \A k \in 1 .. Len(fifo) : fifo[k] = Token(adr + k - 1)
               /\ \A a \in DOMAIN mem : a >= h + Width => mem[a] = Old)'
    BY <2>2, <2>3, <1>1, <1>10, <1>12
  <2> QED BY <2>4, <2>5 DEF Swizzling
<1> QED BY <1>1, <1>13, <1>14, <1>15, OnlySwizzles DEF CallInv

LEMMA SwizzleWaitKeeps ==
    ASSUME CallInv, SwizzleWait
    PROVE  CallInv'
<1> DEFINE here == job.base + Turns * Width
<1>1. /\ stage = "swait" /\ stage' = "swizzle" /\ (InTime \/ TimesOut) /\ done' = done + Consume
      /\ UNCHANGED <<mem, fifo, adr, writes, at, err, left, buf, rc, out, job, result, opened>>
  BY DEF SwizzleWait, fpga, xfer, file
<1>2. /\ UploadTyped /\ KeptOff /\ Swizzling /\ Fitting /\ job.format = "swizzle"
      /\ job.base \in Nat /\ job.len \in Nat /\ done \in Nat
      /\ Width \in Nat \ {0} /\ Consume \in Nat \ {0} /\ Turns \in Nat
      /\ here \in Nat /\ done % Consume = 0
  BY <1>1, SwizzleIs
<1>3. done < job.len /\ job.len % Consume = 0 /\ writes
  BY <1>1, <1>2 DEF Swizzling
<1>4. /\ done' \in Nat /\ done' <= job.len /\ done' % Consume = 0 /\ done' \div Consume = Turns + 1
  <2> DEFINE c == Consume
             n == job.len
  <2>1. c \in Nat \ {0} /\ n \in Nat /\ done \in Nat /\ done % c = 0 /\ n % c = 0 /\ done < n
    BY <1>2, <1>3
  <2> HIDE DEF c, n
  <2>2. c \in Nat \ {0} /\ done \in Nat /\ done % c = 0 /\ n \in Nat /\ n % c = 0 /\ done < n
    BY <2>1
  <2>3. (done + c) % c = 0 /\ (done + c) \div c = (done \div c) + 1 /\ done + c <= n
    BY ONLY <2>2, OneMore, Zenon
  <2>4. done + c \in Nat
    BY ONLY <2>2
  <2> QED BY <2>3, <2>4, <1>1 DEF c, n, Turns
<1>5. /\ Expected' = Expected /\ Fitting' = Fitting /\ Consume' = Consume /\ Turns' = Turns + 1
      /\ Width' = Width /\ \A a : Token(a)' = Token(a)
  <2>1. job' = job
    BY <1>1
  <2>2. Consume' = Consume /\ Width' = Width
    BY <2>1 DEF Consume, Width
  <2>3. ASSUME NEW a PROVE Token(a)' = Token(a)
    BY <2>1, <2>2 DEF Token
  <2> QED BY <2>1, <2>2, <2>3, <1>4 DEF Expected, Fitting, Turns
<1>6. job'.base + Turns' * Width' = here + Width
  <2> DEFINE w == Width
             t == Turns
             b == job.base
  <2>1. w \in Nat /\ t \in Nat /\ b \in Nat
    BY <1>2
  <2> HIDE DEF w, t, b
  <2>2. b + (t + 1) * w = b + t * w + w
    BY <2>1
  <2> QED BY <2>2, <1>1, <1>5 DEF w, t, b
<1>7. late' \in BOOLEAN /\ (late => late') /\ (~late' => fifo = << >>)
  BY <1>1, <1>2 DEF InTime, TimesOut, UploadTyped
<1>8. UploadTyped'
  <2>1. stage' \in Stages /\ at' \in 0 .. job'.len
    BY <1>1, <1>2 DEF Stages, UploadTyped
  <2> QED BY <2>1, <1>1, <1>2, <1>4, <1>5, <1>7 DEF UploadTyped
<1>9. KeptOff'
  BY <1>1, <1>2, <1>5 DEF KeptOff
<1>10. Swizzling'
  <2>1. ASSUME ~late'
        PROVE  /\ fifo = << >> /\ adr = here + Width /\ \A a \in job.base .. adr - 1 : mem[a] = Token(a)
               /\ \A a \in DOMAIN mem : a >= here + Width => mem[a] = Old
    <3>1. /\ stage = "swait" /\ ~late /\ Swizzling /\ here \in Nat /\ job.base \in Nat
          /\ Turns \in Nat /\ Width \in Nat /\ adr \in Nat
      BY <2>1, <1>1, <1>2, <1>7 DEF UploadTyped
    <3>2. /\ adr + Len(fifo) = here + Width /\ \A a \in job.base .. adr - 1 : mem[a] = Token(a)
          /\ \A a \in DOMAIN mem : a >= here + Width => mem[a] = Old
      BY ONLY <3>1 DEF Swizzling
    <3>3. fifo = << >> /\ Len(fifo) = 0
      BY <2>1, <1>7, EmptySeq
    <3> QED BY <3>1, <3>2, <3>3
  <2>2. /\ stage' = "swizzle" /\ writes' /\ job'.len % Consume' = 0 /\ done' % Consume' = 0
        /\ done' <= job'.len
    BY <1>1, <1>3, <1>4, <1>5
  <2>3. Len(<< >>) = 0
    BY EmptySeq
  <2>4. \/ late'
        \/ (LET h == job.base + Turns * Width
            IN /\ fifo = << >> /\ \A a \in job.base .. h - 1 : mem[a] = Token(a)
               /\ \A k \in 1 .. Len(fifo) : FALSE
               /\ \A a \in DOMAIN mem : a >= h => mem[a] = Old)'
    BY <2>1, <2>3, <1>1, <1>5, <1>6
  <2> QED BY <2>2, <2>4 DEF Swizzling
<1> QED BY <1>1, <1>8, <1>9, <1>10, OnlySwizzles DEF CallInv

-----------------------------------------------------------------------------
\* The data line.

LEMMA DataIs ==
    ASSUME CallInv, stage \in {"data", "dwait", "dcheck"}
    PROVE  /\ UploadTyped /\ KeptOff /\ Belongs /\ Sending /\ Fitting /\ job.format = "data"
           /\ job.base \in Nat /\ job.size \in Nat /\ job.size <= MemBuf
           /\ job.base + job.size <= MemSize /\ MemSize \in Nat /\ done \in 0 .. 1 /\ late \in BOOLEAN
           /\ DOMAIN Expected = job.base .. job.base + job.size - 1
           /\ \A a \in DOMAIN Expected : Expected[a] = a - job.base + 1
           /\ DataBytes \in Seq(Int) /\ Len(DataBytes) = job.size
           /\ \A k \in 1 .. job.size : DataBytes[k] = k
<1>1. UploadTyped /\ KeptOff /\ Belongs /\ Sending
  BY DEF CallInv
<1>2. Fitting /\ job.format = "data" /\ done \in 0 .. 1 /\ late \in BOOLEAN
  BY <1>1, InCall DEF Belongs, Sending, UploadTyped
<1>3. /\ job.base \in Nat /\ job.size \in Nat /\ job.size <= MemBuf
      /\ job.base + job.size <= MemSize /\ MemSize \in Nat
  BY <1>2, FittingIs, MemoryAssumption
<1>4. /\ DOMAIN Expected = job.base .. job.base + job.size - 1
      /\ \A a \in DOMAIN Expected : Expected[a] = a - job.base + 1
  BY <1>2, ExpectedWhere, ExpectedWhat
<1>5. /\ DataBytes \in Seq(Int) /\ Len(DataBytes) = job.size
      /\ \A k \in 1 .. job.size : DataBytes[k] = k
  <2>1. /\ DataBytes \in Seq(Int) /\ Len(DataBytes) = job.size
        /\ \A k \in 1 .. job.size : DataBytes[k] = 0 + k
    BY <1>3, BytesAre DEF DataBytes
  <2> QED BY <2>1, <1>3
<1> QED BY <1>1, <1>2, <1>3, <1>4, <1>5

LEMMA OnlyData ==
    ASSUME CallInv, stage \in {"data", "dwait", "dcheck"}, stage' \in {"data", "dwait", "dcheck"},
           UNCHANGED <<job, result, err>>
    PROVE  /\ NoneWrong' /\ Idle' /\ Belongs' /\ Counted' /\ Earlier' /\ Uploading' /\ Comparing' /\ Compared'
           /\ Swizzling' /\ Storing' /\ Returned'
<1>1. job.format = "data" /\ Belongs
  BY DEF CallInv, Belongs
<1> QED BY <1>1 DEF Idle, Belongs, Counted, Earlier, AtWork, Uploading, Comparing, Compared, Swizzling,
           Storing, Returned, NoneWrong, Loads, Checks

LEMMA SendDataKeeps ==
    ASSUME CallInv, SendData
    PROVE  CallInv'
<1>1. /\ stage = "data" /\ stage' = "dwait" /\ adr' = job.base /\ writes' = TRUE
      /\ fifo' = DataBytes \/ fifo' = << >>
      /\ late' = (late \/ fifo' # DataBytes)
      /\ UNCHANGED <<mem, at, err, left, buf, rc, out, job, done, result, opened>>
  BY DEF SendData, BufToMem, xfer, file, call
<1>2. /\ UploadTyped /\ KeptOff /\ Fitting /\ job.format = "data"
      /\ job.base \in Nat /\ job.size \in Nat /\ job.size <= MemBuf
      /\ job.base + job.size <= MemSize /\ MemSize \in Nat /\ done \in 0 .. 1 /\ late \in BOOLEAN
      /\ DOMAIN Expected = job.base .. job.base + job.size - 1
      /\ DataBytes \in Seq(Int) /\ Len(DataBytes) = job.size
      /\ \A k \in 1 .. job.size : DataBytes[k] = k
  BY <1>1, DataIs
<1>3. Expected' = Expected /\ Fitting' = Fitting
  BY <1>1, SameCall
<1>4. fifo' \in Seq(Int) /\ Len(fifo') \in 0 .. job.size
  <2> DEFINE f == fifo'
  <2>1. f = DataBytes \/ f = << >>
    BY <1>1
  <2>2. Len(<< >>) = 0 /\ << >> \in Seq(Int)
    BY EmptySeq
  <2> HIDE DEF f
  <2>3. f \in Seq(Int) /\ (Len(f) = job.size \/ Len(f) = 0)
    BY <2>1, <2>2, <1>2
  <2> QED BY <2>3, <1>2 DEF f
<1>5. UploadTyped'
  <2> DEFINE l == Len(fifo')
             b == job.base
             s == job.size
  <2>1. /\ l \in 0 .. s /\ b \in Nat /\ s \in Nat /\ s <= MemBuf /\ b + s <= MemSize /\ MemSize \in Nat
        /\ MemBuf \in Nat
    BY <1>2, <1>4, BufferAssumption
  <2> HIDE DEF l, b, s
  <2>2. b + l <= MemSize /\ l <= MemBuf
    BY ONLY <2>1
  <2>3. adr' + Len(fifo') <= MemSize /\ Len(fifo') <= MemBuf /\ adr' \in Nat
    BY <2>2, <1>1, <1>2 DEF l, b
  <2> QED BY <2>3, <1>1, <1>2, <1>3, <1>4 DEF UploadTyped, Stages
<1>6. KeptOff'
  <2>1. ASSUME NEW k \in 1 .. Len(fifo')
        PROVE  adr' + k - 1 \in DOMAIN Expected'
    <3>1. k \in 1 .. job.size
      BY <2>1, <1>2, <1>4
    <3>2. job.base + k - 1 \in DOMAIN Expected
      BY <3>1, <1>2
    <3> QED BY <3>2, <1>1, <1>3
  <2> QED BY <2>1, <1>1, <1>2, <1>3 DEF KeptOff
<1>7. Sending'
  <2>1. ASSUME ~late'
        PROVE  /\ job.base <= adr' /\ adr' + Len(fifo') = job.base + job.size
               /\ \A a \in job.base .. adr' - 1 : mem'[a] = a - job.base + 1
               /\ \A k \in 1 .. Len(fifo') : fifo'[k] = adr' + k - job.base
    <3>1. fifo' = DataBytes
      BY <2>1, <1>1
    <3>2. Len(fifo') = job.size
      BY <3>1, <1>2
    <3>3. job.base <= adr' /\ adr' + Len(fifo') = job.base + job.size
          /\ \A a \in job.base .. adr' - 1 : FALSE
      BY <3>2, <1>1, <1>2
    <3>4. ASSUME NEW k \in 1 .. Len(fifo')
          PROVE  fifo'[k] = adr' + k - job.base
      <4>1. k \in 1 .. job.size
        BY <3>2, <3>4
      <4>2. fifo'[k] = k
        BY <4>1, <3>1, <1>2
      <4>3. job.base + k - job.base = k
        BY <4>1, <1>2
      <4> QED BY <4>2, <4>3, <1>1
    <3> QED BY <3>3, <3>4
  <2> QED BY <2>1, <1>1, <1>2 DEF Sending
<1> QED BY <1>1, <1>5, <1>6, <1>7, OnlyData DEF CallInv

LEMMA DataWaitKeeps ==
    ASSUME CallInv, DataWait
    PROVE  CallInv'
<1>1. stage = "dwait" /\ UNCHANGED <<fpga, xfer>>
  BY DEF DataWait
<1>2. UNCHANGED <<mem, fifo, adr, writes, at, err, left, buf, rc, out>>
  BY <1>1 DEF fpga, xfer, file
<1>3. /\ UploadTyped /\ KeptOff /\ Sending /\ Fitting /\ job.format = "data" /\ done \in 0 .. 1
      /\ job.base \in Nat /\ job.size \in Nat
      /\ DOMAIN Expected = job.base .. job.base + job.size - 1
      /\ \A a \in DOMAIN Expected : Expected[a] = a - job.base + 1
      /\ late \in BOOLEAN
  BY <1>1, DataIs
<1>4. CASE InTime /\ done = 1 /\ Return(0)
  <2>1. /\ fifo = << >> /\ late' = late /\ stage' = "return" /\ result' = 0 /\ opened' = 0
        /\ UNCHANGED <<job, done>>
    BY <1>4 DEF InTime, Return
  <2>2. ASSUME ~late
        PROVE  \A a \in DOMAIN Expected : mem[a] = Expected[a]
    <3>1. /\ adr + Len(fifo) = job.base + job.size
          /\ \A a \in job.base .. adr - 1 : mem[a] = a - job.base + 1
      BY <2>2, <1>1, <1>3 DEF Sending
    <3>2. Len(fifo) = 0 /\ adr \in Nat
      BY <2>1, <1>3, EmptySeq DEF UploadTyped
    <3>3. adr = job.base + job.size
      BY <3>1, <3>2, <1>3
    <3> QED BY <3>1, <3>3, <1>3
  <2> QED BY <2>1, <2>2, <1>1, <1>3, ReturnKeeps DEF Loads
<1>5. CASE /\ InTime /\ done = 0
           /\ IF job.verify THEN stage' = "dcheck" /\ UNCHANGED call
              ELSE stage' = "data" /\ done' = 1 /\ UNCHANGED <<job, result, opened>>
  <2>1. /\ fifo = << >> /\ late' = late /\ stage' \in {"data", "dcheck"} /\ done' \in 0 .. 1
        /\ UNCHANGED <<job, result, opened>>
    BY <1>3, <1>5 DEF InTime, call
  <2>2. Expected' = Expected /\ Fitting' = Fitting
    BY <2>1 DEF Expected, Fitting
  <2>3. UploadTyped'
    <3>1. stage' \in Stages /\ at' \in 0 .. job'.len /\ done' \in Nat
      BY <2>1, <1>2, <1>3 DEF Stages, UploadTyped
    <3> QED BY <3>1, <2>1, <2>2, <1>2, <1>3 DEF UploadTyped
  <2>4. KeptOff'
    BY <2>1, <2>2, <1>2, <1>3 DEF KeptOff
  <2>5. Sending'
    BY <2>1, <1>2 DEF Sending
  <2> QED BY <2>1, <2>3, <2>4, <2>5, <1>1, <1>2, OnlyData DEF CallInv
<1>6. CASE TimesOut /\ Return(1)
  <2>1. late' = TRUE /\ stage' = "return" /\ result' = 1 /\ opened' = 0 /\ UNCHANGED <<job, done>>
    BY <1>6 DEF TimesOut, Return
  <2> QED BY <2>1, <1>1, <1>3, ReturnKeeps DEF Loads
<1> QED BY <1>4, <1>5, <1>6 DEF DataWait

LEMMA DataCheckKeeps ==
    ASSUME CallInv, DataCheck
    PROVE  CallInv'
<1>1. stage = "dcheck" /\ UNCHANGED <<fpga, xfer>>
  BY DEF DataCheck
<1>2. /\ Fitting /\ job.format = "data" /\ job.base \in Nat /\ job.size \in Nat
      /\ DOMAIN Expected = job.base .. job.base + job.size - 1
      /\ \A a \in DOMAIN Expected : Expected[a] = a - job.base + 1
      /\ \A k \in 1 .. job.size : DataBytes[k] = k
      /\ late \in BOOLEAN
  BY <1>1, DataIs
<1>3. CASE InTime /\ Return(IF MemToBuf(job.base, job.size) \cap {DataBytes} = {} THEN 1 ELSE 0)
  <2>1. /\ fifo = << >> /\ late' = late /\ stage' = "return" /\ opened' = 0
        /\ result' = (IF MemToBuf(job.base, job.size) \cap {DataBytes} = {} THEN 1 ELSE 0)
        /\ UNCHANGED <<job, done>>
    BY <1>3 DEF InTime, Return
  <2>2. ASSUME result' = 0, NEW a \in DOMAIN Expected
        PROVE  mem[a] = Expected[a]
    <3> DEFINE k == a - job.base + 1
    <3>1. k \in 1 .. job.size /\ job.base + k - 1 = a /\ Expected[a] = k
      BY <2>2, <1>2
    <3> HIDE DEF k
    <3>2. DataBytes \in MemToBuf(job.base, job.size)
      BY <2>1, <2>2
    <3>3. \/ DataBytes = [w \in 1 .. job.size |-> mem[job.base + w - 1]]
          \/ DataBytes = [w \in 1 .. job.size |-> Garbage]
      BY <3>2 DEF MemToBuf
    <3>4. DataBytes[k] = k /\ k \in Nat /\ Garbage \notin Nat
      BY <3>1, <1>2 DEF Garbage
    <3>5. DataBytes[k] = mem[job.base + k - 1] \/ DataBytes[k] = Garbage
      BY <3>1, <3>3
    <3> QED BY <3>1, <3>4, <3>5
  <2>3. result' \in 0 .. 1
    BY <2>1
  <2> QED BY <2>1, <2>2, <2>3, <1>1, <1>2, ReturnKeeps DEF Loads
<1>4. CASE TimesOut /\ \E r \in {0, 1} : Return(r)
  <2>1. /\ late' = TRUE /\ stage' = "return" /\ result' \in 0 .. 1 /\ opened' = 0
        /\ UNCHANGED <<job, done>>
    BY <1>4 DEF TimesOut, Return
  <2> QED BY <2>1, <1>1, <1>2, ReturnKeeps DEF Loads
<1> QED BY <1>3, <1>4 DEF DataCheck

-----------------------------------------------------------------------------
\* Downloads begin and end.

LEMMA DownloadBegins ==
    ASSUME CallInv, Download
    PROVE  CallInv'
<1>1. UploadTyped /\ KeptOff /\ Belongs /\ stage = "download" /\ job.format = "download"
  BY DEF CallInv, Belongs, Download
<1>2. Fitting
  BY <1>1, InCall
<1>3. job.base \in Nat /\ job.size \in Nat /\ job.size # 0 /\ job.base + job.size <= MemSize
  BY <1>1, <1>2, FittingIs
<1>4. /\ stage' = "fetch" /\ adr' = job.base /\ writes' = FALSE /\ fifo' = << >> /\ left' = job.size
      /\ buf' = << >> /\ rc' = 0 /\ out' = << >>
      /\ UNCHANGED <<mem, at, err, late, job, done, result, opened>>
  BY <1>3 DEF Download, MemToFile, call, file
<1>5. Expected' = Expected /\ Fitting' = Fitting
  BY <1>4, SameCall
<1>6. /\ Len(<< >>) = 0 /\ << >> \in Seq(Int) /\ MemSize \in Nat /\ CardRoom \in Nat /\ MemBuf \in Nat
      /\ FileBuf \in Nat /\ 1 .. 0 = {}
  BY EmptySeq, MemoryAssumption, BufferAssumption
<1>7. UploadTyped'
  <2>1. adr' + Len(fifo') <= MemSize /\ Len(fifo') <= MemBuf /\ Len(buf') <= FileBuf
    BY <1>3, <1>4, <1>6
  <2>2. Fitting' /\ stage' \in Stages
    BY <1>2, <1>4, <1>5 DEF Stages
  <2>3. adr' \in Nat /\ left' \in Nat /\ at' \in 0 .. job'.len
    BY <1>1, <1>3, <1>4 DEF UploadTyped
  <2>4. writes' \in BOOLEAN
    BY <1>4, Zenon
  <2>5. rc' \in 0 .. 2 /\ mem' \in [0 .. MemSize - 1 -> Int] /\ late' \in BOOLEAN /\ err' \in BOOLEAN /\ done' \in Nat /\ result' \in 0 .. 1
    BY <1>1, <1>4 DEF UploadTyped
  <2>6. fifo' \in Seq(Int) /\ buf' \in Seq(Int) /\ out' \in Seq(Int)
    BY <1>4, <1>6
  <2> QED BY <2>1, <2>2, <2>3, <2>4, <2>5, <2>6 DEF UploadTyped
<1>8. KeptOff'
  BY <1>1, <1>4 DEF KeptOff
<1>9. Storing'
  <2>1. Len(buf') = 0 /\ Len(out') = 0 /\ job' = job
    BY <1>4, <1>6
  <2>2. job.base = job.base + (job.size - job.size) + 0 /\ 0 = job.size - job.size
    BY <1>3
  <2> QED BY <2>1, <2>2, <1>3, <1>4, <1>6 DEF Storing
<1>10. Belongs' /\ Counted'
  BY <1>1, <1>4 DEF Belongs, Counted, Loads, Checks
<1>11. /\ Idle' /\ Earlier' /\ Uploading' /\ Comparing' /\ Compared' /\ Swizzling' /\ Sending'
       /\ Returned'
  BY <1>1, <1>4 DEF Idle, Earlier, Uploading, Comparing, Compared, Swizzling, Sending, Returned, Loads
<1>12. NoneWrong'
  BY <1>1, <1>4 DEF NoneWrong
<1> QED BY <1>7, <1>8, <1>9, <1>10, <1>11, <1>12 DEF CallInv

LEMMA StoredKeeps ==
    ASSUME CallInv, Stored
    PROVE  CallInv'
<1>1. /\ stage = "stored" /\ stage' = "return" /\ result' = rc /\ opened' = 0
      /\ UNCHANGED <<job, done, fpga, at, left, buf, rc, late>>
      /\ UNCHANGED <<err, out>> \/ (err' = TRUE /\ out' = << >>)
  BY DEF Stored, Return
<1>2. /\ UploadTyped /\ KeptOff /\ Belongs /\ Storing /\ job.format = "download" /\ fifo = << >>
      /\ rc \in 0 .. 1
  BY <1>1 DEF CallInv, Belongs, KeptOff, Storing
<1>3. Fitting
  BY <1>1, <1>2, InCall
<1>4. job.base \in Nat /\ job.size \in Nat /\ DOMAIN Expected = {}
  BY <1>2, <1>3, FittingIs, ExpectedWhere
<1>5. ASSUME ~late, ~err, job.size <= CardRoom
      PROVE  out = [k \in 1 .. job.size |-> job.base + k]
  <2>1. /\ left = 0 /\ Len(out) = job.size - left /\ \A k \in 1 .. Len(out) : out[k] = job.base + k
    BY <1>1, <1>2, <1>5 DEF Storing
  <2>2. out \in [1 .. Len(out) -> Int] /\ Len(out) = job.size
    BY <2>1, <1>2, <1>4, LenProperties DEF UploadTyped
  <2>3. out = [k \in 1 .. job.size |-> out[k]] /\ \A k \in 1 .. job.size : out[k] = job.base + k
    BY <2>1, <2>2
  <2> QED BY <2>3
<1>6. late' = late /\ late' \in BOOLEAN /\ result' \in 0 .. 1
  BY <1>1, <1>2 DEF UploadTyped
<1>7. out' \in Seq(Int)
  BY <1>1, <1>2, EmptySeq DEF UploadTyped
<1>8. err' \in BOOLEAN /\ (~err' => ~err /\ out' = out)
  <2>1. CASE UNCHANGED <<err, out>>
    BY <2>1, <1>2 DEF UploadTyped
  <2>2. CASE err' = TRUE
    BY <2>2, Zenon
  <2> QED BY <2>1, <2>2, <1>1
<1> QED BY <1>1, <1>2, <1>4, <1>5, <1>6, <1>7, <1>8, ClosingKeeps DEF Loads

-----------------------------------------------------------------------------
\* Every step.

LEMMA UploadStepKeeps ==
    ASSUME CallInv, UploadStep
    PROVE  CallInv'
<1>1. CASE Drain /\ UNCHANGED call
  BY <1>1, DrainKeeps
<1>2. CASE Firmware
  BY <1>2, EndKeeps, PieceKeeps, PrgKeeps, UploadedKeeps, CheckedKeeps, BlockKeeps, SwizzleEndKeeps,
     SwizzleUnreadKeeps, SwizzlePieceKeeps, SwizzleWaitKeeps, SendDataKeeps, DataWaitKeeps, DataCheckKeeps,
     DownloadBegins, StoredKeeps, ReadKeepsLoad, ReadKeepsCheck, SendKeeps, LostKeeps, BufferKeeps,
     StopsKeeps, FinishKeeps, CompareKeeps, FetchKeeps, StoreKeeps, Zenon DEF Firmware
<1> QED BY <1>1, <1>2 DEF UploadStep

LEMMA CallStays ==
    ASSUME CallInv, UNCHANGED uploadVars
    PROVE  CallInv'
<1>1. UNCHANGED <<mem, fifo, adr, writes, stage, at, err, left, buf, rc, out, late, job, done, result, opened>>
  BY DEF uploadVars, fpga, xfer, file, call
<1>2. /\ Origin' = Origin /\ From' = From /\ Wanted' = Wanted /\ Stop' = Stop /\ ToCome' = ToCome
      /\ Expected' = Expected /\ Fitting' = Fitting
      /\ Consume' = Consume /\ Turns' = Turns /\ Width' = Width
  BY <1>1, SameCall, SameToCome
<1>3. /\ \A a : ByteAt(a)' = ByteAt(a)
      /\ \A a : Token(a)' = Token(a)
  BY <1>1, <1>2 DEF ByteAt, Token
<1>4. UploadTyped' /\ KeptOff' /\ Idle' /\ Belongs' /\ Counted' /\ Earlier'
  BY <1>1, <1>2 DEF CallInv, UploadTyped, KeptOff, Idle, Belongs, Counted, Earlier
<1>5. Uploading'
  BY <1>1, <1>2, <1>3 DEF CallInv, Uploading
<1>6. Comparing' /\ Compared'
  BY <1>1, <1>2, <1>3 DEF CallInv, Comparing, Compared
<1>7. Swizzling'
  BY <1>1, <1>2, <1>3 DEF CallInv, Swizzling
<1>8. Sending' /\ Storing' /\ Returned' /\ NoneWrong'
  BY <1>1, <1>2 DEF CallInv, Sending, Storing, Returned, NoneWrong
<1> QED BY <1>4, <1>5, <1>6, <1>7, <1>8 DEF CallInv

LEMMA CallBegins == UploadInit => CallInv
<1> SUFFICES ASSUME UploadInit PROVE CallInv
  OBVIOUS
<1>1. /\ mem = [a \in 0 .. MemSize - 1 |-> Old] /\ fifo = << >> /\ adr = 0 /\ writes = TRUE
      /\ stage = "idle" /\ at = 0 /\ left = 0 /\ buf = << >> /\ rc = 0 /\ out = << >> /\ late = FALSE
      /\ err = FALSE
      /\ job = NoJob /\ done = 0 /\ result = 0 /\ opened = 0 /\ job.format = "none" /\ job.len = 0
  BY DEF UploadInit, NoJob
<1>2. Len(<< >>) = 0 /\ << >> \in Seq(Int) /\ MemSize \in Nat /\ MemBuf \in Nat /\ FileBuf \in Nat
  BY EmptySeq, MemoryAssumption, BufferAssumption
<1>3. UploadTyped
  <2>1. writes \in BOOLEAN /\ late \in BOOLEAN /\ err \in BOOLEAN
    BY <1>1, Zenon
  <2>2. mem \in [0 .. MemSize - 1 -> Int] /\ adr + Len(fifo) <= MemSize
    BY <1>1, <1>2 DEF Old
  <2> QED BY <2>1, <2>2, <1>1, <1>2 DEF UploadTyped, Stages
<1>4. KeptOff /\ Idle /\ Belongs /\ Counted /\ Earlier
  BY <1>1, <1>2 DEF KeptOff, Idle, Belongs, Counted, Earlier, Loads, Checks
<1>5. /\ Uploading /\ Comparing /\ Compared /\ Swizzling /\ Sending /\ Storing /\ Returned
      /\ NoneWrong
  BY <1>1 DEF Uploading, Comparing, Compared, Swizzling, Sending, Storing, Returned, NoneWrong, Loads
<1> QED BY <1>3, <1>4, <1>5 DEF CallInv

LEMMA UploadHolds == CallInv => UploadInv
<1> SUFFICES ASSUME CallInv PROVE UploadInv
  OBVIOUS
<1>1. UploadTyped /\ KeptOff /\ Idle /\ Returned /\ NoneWrong
  BY DEF CallInv
<1>2. UploadTypeOK
  <2>1. fifo \in Seq(Int) /\ adr \in Nat /\ adr + Len(fifo) <= MemSize /\ MemSize \in Nat
    BY <1>1, MemoryAssumption DEF UploadTyped
  <2>2. adr \in 0 .. MemSize
    BY <2>1, LenProperties
  <2> QED BY <2>2, <1>1 DEF UploadTyped, UploadTypeOK
<1>3. UploadKeepsOff
  BY <1>1 DEF KeptOff, Idle, Returned, UploadKeepsOff
<1>4. UploadRight
  BY <1>1 DEF Returned, UploadRight
<1>5. UploadNoneWrong
  BY <1>1 DEF NoneWrong, UploadNoneWrong
<1> QED BY <1>2, <1>3, <1>4, <1>5 DEF UploadInv

LEMMA CallStep ==
    ASSUME JobsFit, CallInv, [RomNext]_allVars
    PROVE  CallInv'
<1>1. CASE UNCHANGED uploadVars
  BY <1>1, CallStays
<1>2. CASE UploadStep
  BY <1>2, UploadStepKeeps
<1>3. ASSUME NEW j \in Jobs, Begin(j)
      PROVE  CallInv'
  BY <1>3, BeginKeeps, JobsAssumption DEF JobsFit
<1>4. CASE Browse
  BY <1>1, <1>4 DEF Browse
<1>5. CASE ChooseRom
  BY <1>3, <1>5 DEF ChooseRom
<1>6. CASE RunJob
  BY <1>3, <1>6 DEF RunJob
<1> QED BY <1>1, <1>2, <1>4, <1>5, <1>6 DEF RomNext, allVars

\* RomLoader's UploadInv, of every call that fits into the memory: an upload writes
\* nowhere but where it is to write, also when a wait times out between two chunks or
\* the card fails, no call leaves a file open, and one that returns without an error
\* has done all of its job unless the card failed, for a verified upload even if waits
\* timed out.  If the card fails, what is in the memory is still no wrong byte of the
\* file, and a swizzled file's upload does return an error.
THEOREM UploadsCorrect ==
    ASSUME JobsFit
    PROVE  RomSpec => []UploadInv
<1>1. RomInit => CallInv
  BY CallBegins DEF RomInit
<1>2. CallInv /\ [RomNext]_allVars => CallInv'
  BY CallStep
<1> QED BY <1>1, <1>2, UploadHolds, PTL DEF RomSpec
=============================================================================
