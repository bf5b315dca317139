---------------------------- MODULE Drv00Proofs ----------------------------
(***************************************************************************)
(* For any number of channels, any sector size, media and requests, the    *)
(* generic driver moves the bytes of a request in order and without a gap  *)
(* and says OK only if all were moved: Drv00 implements FileChannel.       *)
(***************************************************************************)
EXTENDS Drv00, Integers, TLAPS

-----------------------------------------------------------------------------
(* Arithmetic of one round of the transfer loop.                            *)

LEMMA SmallerNat ==
    ASSUME NEW a \in Int, NEW b \in Int
    PROVE  /\ Smaller(a, b) \in Int
           /\ Smaller(a, b) <= a /\ Smaller(a, b) <= b
           /\ Smaller(a, b) = a \/ Smaller(a, b) = b
BY DEF Smaller

\* Whole sectors in a number of units.
LEMMA Sectors ==
    ASSUME NEW n \in Nat, NEW b \in Nat \ {0}
    PROVE  /\ (n \div b) * b \in Nat /\ (n \div b) * b <= n
           /\ n >= b => (n \div b) * b >= b
           /\ ((n \div b) * b) % b = 0
           /\ n % b \in 0 .. b - 1 /\ n % b <= n
BY SMT

LEMMA ChunkBounds ==
    ASSUME addr \in Nat, left \in Nat, left # 0
    PROVE  Chunk \in 1 .. left
<1>1. addr % Blk \in 0 .. Blk - 1
  BY Sectors, BlkAssumption
<1> QED BY <1>1, BlkAssumption DEF Chunk, Smaller

\* The loop asks FatFs for something, and never for more than is left.
LEMMA SizeBounds ==
    ASSUME addr \in Nat, left \in Nat, left # 0
    PROVE  Size \in 1 .. left /\ (Burstable => Size % Blk = 0)
<1>1. CASE Burstable
  <2>1. left >= Blk
    BY <1>1, BlkAssumption DEF Burstable, Chunk, Smaller
  <2> DEFINE s == (left \div Blk) * Blk
  <2>2. s \in Nat /\ s <= left /\ s >= Blk /\ s % Blk = 0
    BY <2>1, Sectors, BlkAssumption
  <2>3. Size = s
    BY <1>1 DEF Size
  <2> HIDE DEF s
  <2> QED BY <2>2, <2>3, BlkAssumption
<1>2. CASE ~Burstable
  BY <1>2, ChunkBounds DEF Size
<1> QED BY <1>1, <1>2

-----------------------------------------------------------------------------
(* The invariant.                                                           *)

ReqShape == req = [c \in Channel |-> req[c]]

DrvInv == Inv /\ ReqShape

FileOK ==
    /\ file \in [Channel -> [Drive -> File]]
    /\ \A c \in Channel, d \in Drive : file[c][d].fptr <= file[c][d].size

\* What is known of the request and the file while a channel is served.
LEMMA ServedType ==
    ASSUME Inv, pc \in Serving \cup {"begin"}
    PROVE  /\ r.drive \in Drive /\ r.addr \in Nat /\ r.size \in Nat
           /\ r.dir \in {"read", "write"}
           /\ f \in File /\ f.fptr \in 0 .. f.size /\ f.size <= Room
           /\ phase[ch] = IF pc = "begin" THEN "req" ELSE "busy"
<1>1. phase[ch] = IF pc = "begin" THEN "req" ELSE "busy"
  BY DEF Inv, TypeOK, OneServed, Serving
<1>2. r \in Requests[ch] /\ ch \in Channel
  BY <1>1 DEF Inv, TypeOK, r
<1>3. r \in [dir : {"read", "write"}, drive : Drive, addr : Nat, size : Nat]
  BY <1>2, RequestAssumption
<1>4. f \in File /\ f.fptr <= f.size
  BY <1>2, <1>3 DEF Inv, TypeOK, f
<1> QED BY <1>1, <1>3, <1>4, BlkAssumption DEF File

\* The file of the served drive is replaced by a well-typed one.
LEMMA FileKept ==
    ASSUME Inv, pc \in Serving, NEW new \in File, new.fptr <= new.size,
           file' = [file EXCEPT ![ch][r.drive] = new]
    PROVE  FileOK' /\ file'[ch][r.drive] = new
<1>1. r.drive \in Drive /\ ch \in Channel
  BY ServedType DEF Inv, TypeOK
<1>2. \A c \in Channel, d \in Drive :
         file'[c][d] = IF c = ch /\ d = r.drive THEN new ELSE file[c][d]
  BY <1>1 DEF Inv, TypeOK
<1>3. file' \in [Channel -> [Drive -> File]]
  BY <1>1 DEF Inv, TypeOK
<1> QED BY <1>1, <1>2, <1>3 DEF FileOK, Inv, TypeOK

\* What becomes of a file that is moved along.
LEMMA AtType ==
    ASSUME NEW x \in File, NEW pos \in 0 .. Room, x.fptr <= x.size
    PROVE  /\ At(x, pos) \in File /\ At(x, pos).fptr = pos /\ At(x, pos).mode = x.mode
           /\ At(x, pos).size = (IF pos > x.size THEN pos ELSE x.size)
           /\ At(x, pos).fptr <= At(x, pos).size
<1>1. /\ At(x, pos).fptr = pos /\ At(x, pos).mode = x.mode
      /\ At(x, pos).size = (IF pos > x.size THEN pos ELSE x.size)
  BY DEF At, File
<1>2. x.size \in 0 .. Room /\ x.fptr \in 0 .. Room /\ Room \in Nat
  BY BlkAssumption DEF File
<1>3. At(x, pos) \in File
  BY <1>2 DEF At, File
<1> QED BY <1>1, <1>2, <1>3

LEMMA FailedType ==
    ASSUME NEW x \in File, NEW pos \in 0 .. x.size
    PROVE  /\ Failed(x, pos) \in File
           /\ Failed(x, pos).fptr <= Failed(x, pos).size
<1>1. x.size \in 0 .. Room /\ Room \in Nat
  BY BlkAssumption DEF File
<1>2. pos \in 0 .. Room
  BY <1>1
<1>3. Failed(x, pos).fptr = pos /\ Failed(x, pos).size = x.size
  BY DEF Failed, File
<1>4. Failed(x, pos) \in File
  BY <1>1, <1>2 DEF Failed, File
<1> QED BY <1>1, <1>3, <1>4

LEMMA ErrType ==
    ASSUME NEW x \in File, NEW e \in BOOLEAN
    PROVE  /\ [x EXCEPT !.err = e] \in File
           /\ [x EXCEPT !.err = e].fptr = x.fptr /\ [x EXCEPT !.err = e].size = x.size
BY DEF File

\* The next channel is a channel.
LEMMA NextChannel == ch \in Channel => (ch + 1) % Channels \in Channel
<1> SUFFICES ASSUME ch \in Channel PROVE (ch + 1) % Channels \in Channel
  OBVIOUS
<1>1. ch + 1 \in Nat
  BY ChannelAssumption DEF Channel
<1>2. (ch + 1) % Channels \in 0 .. Channels - 1
  BY <1>1, Sectors, ChannelAssumption
<1> QED BY <1>2 DEF Channel

\* A transfer that is acknowledged, however it ends.
LEMMA AckReturnKeeps ==
    ASSUME DrvInv, pc \in Serving, NEW a \in {"ok", "seek", "trunc", "abort"},
           Ack(a), Return, moved' = moved, FileOK'
    PROVE  DrvInv'
<1>1. phase[ch] = "busy" /\ ch \in Channel
  BY ServedType DEF DrvInv, Inv, TypeOK, Serving
<1>2. /\ \A c \in Channel : phase'[c] = IF c = ch THEN "idle" ELSE phase[c]
      /\ phase' \in [Channel -> {"idle", "req", "busy"}]
      /\ answer' \in [Channel -> {"none", "ok", "seek", "trunc", "abort"}]
      /\ req' = req
  BY <1>1 DEF DrvInv, Inv, TypeOK, Ack
<1>3. /\ pc' = "poll" /\ goes' = 0 /\ addr' = 0 /\ left' = 0
      /\ ch' \in Channel
  BY <1>1, NextChannel DEF Return
<1>4. TypeOK'
  BY <1>2, <1>3, LimitAssumption DEF FileOK, TypeOK, DrvInv, Inv
<1>5. OneServed'
  BY <1>2, <1>3 DEF OneServed, Serving, DrvInv, Inv
<1>6. Counted'
  BY <1>3 DEF Counted
<1>7. ReqShape'
  BY <1>2 DEF DrvInv, ReqShape
<1> QED BY <1>4, <1>5, <1>6, <1>7 DEF DrvInv, Inv

\* The steps that leave the file and what was moved alone.
LEMMA QuietKeeps ==
    ASSUME DrvInv,
           Poll \/ Begin \/ NotMounted \/ WriteProtected \/ Truncated \/ NoData \/ WaitStat
               \/ Done \/ More
    PROVE  DrvInv'
<1> USE DEF DrvInv, Inv
<1>1. ch \in Channel /\ FileOK
  BY DEF TypeOK, FileOK
<1>2. ASSUME file' = file PROVE FileOK'
  BY <1>1, <1>2 DEF FileOK
<1>3. CASE Poll
  <2>1. ch' \in Channel /\ goes' \in 0 .. ProcessLimit /\ addr' \in Nat /\ left' \in Nat
        /\ pc' \in {"poll", "begin"}
    BY <1>1, <1>3, NextChannel, LimitAssumption DEF Poll, Return, TypeOK
  <2>2. pc' = "begin" => phase'[ch'] = "req" /\ goes' # 0
    BY <1>3, LimitAssumption DEF Poll, Return, core
  <2> QED BY <1>3, <2>1, <2>2 DEF Poll, core, TypeOK, OneServed, Counted, ReqShape, Serving
<1>4. CASE Begin
  <2>1. phase[ch] = "req" /\ r.addr \in Nat /\ r.size \in Nat /\ moved[ch] = << >>
    BY <1>1, <1>4, ServedType DEF Begin, OneServed
  <2>2. \A c \in Channel : phase'[c] = IF c = ch THEN "busy" ELSE phase[c]
    BY <1>1, <1>4 DEF Begin, TypeOK
  <2>3. phase' \in [Channel -> {"idle", "req", "busy"}]
    BY <1>1, <1>4 DEF Begin, TypeOK
  <2>4. TypeOK'
    BY <1>4, <2>1, <2>2, <2>3 DEF Begin, TypeOK
  <2>5. OneServed'
    BY <1>4, <2>2 DEF Begin, OneServed, Serving
  <2>6. Counted'
    BY <1>4, <2>1 DEF Begin, Counted, r
  <2> QED BY <1>4, <2>4, <2>5, <2>6 DEF Begin, ReqShape
<1>5. CASE NotMounted
  BY <1>2, <1>5, AckReturnKeeps DEF NotMounted, Serving
<1>6. CASE WriteProtected
  BY <1>2, <1>6, AckReturnKeeps DEF WriteProtected, Serving
<1>7. CASE Truncated
  BY <1>2, <1>7, AckReturnKeeps DEF Truncated, Serving
<1>8. CASE NoData
  <2>1. Len(moved[ch]) = r.size
    BY <1>1, <1>8, ServedType DEF NoData, Counted, TypeOK, Serving
  <2> QED BY <1>8, <2>1
          DEF NoData, core, TypeOK, OneServed, Counted, ReqShape, Serving, r
<1>9. CASE WaitStat
  <2>1. CASE pc' = "loop" /\ UNCHANGED <<core, ch, goes, addr, left>>
    BY <1>9, <2>1
       DEF WaitStat, core, TypeOK, OneServed, Counted, ReqShape, Serving, r, f
  <2>2. CASE Ack("abort") /\ Return /\ UNCHANGED moved
    BY <1>2, <1>9, <2>2, AckReturnKeeps DEF WaitStat, Serving
  <2> QED BY <1>9, <2>1, <2>2 DEF WaitStat
<1>10. CASE Done
  <2>1. \A c \in Channel : phase'[c] = IF c = ch THEN "idle" ELSE phase[c]
    BY <1>1, <1>10 DEF Done, Ack, TypeOK
  <2>2. /\ phase' \in [Channel -> {"idle", "req", "busy"}]
        /\ answer' \in [Channel -> {"none", "ok", "seek", "trunc", "abort"}]
    BY <1>1, <1>10 DEF Done, Ack, TypeOK
  <2>3. TypeOK'
    BY <1>10, <2>1, <2>2 DEF Done, Ack, TypeOK
  <2>4. OneServed'
    BY <1>10, <2>1 DEF Done, OneServed, Serving
  <2> QED BY <1>10, <2>3, <2>4 DEF Done, Ack, Counted, ReqShape
<1>11. CASE More
  <2>1. pc' = "begin" => phase'[ch'] = "req" /\ goes' # 0
    BY <1>11, LimitAssumption DEF More, Return, core, TypeOK, OneServed
  <2>2. ch' \in Channel /\ goes' \in 0 .. ProcessLimit /\ addr' \in Nat /\ left' \in Nat
        /\ pc' \in {"poll", "begin"}
    BY <1>1, <1>11, NextChannel, LimitAssumption DEF More, Return, TypeOK, OneServed
  <2> QED BY <1>11, <2>1, <2>2 DEF More, core, TypeOK, OneServed, Counted, ReqShape, Serving
<1> QED BY <1>3, <1>4, <1>5, <1>6, <1>7, <1>8, <1>9, <1>10, <1>11

\* FF_Seek leaves the file at the request, or at an end behind which no unit is
\* moved.
LEMMA SeekKeeps == DrvInv /\ Seek => DrvInv'
<1> SUFFICES ASSUME DrvInv, Seek PROVE DrvInv'
  OBVIOUS
<1>1. TypeOK /\ OneServed /\ Counted /\ ReqShape /\ pc = "seek"
  BY DEF DrvInv, Inv, Seek
<1>2. /\ pc \in Serving /\ ch \in Channel /\ r.drive \in Drive /\ r.addr \in Nat
      /\ f \in File /\ f.fptr \in 0 .. f.size /\ f.size \in 0 .. Room /\ Room \in Nat
  BY <1>1, ServedType, BlkAssumption DEF DrvInv, Inv, Serving, TypeOK, File
<1>3. addr = r.addr /\ left = r.size /\ moved[ch] = << >> /\ r.size \in Nat
  BY <1>1, ServedType DEF DrvInv, Inv, Serving, Counted
<1>4. ASSUME pc' = "loop", UNCHANGED <<core, ch, goes, addr, left>>, FileOK',
             f'.fptr = addr \/ (f'.fptr = f'.size /\ f'.size < addr
                                /\ (f'.mode = "readonly" \/ f'.size = Room))
      PROVE  DrvInv'
  <2>1. TypeOK'
    BY <1>1, <1>4 DEF core, TypeOK, FileOK
  <2>2. OneServed'
    BY <1>1, <1>4 DEF core, OneServed, Serving
  <2>3. Counted'
    BY <1>2, <1>3, <1>4 DEF core, Counted, r
  <2> QED BY <1>1, <1>4, <2>1, <2>2, <2>3 DEF core, ReqShape, DrvInv, Inv
<1>5. CASE f.fptr = addr /\ pc' = "loop" /\ UNCHANGED <<file, core, ch, goes, addr, left>>
  <2>1. FileOK' /\ f' = f
    BY <1>1, <1>5 DEF FileOK, TypeOK, core, f, r
  <2> QED BY <1>4, <1>5, <2>1
<1>6. CASE /\ f.fptr # addr /\ ~f.err
           /\ pc' = "loop" /\ UNCHANGED <<core, ch, goes, addr, left>>
           /\ file' = [file EXCEPT ![ch][r.drive] = At(f, Smaller(addr, SeekEnd))]
  <2> DEFINE pos == Smaller(addr, SeekEnd)
  <2>1. /\ pos \in 0 .. Room
        /\ \/ pos = addr
           \/ pos < addr /\ pos = IF f.mode = "readonly" THEN f.size ELSE Room
    BY <1>2, <1>3 DEF Smaller, SeekEnd
  <2> HIDE DEF pos
  <2>2. /\ At(f, pos) \in File /\ At(f, pos).fptr = pos /\ At(f, pos).mode = f.mode
        /\ At(f, pos).size = (IF pos > f.size THEN pos ELSE f.size)
        /\ At(f, pos).fptr <= At(f, pos).size
    BY <1>2, <2>1, AtType
  <2>3. file' = [file EXCEPT ![ch][r.drive] = At(f, pos)]
    BY <1>6 DEF pos
  <2>4. FileOK' /\ file'[ch][r.drive] = At(f, pos)
    BY <1>2, <2>2, <2>3, FileKept DEF DrvInv
  <2>5. f' = At(f, pos)
    BY <1>6, <2>4 DEF f, r, core
  <2>6. At(f, pos).fptr = addr
        \/ (At(f, pos).fptr = At(f, pos).size /\ At(f, pos).size < addr
            /\ (At(f, pos).mode = "readonly" \/ At(f, pos).size = Room))
    BY <1>2, <1>3, <2>1, <2>2
  <2> QED BY <1>4, <1>6, <2>4, <2>5, <2>6
<1>7. CASE /\ f.fptr # addr
           /\ \E pos \in IF f.err THEN {f.fptr} ELSE 0 .. f.size :
                 file' = [file EXCEPT ![ch][r.drive] = Failed(f, pos)]
           /\ Ack("seek") /\ Return /\ UNCHANGED moved
  <2>1. PICK pos \in 0 .. f.size : file' = [file EXCEPT ![ch][r.drive] = Failed(f, pos)]
    BY <1>2, <1>7
  <2>2. Failed(f, pos) \in File /\ Failed(f, pos).fptr <= Failed(f, pos).size
    BY <1>2, FailedType
  <2>3. FileOK'
    BY <1>2, <2>1, <2>2, FileKept DEF DrvInv
  <2> QED BY <1>2, <1>7, <2>3, AckReturnKeeps
<1> QED BY <1>5, <1>6, <1>7 DEF Seek

-----------------------------------------------------------------------------
(* One round of the transfer loop.                                          *)

\* What is appended to the units moved so far.
Run(from, n) == [i \in 1 .. n |-> from + i - 1]

LEMMA RunType ==
    ASSUME NEW from \in Nat, NEW n \in Nat
    PROVE  Run(from, n) \in Seq(Nat) /\ Len(Run(from, n)) = n
<1>1. \A i \in 1 .. n : from + i - 1 \in Nat
  OBVIOUS
<1> QED BY <1>1 DEF Run

LEMMA NoRun == ASSUME NEW from \in Nat PROVE Run(from, 0) = << >>
BY DEF Run

LEMMA Joined ==
    ASSUME NEW s \in Seq(Nat), NEW t \in Seq(Nat)
    PROVE  s \o t \in Seq(Nat) /\ Len(s \o t) = Len(s) + Len(t) /\ Len(s) \in Nat
OBVIOUS

\* A round as ReadChunk and WriteChunk make it: k of n units were counted, sent of
\* them moved, and the file is at its old place when nothing was.
Round(n, k, sent, new) ==
    /\ n \in 1 .. left /\ k \in 0 .. n /\ sent \in 0 .. k
    /\ k = n => sent = n /\ new.fptr = addr + n
    /\ sent # 0 => f.fptr = addr
    /\ new \in File /\ new.fptr <= new.size

LEMMA RoundKeeps ==
    ASSUME DrvInv, pc = "loop", left # 0, NEW n, NEW k, NEW sent, NEW new,
           Round(n, k, sent, new), Advance(n, k, sent, new), UNCHANGED goes
    PROVE  DrvInv'
<1>1. TypeOK /\ OneServed /\ Counted /\ ReqShape
  BY DEF DrvInv, Inv
<1>2. /\ pc \in Serving /\ ch \in Channel /\ phase[ch] = "busy"
      /\ r.addr \in Nat /\ r.size \in Nat /\ f.fptr \in Nat
      /\ addr \in Nat /\ left \in Nat /\ moved[ch] \in Seq(Nat)
  BY <1>1, ServedType, BlkAssumption DEF DrvInv, Inv, Serving, TypeOK
<1>3. addr = r.addr + Len(moved[ch]) /\ Len(moved[ch]) + left = r.size
  BY <1>1 DEF Counted
<1>4. /\ n \in Nat \ {0} /\ n <= left /\ k \in Nat /\ k <= n
      /\ sent \in Nat /\ sent <= k
  BY <1>2 DEF Round
<1>5. FileOK' /\ file'[ch][r.drive] = new
  BY <1>2, FileKept DEF DrvInv, Advance, Round
<1> DEFINE old == moved[ch]
           run == Run(f.fptr, sent)
<1>6. moved' = [moved EXCEPT ![ch] = old \o run]
  BY DEF Advance, Run
<1>7. run \in Seq(Nat) /\ Len(run) = sent
  BY <1>2, <1>4, RunType
<1>8. old \o run \in Seq(Nat) /\ Len(old \o run) = Len(old) + sent /\ Len(old) \in Nat
  BY <1>2, <1>7, Joined
<1> HIDE DEF run
<1>9. /\ moved' \in [Channel -> Seq(Nat)] /\ moved'[ch] = old \o run
      /\ \A c \in Channel : c # ch => moved'[c] = moved[c]
  BY <1>1, <1>2, <1>6, <1>8 DEF TypeOK
<1>10. r' = r /\ f' = new /\ phase' = phase /\ ch' = ch /\ req' = req
  BY <1>5 DEF Advance, f, r
<1>11. OneServed' /\ ReqShape' /\ pc' \in {"trunc", "ok", "wait"}
  <2>1. pc' \in {"trunc", "ok", "wait"} /\ goes' = goes
    BY DEF Advance
  <2>2. OneServed'
    BY <1>1, <1>2, <1>9, <1>10, <2>1 DEF OneServed, Serving
  <2> QED BY <1>1, <1>10, <2>1, <2>2 DEF ReqShape
<1>12. ASSUME addr' \in Nat, left' \in Nat PROVE TypeOK'
  BY <1>1, <1>5, <1>9, <1>10, <1>11, <1>12 DEF TypeOK, FileOK, Advance
<1>13. CASE k # n
  <2>1. pc' = "trunc" /\ addr' = addr /\ left' = left
    BY <1>13 DEF Advance
  <2> QED BY <1>2, <1>11, <1>12, <2>1 DEF DrvInv, Inv, Counted
<1>14. CASE k = n
  <2>1. addr' = addr + n /\ left' = left - n /\ pc' = IF left' = 0 THEN "ok" ELSE "wait"
    BY <1>14 DEF Advance
  <2>2. sent = n /\ new.fptr = addr + n
    BY <1>14 DEF Round
  <2> DEFINE l == Len(old)
             m == Len(moved'[ch])
  <2>3. m = l + n /\ l \in Nat
    BY <1>8, <1>9, <2>2
  <2>4. addr = r.addr + l /\ l + left = r.size
    BY <1>3
  <2> HIDE DEF old, l, m
  <2>5. left' \in Nat /\ addr' \in Nat
    BY <1>2, <1>4, <2>1
  <2>6. addr' = r.addr + m /\ m + left' = r.size
    <3>1. n \in Nat /\ l \in Nat /\ left \in Nat /\ r.addr \in Nat
      BY <1>2, <1>4, <2>3
    <3>2. addr + n = r.addr + m
      BY <2>3, <2>4, <3>1
    <3>3. m + (left - n) = r.size
      BY <2>3, <2>4, <3>1
    <3> QED BY <2>1, <3>2, <3>3
  <2>7. pc' = "ok" => m = r.size
    BY <1>2, <1>4, <2>1, <2>3, <2>4
  <2>8. Counted'
    BY <1>10, <1>11, <2>1, <2>2, <2>6, <2>7 DEF Counted, m
  <2> QED BY <1>11, <1>12, <2>5, <2>8 DEF DrvInv, Inv
<1> QED BY <1>13, <1>14

\* FatFs moves at most what it is asked for, nothing from behind the end, and
\* nothing when the file is not where the driver believes.
LEMMA MovesBounds ==
    ASSUME DrvInv, pc = "loop", left # 0,
           NEW end \in 0 .. Room, f.fptr <= end,
           f.fptr # addr => f.fptr = end,
           NEW k \in Moves(Size, end)
    PROVE  /\ k \in 0 .. Size /\ f.fptr + k <= end
           /\ k # 0 => f.fptr = addr
<1>1. Size \in 1 .. left /\ left \in Nat /\ f.fptr \in Nat /\ Room \in Nat
  <2>1. TypeOK /\ Inv /\ pc \in Serving
    BY DEF DrvInv, Inv, Serving
  <2> QED BY <2>1, SizeBounds, ServedType, BlkAssumption DEF TypeOK
<1> DEFINE all == IF f.err THEN 0 ELSE Smaller(Size, end - f.fptr)
<1>2. all \in 0 .. Size /\ f.fptr + all <= end /\ (f.fptr # addr => all = 0)
  BY <1>1 DEF Smaller
<1>3. k \in 0 .. all
  <2>1. k = all \/ k \in 0 .. all
    BY DEF Moves
  <2> QED BY <1>1, <1>2, <2>1
<1> HIDE DEF all
<1> QED BY <1>1, <1>2, <1>3

\* The file after k units, in error or not.
LEMMA AfterType ==
    ASSUME Inv, pc \in Serving, NEW k \in Nat, f.fptr + k <= Room, NEW e \in BOOLEAN
    PROVE  /\ [At(f, f.fptr + k) EXCEPT !.err = e] \in File
           /\ [At(f, f.fptr + k) EXCEPT !.err = e].fptr = f.fptr + k
           /\ [At(f, f.fptr + k) EXCEPT !.err = e].fptr
                  <= [At(f, f.fptr + k) EXCEPT !.err = e].size
<1>1. f \in File /\ f.fptr \in Nat /\ f.fptr <= f.size /\ f.fptr + k \in 0 .. Room
  BY ServedType, BlkAssumption DEF File
<1>2. /\ At(f, f.fptr + k) \in File /\ At(f, f.fptr + k).fptr = f.fptr + k
      /\ At(f, f.fptr + k).fptr <= At(f, f.fptr + k).size
  BY <1>1, AtType
<1> QED BY <1>2, ErrType

\* Where a round begins: the end it moves to is one the file keeps, and a file
\* that is not at its place is at that end.
LEMMA WriteEnd ==
    ASSUME DrvInv, WriteChunk
    PROVE  Room \in 0 .. Room /\ f.fptr <= Room /\ (f.fptr # addr => f.fptr = Room)
<1>1. pc \in Serving /\ Inv /\ Counted /\ f.mode = "rw" /\ pc = "loop"
  BY DEF WriteChunk, DrvInv, Inv, Serving
<1>2. f.fptr \in 0 .. f.size /\ f.size \in 0 .. Room /\ Room \in Nat
  BY <1>1, ServedType, BlkAssumption DEF File
<1> QED BY <1>1, <1>2 DEF Counted

LEMMA ReadEnd ==
    ASSUME DrvInv, ReadChunk
    PROVE  f.size \in 0 .. Room /\ f.fptr <= f.size /\ (f.fptr # addr => f.fptr = f.size)
<1>1. pc \in Serving /\ Inv /\ Counted /\ pc = "loop"
  BY DEF ReadChunk, DrvInv, Inv, Serving
<1>2. f.fptr \in 0 .. f.size /\ f.size \in 0 .. Room
  BY <1>1, ServedType DEF File
<1> QED BY <1>1, <1>2 DEF Counted

\* Both chunks are rounds.
LEMMA WriteRound ==
    ASSUME DrvInv, WriteChunk
    PROVE  \E n, k, sent, new : Round(n, k, sent, new) /\ Advance(n, k, sent, new)
<1>1. /\ pc = "loop" /\ pc \in Serving /\ left # 0 /\ Inv
      /\ addr \in Nat /\ left \in Nat /\ f.fptr \in Nat /\ f.err \in BOOLEAN
  <2>1. pc = "loop" /\ pc \in Serving /\ left # 0 /\ Inv /\ TypeOK
    BY DEF WriteChunk, DrvInv, Inv, Serving
  <2> QED BY <2>1, ServedType DEF TypeOK, File
<1> DEFINE new(k) == [At(f, f.fptr + k) EXCEPT !.err = Fails(Size, k, Room)]
<1>2. PICK k \in Moves(Size, Room) : Advance(Size, k, k, new(k))
  BY DEF WriteChunk
<1>3. Size \in 1 .. left
  BY <1>1, SizeBounds
<1>4. k \in 0 .. Size /\ f.fptr + k <= Room /\ (k # 0 => f.fptr = addr)
  BY <1>1, WriteEnd, MovesBounds
<1>5. k \in Nat /\ Fails(Size, k, Room) \in BOOLEAN
  BY <1>1, <1>4 DEF Fails
<1>6. new(k) \in File /\ new(k).fptr = f.fptr + k /\ new(k).fptr <= new(k).size
  BY <1>1, <1>4, <1>5, AfterType
<1> HIDE DEF new
<1>7. Round(Size, k, k, new(k))
  BY <1>1, <1>3, <1>4, <1>5, <1>6 DEF Round
<1> QED BY <1>2, <1>7

LEMMA ReadRound ==
    ASSUME DrvInv, ReadChunk
    PROVE  \E n, k, sent, new : Round(n, k, sent, new) /\ Advance(n, k, sent, new)
<1>1. /\ pc = "loop" /\ pc \in Serving /\ left # 0 /\ Inv
      /\ addr \in Nat /\ left \in Nat /\ f.fptr \in Nat /\ f.err \in BOOLEAN
  <2>1. pc = "loop" /\ pc \in Serving /\ left # 0 /\ Inv /\ TypeOK
    BY DEF ReadChunk, DrvInv, Inv, Serving
  <2> QED BY <2>1, ServedType DEF TypeOK, File
<1> DEFINE new(k) == [At(f, f.fptr + k) EXCEPT !.err = Fails(Size, k, f.size)]
           sent(k) == IF Burstable THEN k - (k % Blk) ELSE k
<1>2. PICK k \in Moves(Size, f.size) : Advance(Size, k, sent(k), new(k))
  BY DEF ReadChunk
<1>3. Size \in 1 .. left /\ (Burstable => Size % Blk = 0)
  BY <1>1, SizeBounds
<1>4. k \in 0 .. Size /\ f.fptr + k <= f.size /\ (k # 0 => f.fptr = addr)
  BY <1>1, ReadEnd, MovesBounds
<1>5. k \in Nat /\ Fails(Size, k, f.size) \in BOOLEAN
  BY <1>1, <1>4 DEF Fails
<1>6. f.fptr + k <= Room
  BY <1>1, <1>4, <1>5, ReadEnd, BlkAssumption
<1>7. new(k) \in File /\ new(k).fptr = f.fptr + k /\ new(k).fptr <= new(k).size
  BY <1>1, <1>5, <1>6, AfterType
<1>8. sent(k) \in 0 .. k /\ (k = Size => sent(k) = Size)
  <2>1. k % Blk \in 0 .. Blk - 1 /\ k % Blk <= k
    BY <1>5, Sectors, BlkAssumption
  <2>2. k - (k % Blk) \in 0 .. k
    BY <1>5, <2>1, BlkAssumption
  <2>3. CASE Burstable
    BY <1>3, <1>5, <2>2, <2>3
  <2>4. CASE ~Burstable
    BY <1>5, <2>4
  <2> QED BY <2>3, <2>4
<1> HIDE DEF new, sent
<1>9. sent(k) # 0 => k # 0
  BY <1>5, <1>8
<1>10. Round(Size, k, sent(k), new(k))
  BY <1>1, <1>3, <1>4, <1>5, <1>7, <1>8, <1>9 DEF Round
<1> QED BY <1>2, <1>10

-----------------------------------------------------------------------------
(* The theorems.                                                            *)

LEMMA DrvInit == Init => DrvInv
<1> SUFFICES ASSUME Init PROVE DrvInv
  OBVIOUS
<1>1. 0 \in Channel /\ Room \in Nat
  BY ChannelAssumption, BlkAssumption DEF Channel
<1>2. Open([mode |-> "none", size |-> 0]) \in File
  BY <1>1 DEF Open, File
<1>3. Open([mode |-> "none", size |-> 0]).fptr <= Open([mode |-> "none", size |-> 0]).size
  BY DEF Open
<1>4. TypeOK
  BY <1>1, <1>2, <1>3, LimitAssumption DEF Init, TypeOK
<1> QED BY <1>4 DEF Init, DrvInv, Inv, OneServed, Counted, ReqShape, Serving

\* What the core and the menu do beside the driver.
LEMMA OthersKeep ==
    ASSUME DrvInv, NEW c \in Channel,
           CoreRequest(c) \/ \E d \in Drive : ChangeMedium(c, d)
    PROVE  DrvInv'
<1>1. TypeOK /\ OneServed /\ Counted /\ ReqShape
  BY DEF DrvInv, Inv
<1>2. CASE CoreRequest(c)
  <2>1. PICK q \in Requests[c] : req' = [req EXCEPT ![c] = q]
    BY <1>2 DEF CoreRequest
  <2>2. /\ \A x \in Channel : req'[x] = IF x = c THEN q ELSE req[x]
        /\ req' = [x \in Channel |-> req'[x]]
    BY <1>1, <2>1 DEF ReqShape
  <2>3. /\ phase[c] = "idle"
        /\ \A x \in Channel : phase'[x] = IF x = c THEN "req" ELSE phase[x]
        /\ \A x \in Channel : moved'[x] = IF x = c THEN << >> ELSE moved[x]
        /\ UNCHANGED <<file, pc, ch, goes, addr, left>>
    BY <1>1, <1>2 DEF CoreRequest, TypeOK
  <2>4. TypeOK'
    <3>1. /\ phase' \in [Channel -> {"idle", "req", "busy"}]
          /\ answer' \in [Channel -> {"none", "ok", "seek", "trunc", "abort"}]
          /\ moved' \in [Channel -> Seq(Nat)]
      BY <1>1, <1>2 DEF CoreRequest, TypeOK
    <3>2. \A x \in Channel : phase'[x] # "idle" => req'[x] \in Requests[x]
      BY <1>1, <2>2, <2>3 DEF TypeOK
    <3> QED BY <1>1, <2>3, <3>1, <3>2 DEF TypeOK
  <2>5. OneServed'
    BY <1>1, <2>3 DEF OneServed, Serving, TypeOK
  <2>6. Counted'
    <3>1. CASE pc \in Serving
      <4>1. ch # c
        BY <1>1, <2>3, <3>1 DEF OneServed, TypeOK
      <4> QED BY <1>1, <2>2, <2>3, <4>1 DEF Counted, TypeOK, r, f
    <3>2. CASE pc \notin Serving
      BY <2>3, <3>2 DEF Counted, Serving
    <3> QED BY <3>1, <3>2
  <2> QED BY <2>2, <2>4, <2>5, <2>6 DEF DrvInv, Inv, ReqShape
<1>3. ASSUME NEW d \in Drive, ChangeMedium(c, d) PROVE DrvInv'
  <2>1. FileOK'
    <3>1. FileOK
      BY <1>1 DEF TypeOK, FileOK
    <3>2. ASSUME NEW m \in Media[c], file' = [file EXCEPT ![c][d] = Open(m)] PROVE FileOK'
      <4>1. m \in [mode : {"none", "readonly", "protected", "rw"}, size : 0 .. Room]
        BY MediumAssumption
      <4>2. Open(m) \in File /\ Open(m).fptr <= Open(m).size
        BY <4>1, BlkAssumption DEF Open, File
      <4> QED BY <3>1, <3>2, <4>2 DEF FileOK
    <3>3. ASSUME NEW mode \in {"rw", "protected"}, file' = [file EXCEPT ![c][d].mode = mode]
          PROVE  FileOK'
      <4>1. /\ [file[c][d] EXCEPT !.mode = mode] \in File
            /\ [file[c][d] EXCEPT !.mode = mode].fptr <= [file[c][d] EXCEPT !.mode = mode].size
        BY <3>1 DEF FileOK, File
      <4>2. file' = [file EXCEPT ![c][d] = [file[c][d] EXCEPT !.mode = mode]]
        BY <3>3
      <4> QED BY <3>1, <4>1, <4>2 DEF FileOK
    <3> QED BY <1>3, <3>2, <3>3 DEF ChangeMedium
  <2> QED BY <1>1, <1>3, <2>1
          DEF ChangeMedium, core, DrvInv, Inv, TypeOK, FileOK, OneServed, Counted, ReqShape,
              Serving
<1> QED BY <1>2, <1>3

LEMMA DrvStep == DrvInv /\ [Next]_vars => DrvInv'
<1> SUFFICES ASSUME DrvInv, [Next]_vars PROVE DrvInv'
  OBVIOUS
<1>1. CASE Process
  <2>1. CASE WriteChunk
    <3>1. PICK n, k, sent, new : Round(n, k, sent, new) /\ Advance(n, k, sent, new)
      BY <2>1, WriteRound
    <3> QED BY <2>1, <3>1, RoundKeeps DEF WriteChunk
  <2>2. CASE ReadChunk
    <3>1. PICK n, k, sent, new : Round(n, k, sent, new) /\ Advance(n, k, sent, new)
      BY <2>2, ReadRound
    <3> QED BY <2>2, <3>1, RoundKeeps DEF ReadChunk
  <2> QED BY <1>1, <2>1, <2>2, QuietKeeps, SeekKeeps DEF Process
<1>2. CASE UNCHANGED vars
  BY <1>2 DEF vars, DrvInv, Inv, TypeOK, OneServed, Counted, ReqShape, r, f
<1> QED BY <1>1, <1>2, OthersKeep DEF Next

\* At every point of FileIO_Drv00_Process what was moved and what is left make up
\* the request, and the file is where the next byte belongs.
THEOREM Drv00Correct == Spec => []Inv
BY DrvInit, DrvStep, PTL DEF Spec, DrvInv

-----------------------------------------------------------------------------
(* Refinement: what the core sees of a step is a step of FileChannel.       *)

\* The instance's request and answer of each channel.
Want == [c \in Channel |-> [addr |-> req[c].addr, size |-> req[c].size]]
Ans == [c \in Channel |-> IF answer[c] \in {"none", "ok"} THEN answer[c] ELSE "err"]

\* A step in which the core sees nothing.
LEMMA SeesNothing ==
    ASSUME phase' = phase, req' = req, moved' = moved, answer' = answer
    PROVE  UNCHANGED FC!vars
BY DEF FC!vars

LEMMA SeesTransAck ==
    ASSUME DrvInv, pc \in Serving, NEW a \in {"ok", "seek", "trunc", "abort"},
           a = "ok" => Len(moved[ch]) = r.size,
           Ack(a), moved' = moved
    PROVE  FC!Next
<1>1. ch \in Channel /\ phase[ch] = "busy" /\ answer \in [Channel -> {"none", "ok", "seek", "trunc", "abort"}]
  BY ServedType DEF DrvInv, Inv, TypeOK, Serving
<1>2. phase' = [phase EXCEPT ![ch] = "idle"] /\ answer' = [answer EXCEPT ![ch] = a] /\ req' = req
  BY DEF Ack
<1>3. Want' = Want /\ Want[ch].size = r.size
  BY <1>1, <1>2 DEF Want, r
<1>4. Ans' = [Ans EXCEPT ![ch] = IF a = "ok" THEN "ok" ELSE "err"]
  BY <1>1, <1>2 DEF Ans
<1>5. PICK c \in Channel : c = ch
  BY <1>1
<1>6. FC!TransAck(c)
  BY <1>1, <1>2, <1>3, <1>4, <1>5 DEF FC!TransAck, Want, Ans
<1> QED BY <1>6 DEF FC!Next

LEMMA SeesRequest ==
    ASSUME DrvInv, NEW c \in Channel, CoreRequest(c)
    PROVE  FC!Next
<1>1. /\ phase[c] = "idle" /\ phase' = [phase EXCEPT ![c] = "req"]
      /\ moved' = [moved EXCEPT ![c] = << >>] /\ answer' = [answer EXCEPT ![c] = "none"]
      /\ answer \in [Channel -> {"none", "ok", "seek", "trunc", "abort"}]
  BY DEF CoreRequest, DrvInv, Inv, TypeOK
<1>2. PICK q \in Requests[c] : req' = [req EXCEPT ![c] = q]
  BY DEF CoreRequest
<1>3. q.addr \in Nat /\ q.size \in Nat
  BY RequestAssumption
<1>4. \A x \in Channel : req'[x] = IF x = c THEN q ELSE req[x]
  BY <1>2 DEF DrvInv, ReqShape
<1>5. Want' = [Want EXCEPT ![c] = [addr |-> q.addr, size |-> q.size]]
      /\ Want'[c] = [addr |-> q.addr, size |-> q.size]
  BY <1>4 DEF Want
<1>6. Ans' = [Ans EXCEPT ![c] = "none"]
  BY <1>1 DEF Ans
<1>7. FC!Request(c)
  BY <1>1, <1>3, <1>5, <1>6 DEF FC!Request, Want, Ans
<1> QED BY <1>7 DEF FC!Next

\* A round moves a run of the request, or nothing.
LEMMA SeesRound ==
    ASSUME DrvInv, pc = "loop", NEW n, NEW k, NEW sent, NEW new,
           Round(n, k, sent, new), Advance(n, k, sent, new)
    PROVE  [FC!Next]_(FC!vars)
<1>1. /\ ch \in Channel /\ phase[ch] = "busy" /\ left \in Nat /\ moved \in [Channel -> Seq(Nat)]
      /\ addr = r.addr + Len(moved[ch]) /\ Len(moved[ch]) + left = r.size
      /\ addr \in Nat /\ r.addr \in Nat /\ r.size \in Nat /\ f.fptr \in Nat
  BY ServedType DEF DrvInv, Inv, TypeOK, Counted, Serving
<1>2. phase' = phase /\ req' = req /\ answer' = answer
  BY DEF Advance
<1>3. moved' = [moved EXCEPT ![ch] = moved[ch] \o Run(f.fptr, sent)]
  BY DEF Advance, Run
<1>4. sent \in Nat /\ sent <= left
  BY <1>1 DEF Round
<1>5. CASE sent = 0
  <2>1. Run(f.fptr, sent) = << >>
    BY <1>1, <1>5, NoRun
  <2>2. moved[ch] \o << >> = moved[ch]
    BY <1>1
  <2>3. moved' = moved
    BY <1>1, <1>3, <2>1, <2>2
  <2> QED BY <1>2, <2>3, SeesNothing
<1>6. CASE sent # 0
  <2>1. f.fptr = addr
    BY <1>6 DEF Round
  <2>2. Want[ch].addr = r.addr /\ Want[ch].size = r.size
    BY <1>1 DEF Want, r
  <2>3. sent \in 1 .. Want[ch].size - Len(moved[ch])
    BY <1>1, <1>4, <1>6, <2>2
  <2>4. Run(f.fptr, sent) = [i \in 1 .. sent |-> Want[ch].addr + Len(moved[ch]) + i - 1]
    BY <1>1, <2>1, <2>2 DEF Run
  <2>5. PICK c \in Channel : c = ch
    BY <1>1
  <2>6. FC!Move(c)
    BY <1>1, <1>2, <1>3, <2>3, <2>4, <2>5 DEF FC!Move, Want
  <2> QED BY <2>6 DEF FC!Next
<1> QED BY <1>5, <1>6

\* The steps of FileIO_Drv00_Process.
LEMMA SeesProcess == DrvInv /\ Process => [FC!Next]_(FC!vars)
<1> SUFFICES ASSUME DrvInv, Process PROVE [FC!Next]_(FC!vars)
  OBVIOUS
<1>1. CASE Poll \/ NoData \/ More
  BY <1>1, SeesNothing DEF Poll, NoData, More, core
<1>2. CASE Begin
  <2>1. PICK c \in Channel : c = ch
    BY DEF DrvInv, Inv, TypeOK
  <2>2. phase[ch] = "req"
    BY <1>2, ServedType DEF DrvInv, Begin
  <2>3. FC!ReqAck(c)
    BY <1>2, <2>1, <2>2 DEF Begin, FC!ReqAck
  <2> QED BY <2>3 DEF FC!Next
<1>3. CASE NotMounted
  BY <1>3, SeesTransAck DEF NotMounted, Serving
<1>4. CASE Seek
  <2>1. CASE UNCHANGED core
    BY <2>1, SeesNothing DEF core
  <2>2. CASE Ack("seek") /\ UNCHANGED moved
    BY <1>4, <2>2, SeesTransAck DEF Seek, Serving
  <2> QED BY <1>4, <2>1, <2>2 DEF Seek
<1>5. CASE WriteProtected
  BY <1>5, SeesTransAck DEF WriteProtected, Serving
<1>6. CASE WriteChunk
  <2>1. PICK n, k, sent, new : Round(n, k, sent, new) /\ Advance(n, k, sent, new)
    BY <1>6, WriteRound
  <2> QED BY <1>6, <2>1, SeesRound DEF WriteChunk
<1>7. CASE ReadChunk
  <2>1. PICK n, k, sent, new : Round(n, k, sent, new) /\ Advance(n, k, sent, new)
    BY <1>7, ReadRound
  <2> QED BY <1>7, <2>1, SeesRound DEF ReadChunk
<1>8. CASE Truncated
  BY <1>8, SeesTransAck DEF Truncated, Serving
<1>9. CASE WaitStat
  <2>1. CASE UNCHANGED core
    BY <2>1, SeesNothing DEF core
  <2>2. CASE Ack("abort") /\ UNCHANGED moved
    BY <1>9, <2>2, SeesTransAck DEF WaitStat, Serving
  <2> QED BY <1>9, <2>1, <2>2 DEF WaitStat
<1>10. CASE Done
  <2>1. Len(moved[ch]) = r.size /\ pc \in Serving
    BY <1>10 DEF Done, DrvInv, Inv, Counted, Serving
  <2> QED BY <1>10, <2>1, SeesTransAck DEF Done
<1> QED BY <1>1, <1>2, <1>3, <1>4, <1>5, <1>6, <1>7, <1>8, <1>9, <1>10 DEF Process

LEMMA SeesStep == DrvInv /\ [Next]_vars => [FC!Next]_(FC!vars)
<1> SUFFICES ASSUME DrvInv, [Next]_vars PROVE [FC!Next]_(FC!vars)
  OBVIOUS
<1>1. ASSUME NEW c \in Channel, NEW d \in Drive, ChangeMedium(c, d)
      PROVE  UNCHANGED FC!vars
  BY <1>1, SeesNothing DEF ChangeMedium, core
<1>2. CASE UNCHANGED vars
  BY <1>2, SeesNothing DEF vars
<1> QED BY <1>1, <1>2, SeesRequest, SeesProcess DEF Next

\* The driver keeps a channel's promise (fileio_drv00_generic.c against fileio.h):
\* for any sector size, medium, request, error and timeout, bytes are moved in order
\* and without a gap, each request and transfer is acknowledged once, and OK is
\* said only when every byte was moved.
THEOREM Drv00Refines == Spec => FileChannelSpec
<1>1. Init => FC!Init
  BY DEF Init, FC!Init
<1> QED BY <1>1, DrvInit, DrvStep, SeesStep, PTL DEF Spec, FileChannelSpec, FC!Spec
=============================================================================
