--------------------------- MODULE ChannelsProofs ---------------------------
(***************************************************************************)
(* Proofs about a file channel under the tape driver or the floppy driver  *)
(* (Channels, Tape, Floppy, FluxTrack).  Whatever the tapes, and in        *)
(* whatever order the core asks for bytes, it gets the bits of the tape    *)
(* and is told its length, if only one drive of the channel has a tape.    *)
(* Whatever a core writes and whatever came before, a disk changes only    *)
(* where an intact sector belongs; and if flux tracks lie at even places,  *)
(* the head stays inside them and every read has words for the core.       *)
(***************************************************************************)
EXTENDS Channels, WellFoundedInduction, SequenceTheorems, TLAPS

\* What a bit can be.
BitValue ==
    {<<"low">>, <<"high">>, <<"none">>, <<"any">>}
    \cup {<<"data", place, offset>> : place \in Nat, offset \in Int}
    \cup {<<"dummy", offset>> : offset \in Int}

-----------------------------------------------------------------------------
(* The inductive invariant.                                                 *)

\* A drive has a format only with a file, and only one drive has.
OneTape ==
    /\ \A d \in TapeDrive : tape[d].format = "uef" => tape[d].file \in Tapes
    /\ \A d, e \in TapeDrive :
          tape[d].format # "none" /\ tape[e].format # "none" => d = e

\* A walk is between two chunks, and knows how far the bit it looks for is.
Walking ==
    /\ tape[walk.drive].format = "uef"
    /\ walk.at \in 1 .. Chunks(file) + 1
    /\ walk.from = file.start[walk.at]
    /\ walk.from + walk.left = IF walk.scan THEN Top ELSE bit
    /\ cursor.end = 0
    /\ ~walk.scan => walk.drive = req.drive /\ n < Act * ByteBits

\* Where the transfer began: not behind the tape.
base == Lesser(req.addr, unit.size)

\* What a transfer has moved, and that it was right.
Serving ==
    /\ phase = "busy" /\ req \in TapeAsks /\ unit.format = "uef"
    /\ moved \in Seq(BitValue)
    /\ base <= addr /\ addr <= unit.size /\ addr - base + left = req.size
    /\ n <= Act * ByteBits
    /\ Len(moved) = (addr - base) * ByteBits + n
    /\ ~unit.err =>
          \A i \in 1 .. Len(moved) : TapeHas(unit.file, req.addr * ByteBits + i - 1, moved[i])

\* The length is known once the scan is over.
SizeKnown ==
    \A d \in TapeDrive :
        tape[d].format = "uef" /\ ~tape[d].err /\ ~(pc = "walk" /\ walk.scan) =>
            tape[d].size = (tape[d].file.start[Chunks(tape[d].file) + 1] + ByteBits - 1) \div ByteBits

TapeInv ==
    /\ TapeTypeOK /\ OneTape /\ CursorRight /\ SizeKnown
    /\ pc = "walk" => Walking
    /\ pc = "bit" \/ (pc = "walk" /\ ~walk.scan) => Serving

\* A request that was raised is one of the core's, and nothing is moved yet.
Requested == phase = "req" => req \in TapeAsks /\ moved = << >>

-----------------------------------------------------------------------------
(* Facts about tapes.                                                       *)

\* The elements of a sequence.
LEMMA ElementsOf ==
    ASSUME NEW S, NEW s \in Seq(S)
    PROVE  Len(s) \in Nat /\ \A k \in 1 .. Len(s) : s[k] \in S
OBVIOUS

\* A tape's chunks and where they begin.
LEMMA TapeFacts ==
    ASSUME NEW t \in Tapes
    PROVE  /\ Chunks(t) \in Nat
           /\ \A k \in 1 .. Chunks(t) :
                 /\ t.chunks[k] \in Chunk
                 /\ BitsOf(t.chunks[k]) \in Nat
                 /\ t.start[k + 1] = t.start[k] + BitsOf(t.chunks[k])
           /\ \A k \in 1 .. Chunks(t) + 1 : t.start[k] \in Nat
           /\ t.start[1] = 0 /\ t.start[Chunks(t) + 1] < Top
           /\ \A j, k \in 1 .. Chunks(t) + 1 : j <= k => t.start[j] <= t.start[k]
<1>1. t.chunks \in Seq(Chunk) /\ t.start \in [1 .. Chunks(t) + 1 -> Nat]
  BY TapeAssumption
<1>2. Chunks(t) \in Nat /\ \A k \in 1 .. Chunks(t) : t.chunks[k] \in Chunk
  BY <1>1, ElementsOf DEF Chunks
<1>3. \A k \in 1 .. Chunks(t) : BitsOf(t.chunks[k]) \in Nat
  BY <1>2 DEF BitsOf, Chunk
<1> QED
  BY <1>1, <1>2, <1>3, TapeAssumption

\* A position lies in one chunk only.
LEMMA OneChunk ==
    ASSUME NEW t \in Tapes, NEW k \in 1 .. Chunks(t), NEW p \in Nat,
           t.start[k] <= p, p < t.start[k + 1]
    PROVE  /\ p < t.start[Chunks(t) + 1]
           /\ \A j \in 1 .. Chunks(t) : t.start[j] <= p /\ p < t.start[j + 1] => j = k
<1>1. Chunks(t) \in Nat /\ k + 1 \in 1 .. Chunks(t) + 1 /\ Chunks(t) + 1 \in 1 .. Chunks(t) + 1
      /\ k \in 1 .. Chunks(t) + 1
  BY TapeFacts
<1>2. t.start[k + 1] <= t.start[Chunks(t) + 1]
  BY <1>1, TapeFacts
<1>3. p < t.start[Chunks(t) + 1]
  BY <1>1, <1>2, TapeFacts
<1>4. ASSUME NEW j \in 1 .. Chunks(t), t.start[j] <= p, p < t.start[j + 1], j # k PROVE FALSE
  <2>1. j + 1 \in 1 .. Chunks(t) + 1 /\ j \in 1 .. Chunks(t) + 1
    BY <1>1
  <2>2. CASE j < k
    <3>1. t.start[j + 1] <= t.start[k]
      BY <1>1, <2>1, <2>2, TapeFacts
    <3> QED
      BY <1>1, <1>4, <2>1, <3>1, TapeFacts
  <2>3. CASE k < j
    <3>1. t.start[k + 1] <= t.start[j]
      BY <1>1, <2>1, <2>3, TapeFacts
    <3> QED
      BY <1>1, <1>4, <2>1, <3>1, TapeFacts
  <2> QED
    BY <1>1, <1>4, <2>2, <2>3
<1> QED
  BY <1>3, <1>4

\* The chunk that a position lies in says what the bit there is.
LEMMA BitInChunk ==
    ASSUME NEW t \in Tapes, NEW k \in 1 .. Chunks(t), NEW p \in Nat,
           t.start[k] <= p, p < t.start[k + 1]
    PROVE  TapeHas(t, p, BitOf(t.chunks[k].kind, k, p - t.start[k], t.chunks[k].pre))
<1>1. p < t.start[Chunks(t) + 1]
      /\ \A j \in 1 .. Chunks(t) : t.start[j] <= p /\ p < t.start[j + 1] => j = k
  BY OneChunk
<1>2. ~(p >= t.start[Chunks(t) + 1])
  BY <1>1, TapeFacts
<1> QED
  BY <1>1, <1>2 DEF TapeHas

\* Behind the last chunk every bit is low.
LEMMA BitBehind ==
    ASSUME NEW t \in Tapes, NEW p \in Nat, t.start[Chunks(t) + 1] <= p
    PROVE  TapeHas(t, p, <<"low">>)
<1>1. ASSUME NEW k \in 1 .. Chunks(t), t.start[k] <= p, p < t.start[k + 1] PROVE FALSE
  BY <1>1, OneChunk, TapeFacts
<1> QED
  BY <1>1 DEF TapeHas

\* A made-up bit is a bit.
LEMMA BitOfType ==
    ASSUME NEW kind, NEW place \in Nat, NEW offset \in Int, NEW pre \in Nat
    PROVE  BitOf(kind, place, offset, pre) \in BitValue
<1>1. offset - pre \in Int
  OBVIOUS
<1> QED
  BY <1>1 DEF BitOf, BitValue

\* Bytes into bits.
LEMMA Distribute ==
    ASSUME NEW a \in Int, NEW b \in Int, NEW c \in Int
    PROVE  /\ (a + b) * c = a * c + b * c
           /\ (a - b) * c = a * c - b * c
OBVIOUS

LEMMA TimesNat ==
    ASSUME NEW a \in Nat, NEW b \in Nat
    PROVE  a * b \in Nat /\ 0 <= a * b
OBVIOUS

LEMMA NoBytes ==
    ASSUME NEW a \in Nat, NEW b \in Nat
    PROVE  (a - a) * b + 0 = 0
<1>1. a - a = 0 /\ 0 * b + 0 = 0
  OBVIOUS
<1> QED
  BY <1>1

-----------------------------------------------------------------------------
(* The invariant holds initially, and between transfers.                    *)

LEMMA NoTapeType ==
    /\ NoTape \in [format : {"none", "uef", "xxx"}, file : Tapes \cup {Empty},
                   size : Nat, err : BOOLEAN]
    /\ NoChunk \in [kind : Timed \cup {"other"}, place : Nat, start : Nat, end : Nat, pre : Nat]
    /\ NoWalk \in [drive : TapeDrive, scan : BOOLEAN, at : Nat, left : Nat, from : Nat]
<1>1. NoTape \in [format : {"none", "uef", "xxx"}, file : Tapes \cup {Empty},
                  size : Nat, err : BOOLEAN]
  <2>1. Empty \in Tapes \cup {Empty}
    OBVIOUS
  <2> QED
    BY <2>1 DEF NoTape
<1>2. NoChunk \in [kind : Timed \cup {"other"}, place : Nat, start : Nat, end : Nat, pre : Nat]
  BY DEF NoChunk
<1>3. (CHOOSE d \in TapeDrive : TRUE) \in TapeDrive
  BY TapeSizeAssumption
<1>4. NoWalk \in [drive : TapeDrive, scan : BOOLEAN, at : Nat, left : Nat, from : Nat]
  BY <1>3 DEF NoWalk
<1> QED
  BY <1>1, <1>2, <1>4

LEMMA InitTape == Init => TapeInv /\ Requested
<1> SUFFICES ASSUME Init PROVE TapeInv /\ Requested
  OBVIOUS
<1>1. /\ tape = [d \in TapeDrive |-> NoTape] /\ cursor = NoChunk /\ walk = NoWalk
      /\ addr = 0 /\ left = 0 /\ n = 0 /\ pc = "idle" /\ phase = "idle"
  BY DEF Init, LineInit, TapeInit
<1>2. \A d \in TapeDrive : tape[d].format = "none"
  BY <1>1 DEF NoTape
<1>3. TapeTypeOK
  BY <1>1, NoTapeType DEF TapeTypeOK
<1>4. OneTape /\ SizeKnown
  BY <1>2 DEF OneTape, SizeKnown
<1>5. CursorRight
  BY <1>1 DEF CursorRight, NoChunk
<1> QED
  BY <1>1, <1>3, <1>4, <1>5 DEF TapeInv, Requested

\* While no transfer and no scan is under way, only the drives and the cursor count.
LEMMA AtRest ==
    ASSUME TapeTypeOK', OneTape', CursorRight', SizeKnown', pc' \notin {"bit", "walk"}
    PROVE  TapeInv'
BY DEF TapeInv

\* What keeps the drives and the cursor keeps what is known of them.
LEMMA DrivesKept ==
    ASSUME OneTape, CursorRight, UNCHANGED <<tape, cursor>>
    PROVE  OneTape' /\ CursorRight'
BY DEF OneTape, CursorRight

LEMMA SizesKept ==
    ASSUME SizeKnown, UNCHANGED tape, pc # "walk"
    PROVE  SizeKnown'
BY DEF SizeKnown

LEMMA EjectStep ==
    ASSUME TapeInv, NEW d \in TapeDrive, EjectTape(d)
    PROVE  TapeInv'
<1>1. /\ tape' = [tape EXCEPT ![d] = NoTape] /\ pc = "idle"
      /\ UNCHANGED <<phase, req, answer, moved, pc, cursor, walk, addr, left, n>>
  BY DEF EjectTape, lineVars, transfer
<1>2. TapeTypeOK'
  BY <1>1, NoTapeType DEF TapeInv, TapeTypeOK
<1>3. \A x \in TapeDrive : tape'[x] = tape[x] \/ tape'[x] = NoTape
  BY <1>1 DEF TapeInv, TapeTypeOK
<1>4. NoTape.format = "none"
  BY DEF NoTape
<1>5. OneTape'
  BY <1>3, <1>4 DEF TapeInv, OneTape
<1>6. CursorRight'
  BY <1>1, <1>3, <1>4 DEF TapeInv, CursorRight
<1>7. SizeKnown'
  BY <1>1, <1>3, <1>4 DEF TapeInv, SizeKnown
<1> QED
  BY <1>1, <1>2, <1>5, <1>6, <1>7, AtRest

\* A tape that is inserted is the only one, and its scan begins at its start.
LEMMA InsertStep ==
    ASSUME TapeInv, ~Together, NEW d \in TapeDrive, InsertTape(d)
    PROVE  TapeInv'
<1>1. PICK t \in Tapes, good \in BOOLEAN, fails \in BOOLEAN :
          /\ tape' = [tape EXCEPT ![d] = [format |-> IF good THEN "uef" ELSE "xxx",
                                          file |-> t, size |-> 0, err |-> fails]]
          /\ IF good THEN pc' = "walk" /\ Walk(d, TRUE, 1, Top, 0) ELSE UNCHANGED <<pc, walk>>
  BY DEF InsertTape
<1>2. /\ pc = "idle" /\ \A x \in TapeDrive : tape[x].format = "none"
      /\ cursor' = NoChunk /\ UNCHANGED <<phase, req, answer, moved, addr, left, n>>
  BY DEF InsertTape, transfer
<1> DEFINE new == [format |-> IF good THEN "uef" ELSE "xxx", file |-> t, size |-> 0, err |-> fails]
<1>3. /\ tape'[d] = new
      /\ \A x \in TapeDrive : x # d => tape'[x] = tape[x]
  BY <1>1 DEF TapeInv, TapeTypeOK
<1>4. new \in [format : {"none", "uef", "xxx"}, file : Tapes \cup {Empty}, size : Nat, err : BOOLEAN]
  OBVIOUS
<1>5. tape' \in [TapeDrive -> [format : {"none", "uef", "xxx"}, file : Tapes \cup {Empty},
                               size : Nat, err : BOOLEAN]]
  <2> HIDE DEF new
  <2> QED
    BY <1>1, <1>4 DEF TapeInv, TapeTypeOK, new
<1>6. walk' \in [drive : TapeDrive, scan : BOOLEAN, at : Nat, left : Nat, from : Nat]
  <2>1. CASE good
    <3>1. walk' = [drive |-> d, scan |-> TRUE, at |-> 1, left |-> Top, from |-> 0]
      BY <1>1, <2>1 DEF Walk
    <3>2. 1 \in Nat /\ 0 \in Nat /\ Top \in Nat
      BY TapeSizeAssumption
    <3> QED
      BY <3>1, <3>2
  <2>2. CASE ~good
    BY <1>1, <2>2 DEF TapeInv, TapeTypeOK
  <2> QED
    BY <2>1, <2>2
<1>7. TapeTypeOK'
  BY <1>2, <1>5, <1>6, NoTapeType DEF TapeInv, TapeTypeOK
<1>8. OneTape'
  BY <1>2, <1>3 DEF OneTape
<1>9. CursorRight' /\ cursor'.end = 0
  BY <1>2 DEF CursorRight, NoChunk
<1>10. CASE good
  <2>1. /\ pc' = "walk" /\ walk'.drive = d /\ walk'.scan = TRUE /\ walk'.at = 1
        /\ walk'.left = Top /\ walk'.from = 0
    BY <1>1, <1>10 DEF Walk
  <2>2. SizeKnown'
    BY <2>1 DEF SizeKnown
  <2>3. tape'[d].format = "uef" /\ tape'[d].file = t
    BY <1>3, <1>10
  <2>4. file' = t
    BY <2>1, <2>3 DEF file
  <2>5. 1 \in 1 .. Chunks(t) + 1 /\ t.start[1] = 0 /\ Top \in Nat
    BY TapeFacts, TapeSizeAssumption
  <2>6. Walking'
    BY <1>9, <2>1, <2>3, <2>4, <2>5 DEF Walking
  <2> QED
    BY <1>7, <1>8, <1>9, <2>1, <2>2, <2>6 DEF TapeInv
<1>11. CASE ~good
  <2>1. pc' = "idle" /\ \A x \in TapeDrive : tape'[x].format # "uef"
    BY <1>1, <1>2, <1>3, <1>11
  <2>2. SizeKnown'
    BY <2>1 DEF SizeKnown
  <2> QED
    BY <1>7, <1>8, <1>9, <2>1, <2>2, AtRest
<1> QED
  BY <1>10, <1>11

-----------------------------------------------------------------------------
(* A bit for the core.                                                      *)

\* While there are bits left to be sent, what is asked for begins on the tape.
LEMMA OnTape ==
    ASSUME TapeTypeOK, Serving, n < Act * ByteBits
    PROVE  /\ Act \in Nat /\ Cur \in Nat /\ base = req.addr
           /\ req.addr \in Nat /\ req.size \in Nat /\ unit.size \in Nat
           /\ bit \in Nat
           /\ req.addr * ByteBits + Len(moved) = bit
<1>1. req \in TapeAsks /\ req.drive \in TapeDrive /\ req.addr \in Nat /\ req.size \in Nat
  BY TapeAskAssumption DEF Serving
<1>2. unit.size \in Nat
  BY <1>1 DEF TapeTypeOK, unit
<1>3. addr \in Nat /\ left \in Nat /\ n \in Nat /\ ByteBits \in Nat \ {0} /\ BufBytes \in Nat
  BY TapeSizeAssumption DEF TapeTypeOK
<1>4. Cur \in Nat /\ addr <= unit.size /\ base <= addr
  BY <1>3 DEF Cur, Lesser, Serving
<1>5. Act \in Nat /\ Act <= unit.size - addr
  BY <1>2, <1>3, <1>4 DEF Act, Lesser
<1>6. Act # 0
  <2>1. CASE Act = 0
    <3>1. Act * ByteBits = 0
      BY <1>3, <2>1
    <3> QED
      BY <1>3, <3>1
  <2> QED
    BY <2>1
<1>7. base < unit.size
  <2>1. base \in Nat
    BY <1>1, <1>2 DEF base, Lesser
  <2> QED
    BY <1>2, <1>3, <1>4, <1>5, <1>6, <2>1
<1>8. base = req.addr
  BY <1>1, <1>2, <1>7 DEF base, Lesser
<1>9. addr * ByteBits \in Nat /\ req.addr * ByteBits \in Nat
  BY <1>1, <1>3, TimesNat
<1>10. bit \in Nat
  BY <1>3, <1>9 DEF bit
<1>11. (addr - req.addr) * ByteBits = addr * ByteBits - req.addr * ByteBits
  BY <1>1, <1>3, Distribute
<1>12. Len(moved) = (addr - req.addr) * ByteBits + n
  BY <1>8 DEF Serving
<1>13. req.addr * ByteBits + Len(moved) = bit
  <2> DEFINE x == addr * ByteBits
             y == req.addr * ByteBits
             z == (addr - req.addr) * ByteBits
  <2>1. x \in Nat /\ y \in Nat /\ z = x - y /\ Len(moved) = z + n /\ bit = x + n
    BY <1>9, <1>11, <1>12 DEF bit
  <2> HIDE DEF x, y, z
  <2>2. y + Len(moved) = bit
    BY <1>3, <2>1
  <2> QED
    BY <2>2 DEF y
<1> QED
  BY <1>1, <1>2, <1>4, <1>5, <1>8, <1>10, <1>13

\* One more bit, which is right: the transfer is as far as it says.
LEMMA DeliverServes ==
    ASSUME TapeTypeOK, Serving, n < Act * ByteBits, NEW b \in BitValue, Deliver(b),
           unit'.format = unit.format, unit'.file = unit.file, unit'.size = unit.size,
           unit.err => unit'.err, ~unit'.err => TapeHas(unit.file, bit, b),
           UNCHANGED <<phase, req, addr, left>>
    PROVE  Serving'
<1>1. /\ moved' = Append(moved, b) /\ n' = n + 1
      /\ phase' = phase /\ req' = req /\ addr' = addr /\ left' = left
  BY DEF Deliver
<1>2. /\ Act \in Nat /\ base = req.addr /\ bit \in Nat /\ req.addr \in Nat
      /\ req.addr * ByteBits + Len(moved) = bit
  BY OnTape
<1>3. n \in Nat /\ ByteBits \in Nat /\ addr \in Nat
  BY TapeSizeAssumption DEF TapeTypeOK
<1>4. moved \in Seq(BitValue)
  BY DEF Serving
<1>5. /\ moved' \in Seq(BitValue) /\ Len(moved) \in Nat /\ Len(moved') = Len(moved) + 1
      /\ moved'[Len(moved) + 1] = b
      /\ \A i \in 1 .. Len(moved) : moved'[i] = moved[i]
  BY <1>1, <1>4
<1>6. Cur' = Cur /\ Act' = Act /\ base' = base
  BY <1>1 DEF Cur, Act, base
<1>7. Act * ByteBits \in Nat /\ n + 1 <= Act * ByteBits
  <2> DEFINE all == Act * ByteBits
  <2>1. all \in Nat
    BY <1>2, <1>3, TimesNat
  <2>2. n < all
    OBVIOUS
  <2> HIDE DEF all
  <2>3. n + 1 <= all
    BY <1>3, <2>1, <2>2
  <2> QED
    BY <2>1, <2>3 DEF all
<1>8. (addr - base) * ByteBits \in Int /\ Len(moved) = (addr - base) * ByteBits + n
  BY <1>2, <1>3 DEF Serving
<1>9. Len(moved') = (addr - base) * ByteBits + (n + 1)
  BY <1>3, <1>5, <1>8
<1>10. ASSUME ~unit'.err, NEW i \in 1 .. Len(moved')
       PROVE  TapeHas(unit.file, req.addr * ByteBits + i - 1, moved'[i])
  <2>1. CASE i \in 1 .. Len(moved)
    BY <1>5, <1>10, <2>1 DEF Serving
  <2>2. CASE i = Len(moved) + 1
    <3>1. req.addr * ByteBits \in Nat
      BY <1>2, <1>3, TimesNat
    <3>2. req.addr * ByteBits + i - 1 = bit
      BY <1>2, <1>5, <2>2, <3>1
    <3> QED
      BY <1>5, <1>10, <2>2, <3>2
  <2> QED
    BY <1>5, <1>10, <2>1, <2>2
<1>11. /\ phase = "busy" /\ req \in TapeAsks /\ unit.format = "uef"
       /\ base <= addr /\ addr <= unit.size /\ addr - base + left = req.size
  BY DEF Serving
<1>12. /\ (phase = "busy")' /\ (req \in TapeAsks)' /\ (unit.format = "uef")'
       /\ (base <= addr)' /\ (addr <= unit.size)' /\ (addr - base + left = req.size)'
  BY <1>1, <1>6, <1>11
<1>13. (n <= Act * ByteBits)' /\ (Len(moved) = (addr - base) * ByteBits + n)'
  BY <1>1, <1>6, <1>7, <1>9
<1>14. (~unit.err => \A i \in 1 .. Len(moved) :
            TapeHas(unit.file, req.addr * ByteBits + i - 1, moved[i]))'
  BY <1>1, <1>10
<1> QED
  BY <1>5, <1>12, <1>13, <1>14 DEF Serving

-----------------------------------------------------------------------------
(* The walk.                                                                *)

\* What a walk stands on is a tape.
LEMMA WalkFacts ==
    ASSUME TapeInv, pc = "walk"
    PROVE  /\ walk.drive \in TapeDrive /\ file \in Tapes /\ tape[walk.drive].format = "uef"
           /\ walk.at \in 1 .. Chunks(file) + 1 /\ walk.left \in Nat /\ walk.from \in Nat
           /\ walk.from = file.start[walk.at] /\ Chunks(file) \in Nat /\ walk.scan \in BOOLEAN
           /\ walk.from + walk.left = IF walk.scan THEN Top ELSE bit
BY TapeFacts DEF TapeInv, TapeTypeOK, OneTape, Walking, file

\* What the walk's end leaves of the drives.
LEMMA NotFoundDrives ==
    ASSUME TapeInv, pc = "walk", NEW fails \in BOOLEAN, NotFound(fails)
    PROVE  /\ TapeTypeOK' /\ OneTape' /\ CursorRight'
           /\ \A d \in TapeDrive : tape'[d].format = tape[d].format /\ tape'[d].file = tape[d].file
           /\ \A d \in TapeDrive : d # walk.drive => tape'[d] = tape[d]
           /\ tape'[walk.drive].err = fails
           /\ tape'[walk.drive].size =
                 IF walk.scan THEN (Top - walk.left + ByteBits - 1) \div ByteBits
                 ELSE tape[walk.drive].size
<1>1. /\ walk.drive \in TapeDrive /\ walk.left \in Nat /\ walk.from \in Nat
      /\ walk.from + walk.left = IF walk.scan THEN Top ELSE bit
  BY WalkFacts
<1> DEFINE size == IF walk.scan THEN (Top - walk.left + ByteBits - 1) \div ByteBits
                   ELSE tape[walk.drive].size
<1>2. tape' = [tape EXCEPT ![walk.drive].err = fails, ![walk.drive].size = size]
  BY DEF NotFound
<1>3. size \in Nat
  <2>1. CASE walk.scan
    <3>1. ByteBits \in Nat \ {0} /\ Top - walk.left = walk.from
      BY <1>1, <2>1, TapeSizeAssumption
    <3>2. Top - walk.left + ByteBits - 1 \in Nat
      BY <1>1, <3>1
    <3>3. (Top - walk.left + ByteBits - 1) \div ByteBits \in Nat
      BY <3>1, <3>2
    <3> QED
      BY <2>1, <3>3
  <2>2. CASE ~walk.scan
    BY <1>1, <2>2 DEF TapeInv, TapeTypeOK
  <2> QED
    BY <2>1, <2>2
<1> HIDE DEF size
<1>4. tape \in [TapeDrive -> [format : {"none", "uef", "xxx"}, file : Tapes \cup {Empty},
                              size : Nat, err : BOOLEAN]]
  BY DEF TapeInv, TapeTypeOK
<1>5. tape' \in [TapeDrive -> [format : {"none", "uef", "xxx"}, file : Tapes \cup {Empty},
                               size : Nat, err : BOOLEAN]]
  BY <1>1, <1>2, <1>3, <1>4
<1>6. \A d \in TapeDrive : d # walk.drive => tape'[d] = tape[d]
  BY <1>1, <1>2, <1>4
<1>7. /\ tape'[walk.drive].format = tape[walk.drive].format
      /\ tape'[walk.drive].file = tape[walk.drive].file
      /\ tape'[walk.drive].err = fails /\ tape'[walk.drive].size = size
  BY <1>1, <1>2, <1>4
<1>8. \A d \in TapeDrive : tape'[d].format = tape[d].format /\ tape'[d].file = tape[d].file
  BY <1>6, <1>7
<1>9. n' \in Nat /\ UNCHANGED <<cursor, walk, addr, left>>
  BY DEF NotFound, Deliver, TapeInv, TapeTypeOK
<1>10. TapeTypeOK'
  BY <1>5, <1>9 DEF TapeInv, TapeTypeOK
<1>11. OneTape'
  BY <1>8 DEF TapeInv, OneTape
<1>12. CursorRight'
  BY <1>8, <1>9 DEF TapeInv, CursorRight
<1> QED
  BY <1>6, <1>7, <1>8, <1>10, <1>11, <1>12 DEF size

\* The length that a scan finds, and the low bit behind the tape.
LEMMA NotFoundStep ==
    ASSUME TapeInv, pc = "walk", NEW fails \in BOOLEAN, NotFound(fails),
           tape[walk.drive].err => fails,
           ~fails => walk.at = Chunks(file) + 1
    PROVE  TapeInv'
<1>1. /\ walk.drive \in TapeDrive /\ file \in Tapes /\ tape[walk.drive].format = "uef"
      /\ walk.left \in Nat /\ walk.from \in Nat /\ walk.from = file.start[walk.at]
      /\ walk.from + walk.left = IF walk.scan THEN Top ELSE bit
  BY WalkFacts
<1>2. /\ TapeTypeOK' /\ OneTape' /\ CursorRight'
      /\ \A d \in TapeDrive : tape'[d].format = tape[d].format /\ tape'[d].file = tape[d].file
      /\ \A d \in TapeDrive : d # walk.drive => tape'[d] = tape[d]
      /\ tape'[walk.drive].err = fails
      /\ tape'[walk.drive].size =
            IF walk.scan THEN (Top - walk.left + ByteBits - 1) \div ByteBits
            ELSE tape[walk.drive].size
  BY NotFoundDrives
<1>3. UNCHANGED <<phase, req, answer, cursor, walk, addr, left>>
  BY DEF NotFound
<1>4. CASE walk.scan
  <2>1. pc' = "idle"
    BY <1>4 DEF NotFound
  <2>2. \A d \in TapeDrive : d # walk.drive => tape[d].format # "uef"
    BY <1>1 DEF TapeInv, OneTape
  <2>3. ASSUME ~fails
        PROVE  tape'[walk.drive].size =
                 (file.start[Chunks(file) + 1] + ByteBits - 1) \div ByteBits
    <3>1. Top - walk.left = walk.from /\ walk.from = file.start[Chunks(file) + 1]
      BY <1>1, <1>4, <2>3, TapeSizeAssumption
    <3> QED
      BY <1>2, <1>4, <3>1
  <2>4. SizeKnown'
    BY <1>1, <1>2, <2>2, <2>3 DEF SizeKnown, file
  <2> QED
    BY <1>2, <2>1, <2>4, AtRest
<1>5. CASE ~walk.scan
  <2>1. pc' = "bit" /\ Deliver(<<"low">>)
    BY <1>5 DEF NotFound, Deliver
  <2>2. Serving /\ walk.drive = req.drive /\ n < Act * ByteBits
    BY <1>5 DEF TapeInv, Walking
  <2>3. /\ unit'.format = unit.format /\ unit'.file = unit.file /\ unit'.size = unit.size
        /\ unit'.err = fails /\ unit.file = file
    BY <1>1, <1>2, <1>3, <1>5, <2>2 DEF unit, file
  <2>4. bit \in Nat
    BY <2>2, OnTape DEF TapeInv
  <2>5. ASSUME ~fails PROVE TapeHas(unit.file, bit, <<"low">>)
    <3>1. walk.from + walk.left = bit /\ walk.from = file.start[Chunks(file) + 1]
      BY <1>1, <1>5, <2>5
    <3>2. file.start[Chunks(file) + 1] <= bit
      BY <1>1, <2>4, <3>1
    <3> QED
      BY <1>1, <2>3, <2>4, <3>2, BitBehind
  <2>6. <<"low">> \in BitValue
    BY DEF BitValue
  <2>7. unit.err => unit'.err
    BY <2>2, <2>3 DEF unit
  <2>8. Serving'
    BY <1>3, <2>1, <2>2, <2>3, <2>5, <2>6, <2>7, DeliverServes DEF TapeInv
  <2>9. ASSUME NEW d \in TapeDrive, tape'[d].format = "uef", ~tape'[d].err
        PROVE  tape[d].format = "uef" /\ ~tape[d].err /\ tape'[d].size = tape[d].size
                 /\ tape'[d].file = tape[d].file
    BY <1>2, <1>5, <2>9
  <2>10. SizeKnown'
    BY <1>5, <2>9 DEF TapeInv, SizeKnown
  <2> QED
    BY <1>2, <2>1, <2>8, <2>10 DEF TapeInv
<1> QED
  BY <1>1, <1>4, <1>5

\* The walk goes over a chunk.
LEMMA WalkOnStep ==
    ASSUME TapeInv, WalkOn
    PROVE  TapeInv'
<1>1. /\ pc = "walk" /\ pc' = pc /\ walk.at <= Chunks(file) /\ walk.left >= BitsOf(chunk)
      /\ walk' = [drive |-> walk.drive, scan |-> walk.scan, at |-> walk.at + 1,
                  left |-> walk.left - BitsOf(chunk), from |-> walk.from + BitsOf(chunk)]
      /\ UNCHANGED <<phase, req, answer, moved, tape, cursor, addr, left, n>>
  BY DEF WalkOn, Walk, lineVars, transfer
<1>2. /\ walk.drive \in TapeDrive /\ file \in Tapes /\ tape[walk.drive].format = "uef"
      /\ walk.at \in 1 .. Chunks(file) + 1 /\ walk.left \in Nat /\ walk.from \in Nat
      /\ walk.from = file.start[walk.at] /\ Chunks(file) \in Nat /\ walk.scan \in BOOLEAN
      /\ walk.from + walk.left = IF walk.scan THEN Top ELSE bit
  BY <1>1, WalkFacts
<1>3. walk.at \in 1 .. Chunks(file) /\ BitsOf(chunk) \in Nat
      /\ file.start[walk.at + 1] = walk.from + BitsOf(chunk)
  BY <1>1, <1>2, TapeFacts DEF chunk
<1>4. walk' \in [drive : TapeDrive, scan : BOOLEAN, at : Nat, left : Nat, from : Nat]
  <2>1. walk.left - BitsOf(chunk) \in Nat /\ walk.from + BitsOf(chunk) \in Nat
        /\ walk.at + 1 \in Nat
    BY <1>1, <1>2, <1>3
  <2> QED
    BY <1>1, <1>2, <2>1
<1>5. TapeTypeOK'
  BY <1>1, <1>4 DEF TapeInv, TapeTypeOK
<1>6. OneTape' /\ CursorRight'
  BY <1>1, DrivesKept DEF TapeInv
<1>7. /\ walk'.drive = walk.drive /\ walk'.scan = walk.scan /\ walk'.at = walk.at + 1
      /\ walk'.from = walk.from + BitsOf(chunk) /\ walk'.left = walk.left - BitsOf(chunk)
  BY <1>1
<1>8. SizeKnown'
  BY <1>1, <1>7 DEF TapeInv, SizeKnown
<1>9. file' = file /\ bit' = bit /\ Act' = Act
  BY <1>1, <1>7 DEF file, bit, Act, Cur, unit
<1>10. walk'.from + walk'.left = walk.from + walk.left
  BY <1>2, <1>3, <1>7
<1>11. walk'.at \in 1 .. Chunks(file) + 1 /\ walk'.from = file.start[walk'.at]
  BY <1>2, <1>3, <1>7
<1>12. Walking'
  BY <1>1, <1>2, <1>7, <1>9, <1>10, <1>11 DEF TapeInv, Walking
<1>13. Serving => Serving'
  BY <1>1 DEF Serving, base, unit, Act, Cur
<1> QED
  BY <1>1, <1>5, <1>6, <1>7, <1>8, <1>12, <1>13 DEF TapeInv

\* The walk arrives: only for a bit of the core, since no tape reaches Top.
LEMMA WalkHitsStep ==
    ASSUME TapeInv, WalkHits
    PROVE  TapeInv'
<1>1. /\ pc = "walk" /\ pc' = "bit" /\ walk.at <= Chunks(file) /\ walk.left < BitsOf(chunk)
      /\ cursor' = Found
      /\ UNCHANGED <<phase, req, answer, moved, tape, walk, addr, left, n>>
  BY DEF WalkHits, transfer
<1>2. /\ walk.drive \in TapeDrive /\ file \in Tapes /\ tape[walk.drive].format = "uef"
      /\ walk.at \in 1 .. Chunks(file) + 1 /\ walk.left \in Nat /\ walk.from \in Nat
      /\ walk.from = file.start[walk.at] /\ Chunks(file) \in Nat /\ walk.scan \in BOOLEAN
      /\ walk.from + walk.left = IF walk.scan THEN Top ELSE bit
  BY <1>1, WalkFacts
<1>3. /\ walk.at \in 1 .. Chunks(file) /\ BitsOf(chunk) \in Nat
      /\ file.start[walk.at + 1] = walk.from + BitsOf(chunk)
      /\ chunk \in Chunk
  BY <1>1, <1>2, TapeFacts DEF chunk
<1>4. ~walk.scan
  <2>1. file.start[walk.at + 1] <= file.start[Chunks(file) + 1] /\ file.start[Chunks(file) + 1] < Top
        /\ file.start[Chunks(file) + 1] \in Nat
    <3>1. walk.at + 1 \in 1 .. Chunks(file) + 1 /\ Chunks(file) + 1 \in 1 .. Chunks(file) + 1
          /\ walk.at + 1 <= Chunks(file) + 1
      BY <1>2, <1>3
    <3> QED
      BY <1>2, <3>1, TapeFacts
  <2>2. Top \in Nat
    BY TapeSizeAssumption
  <2> QED
    BY <1>1, <1>2, <1>3, <2>1, <2>2
<1>5. /\ cursor'.kind = chunk.kind /\ cursor'.place = walk.at /\ cursor'.start = walk.from
      /\ cursor'.end = walk.from + BitsOf(chunk) /\ cursor'.pre = chunk.pre
  BY <1>1 DEF Found
<1>6. cursor' \in [kind : Timed \cup {"other"}, place : Nat, start : Nat, end : Nat, pre : Nat]
  <2>1. chunk.kind \in Timed \cup {"other"} /\ chunk.pre \in Nat
    BY <1>3 DEF Chunk
  <2>2. walk.at \in Nat /\ walk.from + BitsOf(chunk) \in Nat
    BY <1>2, <1>3
  <2> QED
    BY <1>1, <1>2, <2>1, <2>2 DEF Found
<1>7. TapeTypeOK'
  BY <1>1, <1>6 DEF TapeInv, TapeTypeOK
<1>8. OneTape'
  BY <1>1 DEF TapeInv, OneTape
<1>9. CursorRight'
  <2>1. \A d \in TapeDrive : tape'[d].format = "uef" => d = walk.drive
    BY <1>1, <1>2 DEF TapeInv, OneTape
  <2>2. tape'[walk.drive].file = file
    BY <1>1 DEF file
  <2> QED
    BY <1>2, <1>3, <1>5, <2>1, <2>2 DEF CursorRight, chunk
<1>10. SizeKnown'
  BY <1>1, <1>4 DEF TapeInv, SizeKnown
<1>11. Serving'
  BY <1>1, <1>4 DEF TapeInv, Serving, base, unit, Act, Cur
<1> QED
  BY <1>1, <1>7, <1>8, <1>9, <1>10, <1>11 DEF TapeInv

-----------------------------------------------------------------------------
(* The transfer.                                                            *)

\* A bit out of the chunk that was found last.
LEMMA BitHereStep ==
    ASSUME TapeInv, BitHere
    PROVE  TapeInv'
<1>1. /\ pc = "bit" /\ n < Act * ByteBits /\ Hit(cursor, bit)
      /\ UNCHANGED <<phase, req, answer, cursor, walk, addr, left>>
  BY DEF BitHere
<1>2. PICK fails \in BOOLEAN :
          /\ tape' = [tape EXCEPT ![req.drive].err = @ \/ fails]
          /\ Deliver(IF fails THEN <<"any">>
                     ELSE BitOf(cursor.kind, cursor.place, bit - cursor.start, cursor.pre))
  BY DEF BitHere
<1>3. Serving /\ req.drive \in TapeDrive /\ unit.format = "uef" /\ unit.file \in Tapes
  BY <1>1, TapeAskAssumption DEF TapeInv, Serving, OneTape, unit
<1>4. bit \in Nat
  BY <1>1, <1>3, OnTape DEF TapeInv
<1>5. /\ cursor.place \in Nat /\ cursor.start \in Nat /\ cursor.end \in Nat /\ cursor.pre \in Nat
  BY DEF TapeInv, TapeTypeOK
<1>6. /\ cursor.start <= bit /\ bit < cursor.end
      /\ cursor.place \in 1 .. Chunks(unit.file)
      /\ cursor.kind = unit.file.chunks[cursor.place].kind
      /\ cursor.pre = unit.file.chunks[cursor.place].pre
      /\ cursor.start = unit.file.start[cursor.place]
      /\ cursor.end = unit.file.start[cursor.place + 1]
  <2>1. cursor.start <= bit /\ bit < cursor.end /\ cursor.end # 0
    BY <1>1, <1>4, <1>5 DEF Hit
  <2> QED
    BY <1>3, <2>1 DEF TapeInv, CursorRight, unit
<1> DEFINE b == IF fails THEN <<"any">>
                ELSE BitOf(cursor.kind, cursor.place, bit - cursor.start, cursor.pre)
<1>7. b \in BitValue
  <2>1. bit - cursor.start \in Int
    BY <1>4, <1>5
  <2>2. BitOf(cursor.kind, cursor.place, bit - cursor.start, cursor.pre) \in BitValue
    BY <1>5, <2>1, BitOfType
  <2>3. <<"any">> \in BitValue
    BY DEF BitValue
  <2> QED
    BY <2>2, <2>3
<1>8. ~fails => TapeHas(unit.file, bit, b)
  BY <1>3, <1>4, <1>6, BitInChunk
<1> HIDE DEF b
<1>9. tape \in [TapeDrive -> [format : {"none", "uef", "xxx"}, file : Tapes \cup {Empty},
                              size : Nat, err : BOOLEAN]]
  BY DEF TapeInv, TapeTypeOK
<1>10. tape' \in [TapeDrive -> [format : {"none", "uef", "xxx"}, file : Tapes \cup {Empty},
                               size : Nat, err : BOOLEAN]]
  BY <1>2, <1>3, <1>9
<1>11. \A d \in TapeDrive : tape'[d].format = tape[d].format /\ tape'[d].file = tape[d].file
          /\ tape'[d].size = tape[d].size /\ (tape[d].err => tape'[d].err)
  BY <1>2, <1>3, <1>9
<1>12. /\ unit'.format = unit.format /\ unit'.file = unit.file /\ unit'.size = unit.size
       /\ (unit.err => unit'.err)
  BY <1>1, <1>3, <1>11 DEF unit
<1>13. fails => unit'.err
  BY <1>1, <1>2, <1>3, <1>9 DEF unit
<1>14. Deliver(b) /\ pc' = "bit" /\ n' = n + 1
  BY <1>2 DEF b, Deliver
<1>15. Serving'
  BY <1>1, <1>3, <1>7, <1>8, <1>12, <1>13, <1>14, DeliverServes DEF TapeInv
<1>16. TapeTypeOK'
  <2>1. n' \in Nat
    BY <1>14 DEF TapeInv, TapeTypeOK
  <2> QED
    BY <1>1, <1>10, <2>1 DEF TapeInv, TapeTypeOK
<1>17. OneTape'
  BY <1>11 DEF TapeInv, OneTape
<1>18. CursorRight'
  BY <1>1, <1>11 DEF TapeInv, CursorRight
<1>19. SizeKnown'
  BY <1>1, <1>11 DEF TapeInv, SizeKnown
<1> QED
  BY <1>14, <1>15, <1>16, <1>17, <1>18, <1>19 DEF TapeInv

\* A walk to the next bit begins behind the cursor or at the start of the tape.
LEMMA BitElsewhereStep ==
    ASSUME TapeInv, BitElsewhere
    PROVE  TapeInv'
<1>1. /\ pc = "bit" /\ n < Act * ByteBits /\ pc' = "walk" /\ cursor' = NoChunk
      /\ UNCHANGED <<phase, req, answer, moved, tape, addr, left, n>>
  BY DEF BitElsewhere, transfer
<1>2. Serving /\ req.drive \in TapeDrive /\ unit.format = "uef" /\ unit.file \in Tapes
  BY <1>1, TapeAskAssumption DEF TapeInv, Serving, OneTape, unit
<1>3. bit \in Nat
  BY <1>1, <1>2, OnTape DEF TapeInv
<1>4. cursor.place \in Nat /\ cursor.end \in Nat
  BY DEF TapeInv, TapeTypeOK
<1>5. /\ walk' \in [drive : TapeDrive, scan : BOOLEAN, at : Nat, left : Nat, from : Nat]
      /\ walk'.drive = req.drive /\ ~walk'.scan
      /\ walk'.at \in 1 .. Chunks(unit.file) + 1
      /\ walk'.from = unit.file.start[walk'.at]
      /\ walk'.from + walk'.left = bit
  <2>1. CASE cursor.end # 0 /\ bit >= cursor.end
    <3>1. walk' = [drive |-> req.drive, scan |-> FALSE, at |-> cursor.place + 1,
                   left |-> bit - cursor.end, from |-> cursor.end]
      BY <2>1 DEF BitElsewhere, Walk
    <3>2. cursor.place \in 1 .. Chunks(unit.file)
          /\ cursor.end = unit.file.start[cursor.place + 1]
      BY <1>2, <2>1 DEF TapeInv, CursorRight, unit
    <3>3. Chunks(unit.file) \in Nat
      BY <1>2, TapeFacts
    <3>4. cursor.place + 1 \in 1 .. Chunks(unit.file) + 1 /\ cursor.place + 1 \in Nat
          /\ bit - cursor.end \in Nat /\ cursor.end + (bit - cursor.end) = bit
      BY <1>3, <1>4, <2>1, <3>2, <3>3
    <3> QED
      BY <1>2, <1>4, <3>1, <3>2, <3>4
  <2>2. CASE ~(cursor.end # 0 /\ bit >= cursor.end)
    <3>1. walk' = [drive |-> req.drive, scan |-> FALSE, at |-> 1, left |-> bit, from |-> 0]
      BY <2>2 DEF BitElsewhere, Walk
    <3>2. 1 \in 1 .. Chunks(unit.file) + 1 /\ unit.file.start[1] = 0 /\ 0 + bit = bit
          /\ 1 \in Nat /\ 0 \in Nat
      BY <1>2, <1>3, TapeFacts
    <3> QED
      BY <1>2, <1>3, <3>1, <3>2
  <2> QED
    BY <2>1, <2>2
<1>6. TapeTypeOK'
  BY <1>1, <1>5, NoTapeType DEF TapeInv, TapeTypeOK
<1>7. OneTape'
  BY <1>1 DEF TapeInv, OneTape
<1>8. CursorRight' /\ cursor'.end = 0
  BY <1>1 DEF CursorRight, NoChunk
<1>9. SizeKnown'
  BY <1>1, <1>5 DEF TapeInv, SizeKnown
<1>10. Serving'
  BY <1>1, <1>2 DEF Serving, base, unit, Act, Cur
<1>11. Walking'
  <2>1. file' = unit.file /\ bit' = bit /\ Act' = Act /\ tape'[walk'.drive].format = "uef"
    BY <1>1, <1>2, <1>5 DEF file, unit, bit, Act, Cur
  <2> QED
    BY <1>1, <1>5, <1>8, <2>1 DEF Walking
<1> QED
  BY <1>1, <1>6, <1>7, <1>8, <1>9, <1>10, <1>11 DEF TapeInv

\* What keeps the drives, with numbers in the transfer, and does not leave the
\* driver in a transfer or a walk.
LEMMA RestStep ==
    ASSUME TapeInv, pc \notin {"walk"}, pc' \notin {"bit", "walk"},
           UNCHANGED <<tape, cursor, walk>>, addr' \in Nat, left' \in Nat, n' \in Nat
    PROVE  TapeInv'
<1>1. TapeTypeOK'
  BY DEF TapeInv, TapeTypeOK
<1>2. OneTape' /\ CursorRight'
  BY DrivesKept DEF TapeInv
<1>3. SizeKnown'
  BY SizesKept DEF TapeInv
<1> QED
  BY <1>1, <1>2, <1>3, AtRest

\* A full buffer: the transfer goes on, or the tape has ended.
LEMMA SendBufferStep ==
    ASSUME TapeInv, SendBuffer
    PROVE  TapeInv'
<1>1. pc = "bit" /\ n = Act * ByteBits /\ UNCHANGED <<moved, tape, cursor, walk>>
  BY DEF SendBuffer
<1>2. Serving /\ addr \in Nat /\ left \in Nat /\ n \in Nat /\ ByteBits \in Nat /\ BufBytes \in Nat
  BY <1>1, TapeSizeAssumption DEF TapeInv, TapeTypeOK
<1>3. CASE Act # Cur
  BY <1>1, <1>2, <1>3, RestStep DEF SendBuffer, Return, transfer
<1>4. CASE Act = Cur
  <2>1. /\ addr' = addr + Cur /\ left' = left - Cur /\ n' = 0 /\ pc' = pc
        /\ UNCHANGED <<phase, req, answer>>
    BY <1>4 DEF SendBuffer
  <2>2. req \in TapeAsks /\ req.drive \in TapeDrive /\ req.addr \in Nat /\ req.size \in Nat
    BY <1>2, TapeAskAssumption DEF Serving
  <2>3. unit.size \in Nat /\ base \in Nat
    BY <2>2 DEF TapeInv, TapeTypeOK, unit, base, Lesser
  <2>4. Cur \in Nat /\ Cur <= left
    BY <1>2 DEF Cur, Lesser
  <2>5. Cur <= unit.size - addr
    BY <1>2, <1>4, <2>3, <2>4 DEF Act, Lesser, Serving
  <2>6. addr' \in Nat /\ left' \in Nat /\ n' \in Nat
    BY <1>2, <2>1, <2>4
  <2>7. base' = base /\ unit' = unit
    BY <1>1, <2>1 DEF base, unit
  <2>8. base <= addr /\ addr <= unit.size /\ addr - base + left = req.size
        /\ Len(moved) = (addr - base) * ByteBits + n
    BY <1>2 DEF Serving
  <2>9. base <= addr' /\ addr' <= unit.size /\ addr' - base + left' = req.size
    BY <1>2, <2>1, <2>2, <2>3, <2>4, <2>5, <2>8
  <2>10. Len(moved) = (addr' - base) * ByteBits + 0
    <3>1. addr - base \in Int /\ Cur \in Int /\ addr' - base = (addr - base) + Cur
      BY <1>2, <2>1, <2>3, <2>4
    <3>2. ((addr - base) + Cur) * ByteBits = (addr - base) * ByteBits + Cur * ByteBits
      BY <1>2, <3>1, Distribute
    <3>3. (addr' - base) * ByteBits = (addr - base) * ByteBits + n
      BY <1>1, <1>4, <3>1, <3>2
    <3>4. (addr - base) * ByteBits \in Int
      BY <1>2, <3>1
    <3> QED
      BY <1>2, <2>8, <3>3, <3>4
  <2>11. 0 <= Act' * ByteBits
    <3>1. Cur' \in Nat
      BY <1>2, <2>6 DEF Cur, Lesser
    <3>2. Act' \in Nat
      BY <2>3, <2>6, <2>7, <2>9, <3>1 DEF Act, Lesser
    <3> QED
      BY <1>2, <3>2, TimesNat, Zenon
  <2>12. /\ phase = "busy" /\ unit.format = "uef" /\ moved \in Seq(BitValue)
         /\ ~unit.err => \A i \in 1 .. Len(moved) :
                TapeHas(unit.file, req.addr * ByteBits + i - 1, moved[i])
    BY <1>2 DEF Serving
  <2>13. /\ (phase = "busy")' /\ (req \in TapeAsks)' /\ (unit.format = "uef")'
         /\ (moved \in Seq(BitValue))'
         /\ (~unit.err => \A i \in 1 .. Len(moved) :
                TapeHas(unit.file, req.addr * ByteBits + i - 1, moved[i]))'
    BY <1>1, <2>1, <2>2, <2>7, <2>12
  <2>14. /\ (base <= addr)' /\ (addr <= unit.size)' /\ (addr - base + left = req.size)'
         /\ (n <= Act * ByteBits)' /\ (Len(moved) = (addr - base) * ByteBits + n)'
    BY <1>1, <2>1, <2>7, <2>9, <2>10, <2>11
  <2>15. Serving'
    BY <2>13, <2>14 DEF Serving
  <2>16. TapeTypeOK'
    BY <1>1, <2>6 DEF TapeInv, TapeTypeOK
  <2>17. OneTape' /\ CursorRight'
    BY <1>1, DrivesKept DEF TapeInv
  <2>18. SizeKnown'
    BY <1>1, SizesKept DEF TapeInv
  <2> QED
    BY <1>1, <2>1, <2>15, <2>16, <2>17, <2>18 DEF TapeInv
<1> QED
  BY <1>3, <1>4

\* A transfer begins with nothing moved.
LEMMA TapeBeginStep ==
    ASSUME TapeInv, Requested, TapeBegin
    PROVE  TapeInv'
<1>1. /\ phase = "req" /\ unit.format # "none" /\ pc = "idle" /\ phase' = "busy"
      /\ pc' = (IF req.dir = "write" \/ unit.format = "xxx" THEN "ignore" ELSE "bit")
      /\ addr' = Lesser(req.addr, unit.size) /\ left' = req.size /\ n' = 0
      /\ UNCHANGED <<req, answer, moved, tape, cursor, walk>>
  BY DEF TapeBegin, Accept
<1>2. /\ req \in TapeAsks /\ moved = << >>
      /\ req.drive \in TapeDrive /\ req.addr \in Nat /\ req.size \in Nat
  BY <1>1, TapeAskAssumption DEF Requested
<1>3. unit.size \in Nat /\ unit.format \in {"none", "uef", "xxx"}
  BY <1>2 DEF TapeInv, TapeTypeOK, unit
<1>4. addr' \in Nat /\ addr' <= unit.size /\ left' \in Nat /\ n' \in Nat
  BY <1>1, <1>2, <1>3 DEF Lesser
<1>5. CASE req.dir = "write" \/ unit.format = "xxx"
  BY <1>1, <1>4, <1>5, RestStep
<1>6. CASE ~(req.dir = "write" \/ unit.format = "xxx")
  <2>1. pc' = "bit" /\ unit.format = "uef"
    BY <1>1, <1>3, <1>6
  <2>2. unit' = unit /\ base' = addr'
    BY <1>1 DEF unit, base
  <2>3. ByteBits \in Nat /\ BufBytes \in Nat
    BY TapeSizeAssumption
  <2>4. (addr' - addr') * ByteBits + 0 = 0
    BY <1>4, <2>3, NoBytes
  <2>5. Cur' \in Nat
    BY <1>4, <2>3 DEF Cur, Lesser
  <2>6. Act' \in Nat
    BY <1>3, <1>4, <2>2, <2>5 DEF Act, Lesser
  <2>7. 0 <= Act' * ByteBits
    BY <2>3, <2>6, TimesNat, Zenon
  <2>8. moved' \in Seq(BitValue) /\ Len(moved') = 0
    BY <1>1, <1>2
  <2>9. /\ (phase = "busy")' /\ (req \in TapeAsks)' /\ (unit.format = "uef")'
        /\ (base <= addr)' /\ (addr <= unit.size)' /\ (addr - base + left = req.size)'
        /\ (n <= Act * ByteBits)'
    BY <1>1, <1>2, <1>4, <2>1, <2>2, <2>7
  <2>10. (Len(moved) = (addr - base) * ByteBits + n)'
    BY <1>1, <2>2, <2>4, <2>8
  <2>11. (\A i \in 1 .. Len(moved) :
             TapeHas(unit.file, req.addr * ByteBits + i - 1, moved[i]))'
    BY <2>8
  <2>12. Serving'
    BY <2>8, <2>9, <2>10, <2>11 DEF Serving
  <2>13. TapeTypeOK'
    BY <1>1, <1>4 DEF TapeInv, TapeTypeOK
  <2>14. OneTape' /\ CursorRight'
    BY <1>1, DrivesKept DEF TapeInv
  <2>15. SizeKnown'
    BY <1>1, SizesKept DEF TapeInv
  <2> QED
    BY <2>1, <2>12, <2>13, <2>14, <2>15 DEF TapeInv
<1> QED
  BY <1>5, <1>6

\* The core raises a request: between two transfers, or while a tape is scanned.
LEMMA AskStep ==
    ASSUME TapeInv, AskTape
    PROVE  TapeInv' /\ Requested'
<1>1. /\ phase = "idle" /\ req' \in TapeAsks /\ moved' = << >>
      /\ UNCHANGED <<pc, tape, cursor, walk, addr, left, n>>
  BY DEF AskTape, Raise, tapeVars
<1>2. Requested'
  BY <1>1 DEF Requested
<1>3. TapeTypeOK'
  BY <1>1 DEF TapeInv, TapeTypeOK
<1>4. OneTape' /\ CursorRight'
  BY <1>1, DrivesKept DEF TapeInv
<1>5. SizeKnown'
  BY <1>1 DEF TapeInv, SizeKnown
<1>6. ~(pc = "bit" \/ (pc = "walk" /\ ~walk.scan))
  BY <1>1 DEF TapeInv, Serving
<1>7. CASE pc = "walk"
  <2>1. walk.scan /\ Walking
    BY <1>6, <1>7 DEF TapeInv
  <2>2. Walking'
    BY <1>1, <2>1 DEF Walking, file
  <2> QED
    BY <1>1, <1>2, <1>3, <1>4, <1>5, <1>7, <2>1, <2>2 DEF TapeInv
<1>8. CASE pc # "walk"
  BY <1>1, <1>2, <1>3, <1>4, <1>5, <1>6, <1>8, AtRest
<1> QED
  BY <1>7, <1>8

\* Every step of the tape driver, and of those who change its tapes.
LEMMA TapeStepKeeps ==
    ASSUME ~Together, TapeInv, Requested, TapeNext
    PROVE  TapeInv' /\ Requested'
<1>1. ASSUME NEW d \in TapeDrive, InsertTape(d) PROVE TapeInv' /\ Requested'
  <2>1. UNCHANGED <<phase, req, moved>>
    BY <1>1 DEF InsertTape
  <2> QED
    BY <1>1, <2>1, InsertStep DEF Requested
<1>2. ASSUME NEW d \in TapeDrive, EjectTape(d) PROVE TapeInv' /\ Requested'
  <2>1. UNCHANGED <<phase, req, moved>>
    BY <1>2 DEF EjectTape, lineVars
  <2> QED
    BY <1>2, <2>1, EjectStep DEF Requested
<1>3. CASE AskTape
  BY <1>3, AskStep
<1>4. ASSUME pc = "walk", NEW fails \in BOOLEAN, NotFound(fails) PROVE Requested'
  <2>1. UNCHANGED <<phase, req>> /\ (walk.scan => UNCHANGED moved)
    BY <1>4 DEF NotFound
  <2>2. ~walk.scan => phase = "busy"
    BY <1>4 DEF TapeInv, Serving
  <2> QED
    BY <2>1, <2>2 DEF Requested
<1>5. CASE WalkEnds
  <2>1. /\ pc = "walk" /\ walk.at > Chunks(file) /\ NotFound(tape[walk.drive].err)
    BY <1>5 DEF WalkEnds
  <2>2. /\ tape[walk.drive].err \in BOOLEAN /\ walk.at = Chunks(file) + 1
    BY <2>1, WalkFacts DEF TapeInv, TapeTypeOK
  <2> QED
    BY <1>4, <2>1, <2>2, NotFoundStep
<1>6. CASE WalkFails
  BY <1>4, <1>6, NotFoundStep DEF WalkFails
<1>7. CASE WalkOn
  <2>1. UNCHANGED <<phase, req, moved>>
    BY <1>7 DEF WalkOn, lineVars
  <2> QED
    BY <1>7, <2>1, WalkOnStep DEF Requested
<1>8. CASE WalkHits
  <2>1. UNCHANGED <<phase, req, moved>>
    BY <1>8 DEF WalkHits
  <2> QED
    BY <1>8, <2>1, WalkHitsStep DEF Requested
<1>9. CASE TapeMissing
  <2>1. phase' = "busy" /\ pc = "idle" /\ pc' = "missing" /\ UNCHANGED tapeVars
    BY <1>9 DEF TapeMissing, Accept
  <2> QED
    BY <2>1, RestStep DEF Requested, tapeVars, TapeInv, TapeTypeOK
<1>10. CASE TapeBegin
  <2>1. phase' = "busy"
    BY <1>10 DEF TapeBegin, Accept
  <2> QED
    BY <1>10, <2>1, TapeBeginStep DEF Requested
<1>11. CASE TapeAbort
  <2>1. phase' = "idle" /\ pc = "missing" /\ pc' = "idle" /\ UNCHANGED tapeVars
    BY <1>11 DEF TapeAbort, Return
  <2> QED
    BY <2>1, RestStep DEF Requested, tapeVars, TapeInv, TapeTypeOK
<1>12. CASE TapeIgnore
  <2>1. pc = "ignore" /\ pc' = "idle" /\ UNCHANGED <<phase, req, moved, tapeVars>>
    BY <1>12 DEF TapeIgnore, ReturnUnanswered
  <2> QED
    BY <2>1, RestStep DEF Requested, tapeVars, TapeInv, TapeTypeOK
<1>13. CASE BitHere
  <2>1. phase' = "busy"
    BY <1>13 DEF BitHere, TapeInv, Serving
  <2> QED
    BY <1>13, <2>1, BitHereStep DEF Requested
<1>14. CASE BitElsewhere
  <2>1. UNCHANGED <<phase, req, moved>>
    BY <1>14 DEF BitElsewhere
  <2> QED
    BY <1>14, <2>1, BitElsewhereStep DEF Requested
<1>15. CASE SendBuffer
  <2>1. phase' # "req"
    BY <1>15 DEF SendBuffer, Return, TapeInv, Serving
  <2> QED
    BY <1>15, <2>1, SendBufferStep DEF Requested
<1>16. CASE TapeDone
  <2>1. phase' = "idle" /\ pc = "bit" /\ pc' = "idle" /\ UNCHANGED tapeVars
    BY <1>16 DEF TapeDone, Return
  <2> QED
    BY <2>1, RestStep DEF Requested, tapeVars, TapeInv, TapeTypeOK
<1> QED
  BY <1>1, <1>2, <1>3, <1>5, <1>6, <1>7, <1>8, <1>9, <1>10, <1>11, <1>12, <1>13, <1>14,
     <1>15, <1>16 DEF TapeNext, TapeDriver, TapeTakes

-----------------------------------------------------------------------------
(* The channel.                                                             *)

\* The floppy driver never is where a transfer of the tape driver could be.
ChannelInv ==
    /\ TapeInv
    /\ fch_driver = 2 => Requested
    /\ fch_driver # 2 => pc \notin {"bit", "walk"}

LEMMA FloppyPlaces ==
    ASSUME pc \notin {"bit", "walk"}, FloppyNext
    PROVE  pc' \notin {"bit", "walk"}
<1>1. ASSUME NEW x \in FloppyDrive,
             InsertDisk(x) \/ EjectDisk(x) \/ ProtectDisk(x) \/ CoreWrites(x) \/ AskRead(x)
      PROVE  pc' = pc
  BY <1>1 DEF InsertDisk, EjectDisk, ProtectDisk, CoreWrites, AskRead, Raise, lineVars
<1>2. ASSUME NEW x \in Channel, CoreStops(x) \/ AskWrite(x) PROVE pc' = pc
  BY <1>2 DEF CoreStops, AskWrite, Raise, lineVars
<1>3. CASE FloppyTakes
  BY <1>3 DEF FloppyTakes, DiskMissing, DiskBegin, Accept
<1>4. CASE DiskAbort \/ WriteToScp \/ AdfRead \/ ScpStep \/ ScpRead
  BY <1>4 DEF DiskAbort, WriteToScp, AdfRead, ScpStep, ScpRead, Return, lineVars
<1>5. CASE FindSync \/ Underrun \/ NoSecondSync \/ ReadBody
  BY <1>5 DEF FindSync, Underrun, NoSecondSync, ReadBody, Return
<1> QED
  BY <1>1, <1>2, <1>3, <1>4, <1>5 DEF FloppyNext, FloppyDriver

LEMMA ChannelStep ==
    ASSUME ~Together, ChannelInv, [Next]_vars
    PROVE  ChannelInv'
<1>1. CASE FloppyStep
  <2>1. fch_driver = 1 /\ fch_driver' = 1 /\ FloppyNext /\ UNCHANGED tapeVars
    BY <1>1 DEF FloppyStep
  <2>2. pc \notin {"bit", "walk"} /\ pc' \notin {"bit", "walk"}
    BY <2>1, FloppyPlaces DEF ChannelInv
  <2>3. TapeInv'
    BY <2>1, <2>2, RestStep DEF ChannelInv, tapeVars, TapeInv, TapeTypeOK
  <2> QED
    BY <2>1, <2>2, <2>3 DEF ChannelInv
<1>2. CASE TapeStep
  BY <1>2, TapeStepKeeps DEF TapeStep, ChannelInv
<1>3. CASE SetDriver
  <2>1. /\ pc = "idle" /\ pc' = "idle" /\ phase' = "idle" /\ walk' = NoWalk
        /\ addr' = 0 /\ left' = 0 /\ n' = 0 /\ UNCHANGED <<tape, cursor>>
    BY <1>3 DEF SetDriver
  <2>2. TapeTypeOK'
    BY <2>1, NoTapeType DEF ChannelInv, TapeInv, TapeTypeOK
  <2>3. OneTape' /\ CursorRight' /\ SizeKnown'
    BY <2>1, DrivesKept, SizesKept DEF ChannelInv, TapeInv
  <2>4. TapeInv'
    BY <2>1, <2>2, <2>3, AtRest
  <2> QED
    BY <2>1, <2>4 DEF ChannelInv, Requested
<1>4. CASE UNCHANGED vars
  <2>1. UNCHANGED <<phase, req, answer, moved, pc, tape, cursor, walk, addr, left, n, fch_driver>>
    BY <1>4 DEF vars, lineVars, tapeVars
  <2>2. TapeTypeOK' /\ OneTape' /\ CursorRight' /\ SizeKnown'
    BY <2>1 DEF ChannelInv, TapeInv, TapeTypeOK, OneTape, CursorRight, SizeKnown
  <2>3. pc = "walk" => Walking'
    BY <2>1 DEF ChannelInv, TapeInv, Walking, file, bit, Act, Cur, unit
  <2>4. pc = "bit" \/ (pc = "walk" /\ ~walk.scan) => Serving'
    BY <2>1 DEF ChannelInv, TapeInv, Serving, base, Act, Cur, unit
  <2> QED
    BY <2>1, <2>2, <2>3, <2>4 DEF ChannelInv, TapeInv, Requested
<1> QED
  BY <1>1, <1>2, <1>3, <1>4 DEF Next

-----------------------------------------------------------------------------
(* The theorem.                                                             *)

\* What is known of the tape driver is what a core can rely on.
LEMMA InvIsRight == TapeInv => TapeRight
<1> SUFFICES ASSUME TapeInv PROVE TapeRight
  OBVIOUS
<1>1. BitsRight
  BY DEF TapeInv, Serving, BitsRight
<1>2. ASSUME pc = "bit", left = 0 PROVE Len(moved) = req.size * ByteBits
  <2>1. Serving /\ addr \in Nat /\ ByteBits \in Nat /\ n \in Nat
    BY <1>2, TapeSizeAssumption DEF TapeInv, TapeTypeOK
  <2>2. req.size \in Nat /\ req.addr \in Nat /\ req.drive \in TapeDrive
    BY <2>1, TapeAskAssumption DEF Serving
  <2>3. unit.size \in Nat /\ base \in Nat
    BY <2>2 DEF TapeInv, TapeTypeOK, unit, base, Lesser
  <2>4. addr - base = req.size
    BY <1>2, <2>1, <2>2, <2>3 DEF Serving
  <2>5. n = 0
    <3>1. Cur = 0
      BY <1>2, TapeSizeAssumption DEF Cur, Lesser
    <3>2. Act = 0
      BY <2>1, <2>3, <3>1 DEF Act, Lesser, Serving
    <3>3. Act * ByteBits = 0
      BY <2>1, <3>2
    <3> QED
      BY <2>1, <3>3 DEF Serving
  <2>6. req.size * ByteBits \in Nat
    BY <2>1, <2>2, TimesNat
  <2> QED
    BY <2>1, <2>4, <2>5, <2>6 DEF Serving
<1>3. LengthRight
  BY <1>2 DEF TapeInv, SizeKnown, LengthRight
<1> QED
  BY <1>1, <1>3 DEF TapeRight

\* Whatever the tapes, the requests and the failures of the card, and whatever
\* driver had the channel before: if only one drive at a time has a tape, the
\* core gets its bits and its length (GetBitAtPos, fileio_drv02_tape.c).
THEOREM TapeCorrect ==
    ASSUME ~Together
    PROVE  Spec => []TapeRight
<1>1. Init => ChannelInv
  <2> SUFFICES ASSUME Init PROVE ChannelInv
    OBVIOUS
  <2>1. pc = "idle"
    BY DEF Init, LineInit
  <2> QED
    BY <2>1, InitTape DEF ChannelInv
<1>2. ChannelInv /\ [Next]_vars => ChannelInv'
  BY ChannelStep
<1>3. ChannelInv => TapeRight
  BY InvIsRight DEF ChannelInv
<1> QED
  BY <1>1, <1>2, <1>3, PTL DEF Spec

-----------------------------------------------------------------------------
(* Flux images: where the head can be.                                      *)

\* The headers that the driver can have read of an image.
TrackHeaders(k) == {k.track[t] : t \in k.first .. k.last}
Headers(k) == {NoHeader(k)} \cup TrackHeaders(k)

FluxHeaders == UNION {Headers(k) : k \in FluxDisks}
FluxStates ==
    [disk : FluxDisks, cur : Nat, addr : Nat, header : FluxHeaders, rev : Nat, offset : Nat]

\* A place of the head.  The track's address, if there is one, is that of a track
\* of the image, and the header has been read from a track of it.
OnTrack(s) ==
    /\ s \in FluxStates
    /\ s.header \in Headers(s.disk)
    /\ s.rev < s.disk.revs
    /\ s.addr # 0 =>
          /\ s.header \in TrackHeaders(s.disk)
          /\ \E t \in s.disk.first .. s.disk.last : s.addr = s.disk.track[t].at
          /\ s.offset <= Length(s)

\* Tracks lie at even places of the file, and a sector is an even number of bytes.
EvenPlaces ==
    /\ \E b \in Nat : BlkBytes = 2 * b
    /\ \A k \in FluxDisks : \A t \in k.first .. k.last :
          /\ \E b \in Nat : k.track[t].at = 2 * b
          /\ \A i \in 1 .. k.revs : \E b \in Nat : k.track[t].off[i] = 2 * b

LEMMA FluxFacts ==
    ASSUME NEW k \in FluxDisks
    PROVE  /\ k.first \in Nat /\ k.last \in Nat /\ k.revs \in Nat \ {0}
           /\ \A t \in k.first .. k.last :
                 /\ k.track[t].at \in Nat /\ k.track[t].good \in BOOLEAN
                 /\ k.track[t].number \in Nat
                 /\ k.track[t].len \in [1 .. k.revs -> Nat \ {0}]
                 /\ k.track[t].off \in [1 .. k.revs -> Nat]
<1>1. k.track \in [k.first .. k.last -> [at : Nat, good : BOOLEAN, number : Nat,
                 len : [1 .. k.revs -> Nat \ {0}], off : [1 .. k.revs -> Nat]]]
  BY FluxAssumption
<1> QED
  BY <1>1, FluxAssumption

LEMMA HeaderFacts ==
    ASSUME NEW k \in FluxDisks, NEW h \in TrackHeaders(k)
    PROVE  /\ h.good \in BOOLEAN /\ h.number \in Nat
           /\ h.len \in [1 .. k.revs -> Nat \ {0}] /\ h.off \in [1 .. k.revs -> Nat]
BY FluxFacts DEF TrackHeaders

\* The length of the revolution.
LEMMA LengthFacts ==
    ASSUME NEW s, OnTrack(s), s.addr # 0
    PROVE  /\ Length(s) \in Nat \ {0} /\ s.header.off[s.rev + 1] \in Nat
           /\ s.rev + 1 \in 1 .. s.disk.revs /\ s.disk \in FluxDisks
           /\ s.offset \in Nat /\ s.rev \in Nat /\ s.addr \in Nat
           /\ s.offset <= Length(s)
<1>1. s.disk \in FluxDisks /\ s.rev \in Nat /\ s.offset \in Nat /\ s.addr \in Nat
  BY DEF OnTrack, FluxStates
<1>2. s.disk.revs \in Nat \ {0} /\ s.header \in TrackHeaders(s.disk)
  BY <1>1, FluxFacts DEF OnTrack
<1>3. s.rev + 1 \in 1 .. s.disk.revs
  BY <1>1, <1>2 DEF OnTrack
<1>4. /\ s.header.len \in [1 .. s.disk.revs -> Nat \ {0}]
      /\ s.header.off \in [1 .. s.disk.revs -> Nat]
  BY <1>1, <1>2, HeaderFacts
<1>5. Length(s) \in Nat \ {0} /\ s.header.off[s.rev + 1] \in Nat
  BY <1>3, <1>4 DEF Length
<1> QED
  BY <1>1, <1>3, <1>5 DEF OnTrack

\* What is left of a number of bytes in a sector.
LEMMA Rest ==
    ASSUME NEW p \in Nat, NEW b \in Nat \ {0}
    PROVE  (p % b) \in 0 .. b - 1
OBVIOUS

LEMMA RestOf ==
    ASSUME NEW q \in Nat, NEW d \in Nat \ {0}, NEW r \in 0 .. d - 1
    PROVE  ((q * d + r) % d) = r
OBVIOUS

LEMMA DivideBy ==
    ASSUME NEW p \in Nat, NEW d \in Nat \ {0}
    PROVE  \E q \in Nat, r \in 0 .. d - 1 : p = q * d + r
<1>1. (p \div d) \in Nat /\ (p % d) \in 0 .. d - 1 /\ p = (p \div d) * d + (p % d)
  OBVIOUS
<1> QED
  BY <1>1

\* A place that is even has an even rest in a sector of even size.
LEMMA EvenRest ==
    ASSUME NEW p \in Nat, NEW b \in Nat \ {0}
    PROVE  \E r \in 0 .. b - 1 : ((2 * p) % (2 * b)) = 2 * r
<1>1. PICK q \in Nat, r \in 0 .. b - 1 : p = q * b + r
  BY DivideBy
<1>2. 2 * p = q * (2 * b) + 2 * r
  BY <1>1
<1>3. 2 * b \in Nat \ {0} /\ 2 * r \in 0 .. (2 * b) - 1
  OBVIOUS
<1>4. ((q * (2 * b) + 2 * r) % (2 * b)) = 2 * r
  BY <1>3, RestOf
<1> QED
  BY <1>2, <1>4

\* Where a read is: at an even place, so that a sector has room for a word of it.
LEMMA RoomForWord ==
    ASSUME NEW s, OnTrack(s), s.addr # 0, EvenPlaces
    PROVE  /\ Place(s) \in Nat /\ (Place(s) % BlkBytes) \in 0 .. BlkBytes - 1
           /\ BlkBytes - (Place(s) % BlkBytes) >= 2
<1>1. PICK b \in Nat : BlkBytes = 2 * b
  BY DEF EvenPlaces
<1>2. b \in Nat \ {0} /\ BlkBytes \in Nat \ {0}
  BY <1>1, FluxAssumption
<1>3. /\ s.header.off[s.rev + 1] \in Nat /\ s.rev + 1 \in 1 .. s.disk.revs
      /\ s.disk \in FluxDisks /\ s.offset \in Nat /\ s.addr \in Nat
  BY LengthFacts
<1>4. PICK t \in s.disk.first .. s.disk.last : s.addr = s.disk.track[t].at
  BY DEF OnTrack
<1>5. PICK u \in s.disk.first .. s.disk.last : s.header = s.disk.track[u]
  BY DEF OnTrack, TrackHeaders
<1>6. PICK x \in Nat : s.addr = 2 * x
  BY <1>3, <1>4 DEF EvenPlaces
<1>7. PICK y \in Nat : s.header.off[s.rev + 1] = 2 * y
  BY <1>3, <1>5 DEF EvenPlaces
<1>8. Place(s) = 2 * (x + y + s.offset) /\ x + y + s.offset \in Nat
  BY <1>3, <1>6, <1>7 DEF Place
<1>9. PICK r \in 0 .. b - 1 : (Place(s) % BlkBytes) = 2 * r
  <2>1. PICK v \in Nat : Place(s) = 2 * v
    BY <1>8
  <2>2. \E r \in 0 .. b - 1 : ((2 * v) % (2 * b)) = 2 * r
    BY <1>2, EvenRest
  <2> QED
    BY <1>1, <2>1, <2>2, Zenon
<1>10. Place(s) \in Nat /\ 2 * r \in 0 .. (2 * b) - 1 /\ 2 * b - 2 * r >= 2
  BY <1>2, <1>3, <1>8
<1> QED
  BY <1>1, <1>9, <1>10

\* The words of a read.
LEMMA WantedFacts ==
    ASSUME NEW s, OnTrack(s), s.addr # 0
    PROVE  \E w \in Nat : /\ Wanted(s) = 2 * w /\ w <= Length(s) - s.offset
                          /\ s.offset < Length(s) => w > 0
<1>1. Length(s) \in Nat /\ s.offset \in Nat /\ s.offset <= Length(s) /\ BurstWords \in Nat \ {0}
  BY LengthFacts, FluxAssumption
<1> QED
  BY <1>1 DEF Wanted

LEMMA Halves ==
    ASSUME NEW m \in Nat
    PROVE  /\ (m \div 2) \in Nat /\ (m \div 2) * 2 <= m /\ (m \div 2) * 2 >= m - 1
           /\ (((m \div 2) * 2) \div 2) = (m \div 2)
           /\ ((2 * m) \div 2) = m
OBVIOUS

LEMMA FluxGood ==
    ASSUME NEW s, OnTrack(s), EvenPlaces
    PROVE  FluxInside(s)
<1> SUFFICES ASSUME s.addr # 0
             PROVE  /\ s.rev < s.disk.revs /\ s.offset <= Length(s)
                    /\ Bounced(s) => Sent(s) <= BlkBytes - (Place(s) % BlkBytes)
                    /\ s.offset < Length(s) => Sent(s) > 0
  BY DEF FluxInside
<1>1. s.rev < s.disk.revs /\ s.offset <= Length(s)
  BY DEF OnTrack
<1>2. PICK w \in Nat : Wanted(s) = 2 * w /\ (s.offset < Length(s) => w > 0)
  BY WantedFacts
<1>3. PICK room \in Nat : room = BlkBytes - (Place(s) % BlkBytes) /\ room >= 2
  BY RoomForWord, FluxAssumption
<1>4. CASE ~Bounced(s)
  BY <1>1, <1>2, <1>4 DEF Sent
<1>5. CASE Bounced(s)
  <2> DEFINE bytes == IF 2 * w > room THEN room ELSE 2 * w
  <2>1. bytes \in Nat /\ bytes <= room /\ (w > 0 => bytes >= 2)
    BY <1>3
  <2>2. Sent(s) = (bytes \div 2) * 2
    BY <1>2, <1>3, <1>5 DEF Sent
  <2>3. (bytes \div 2) * 2 <= bytes /\ (bytes \div 2) * 2 >= bytes - 1 /\ (bytes \div 2) \in Nat
    BY <2>1, Halves
  <2> HIDE DEF bytes
  <2> QED
    BY <1>1, <1>2, <1>3, <1>5, <2>1, <2>2, <2>3
<1> QED
  BY <1>4, <1>5

\* Some of a place is changed.
LEMMA PlaceChanged ==
    ASSUME NEW s \in FluxStates, NEW c \in Nat, NEW a \in Nat, NEW r \in Nat, NEW o \in Nat
    PROVE  /\ [s EXCEPT !.cur = c] \in FluxStates /\ [s EXCEPT !.addr = a] \in FluxStates
           /\ [s EXCEPT !.rev = r] \in FluxStates /\ [s EXCEPT !.offset = o] \in FluxStates
<1>1. [s EXCEPT !.cur = c] \in FluxStates
  BY DEF FluxStates
<1>2. [s EXCEPT !.addr = a] \in FluxStates
  BY DEF FluxStates
<1>3. [s EXCEPT !.rev = r] \in FluxStates
  BY DEF FluxStates
<1>4. [s EXCEPT !.offset = o] \in FluxStates
  BY DEF FluxStates
<1> QED
  BY <1>1, <1>2, <1>3, <1>4

\* A read turns the disk, within the revolution or to the next one.
LEMMA TurnedOnTrack ==
    ASSUME NEW s, OnTrack(s), s.addr = 0 \/ (Sent(s) \div 2) \in Nat
    PROVE  OnTrack(Turned(s))
<1>1. CASE s.addr = 0
  BY <1>1 DEF Turned
<1>2. CASE s.addr # 0
  <2>1. PICK w \in Nat : w = (Sent(s) \div 2)
    BY <1>2
  <2>2. s \in FluxStates /\ s.offset \in Nat /\ s.rev \in Nat /\ Length(s) \in Nat
        /\ s.rev < s.disk.revs /\ s.disk \in FluxDisks /\ s.disk.revs \in Nat \ {0}
    BY <1>2, LengthFacts, FluxFacts DEF OnTrack
  <2>3. CASE s.offset + w < Length(s)
    <3>1. Turned(s) = [s EXCEPT !.offset = @ + w]
      BY <1>2, <2>1, <2>3 DEF Turned
    <3>2. Turned(s) \in FluxStates /\ Turned(s).offset = s.offset + w
          /\ Turned(s).disk = s.disk /\ Turned(s).header = s.header
          /\ Turned(s).rev = s.rev /\ Turned(s).addr = s.addr
      BY <2>2, <3>1 DEF FluxStates
    <3>3. Length(Turned(s)) = Length(s)
      BY <3>2 DEF Length
    <3> QED
      BY <2>2, <2>3, <3>2, <3>3 DEF OnTrack
  <2>4. CASE ~(s.offset + w < Length(s))
    <3> DEFINE r == ((s.rev + 1) % s.disk.revs)
    <3>1. r \in Nat /\ r < s.disk.revs
      <4>1. s.rev + 1 \in Nat
        BY <2>2
      <4>2. ((s.rev + 1) % s.disk.revs) \in 0 .. s.disk.revs - 1
        BY <2>2, <4>1, Rest
      <4> QED
        BY <2>2, <4>2
    <3>2. Turned(s) = [s EXCEPT !.offset = 0, !.rev = r]
      BY <1>2, <2>1, <2>4 DEF Turned
    <3> HIDE DEF r
    <3>5. Turned(s) \in FluxStates
      <4>1. [s EXCEPT !.offset = 0] \in FluxStates
        BY <2>2, PlaceChanged
      <4>2. [[s EXCEPT !.offset = 0] EXCEPT !.rev = r] \in FluxStates
        BY <3>1, <4>1, PlaceChanged
      <4> QED
        BY <3>2, <4>2
    <3>3. Turned(s).offset = 0
          /\ Turned(s).disk = s.disk /\ Turned(s).header = s.header
          /\ Turned(s).rev = r /\ Turned(s).addr = s.addr
      BY <2>2, <3>1, <3>2 DEF FluxStates
    <3>4. Length(Turned(s)) \in Nat
      <4>1. s.header.len \in [1 .. s.disk.revs -> Nat \ {0}]
        BY <1>2, <2>2, HeaderFacts DEF OnTrack
      <4>2. r + 1 \in 1 .. s.disk.revs
        BY <2>2, <3>1
      <4>3. Length(Turned(s)) = s.header.len[r + 1]
        BY <3>3 DEF Length
      <4>4. s.header.len[r + 1] \in Nat
        BY <4>1, <4>2
      <4> QED
        BY <4>3, <4>4
    <3> QED
      BY <1>2, <2>2, <3>1, <3>3, <3>4, <3>5 DEF OnTrack
  <2> QED
    BY <2>3, <2>4
<1> QED
  BY <1>1, <1>2

\* What is sent are whole words.
LEMMA SentWords ==
    ASSUME NEW s, OnTrack(s), s.addr # 0
    PROVE  (Sent(s) \div 2) \in Nat
<1>1. PICK w \in Nat : Wanted(s) = 2 * w
  BY WantedFacts
<1>2. ((2 * w) \div 2) \in Nat
  BY Halves
<1>3. CASE ~Bounced(s)
  BY <1>1, <1>2, <1>3 DEF Sent
<1>4. CASE Bounced(s)
  <2>1. BlkBytes \in Nat \ {0} /\ Place(s) \in Nat
    <3>1. s.header.off[s.rev + 1] \in Nat /\ s.offset \in Nat /\ s.addr \in Nat
      BY LengthFacts
    <3>2. s.addr + s.header.off[s.rev + 1] + 2 * s.offset \in Nat
      BY <3>1
    <3> QED
      BY <3>2, FluxAssumption DEF Place
  <2>2. PICK r \in 0 .. BlkBytes - 1 : r = (Place(s) % BlkBytes)
    BY <2>1, Rest
  <2> DEFINE bytes == IF 2 * w > BlkBytes - r THEN BlkBytes - r ELSE 2 * w
  <2>3. bytes \in Nat
    BY <2>1, <2>2
  <2>4. Sent(s) = (bytes \div 2) * 2
    BY <1>1, <1>4, <2>2 DEF Sent
  <2> HIDE DEF bytes
  <2>5. (((bytes \div 2) * 2) \div 2) \in Nat
    BY <2>3, Halves
  <2> QED
    BY <2>4, <2>5, Zenon
<1> QED
  BY <1>3, <1>4

\* A step of the head leaves it inside a revolution.
LEMMA SteppedOnTrack ==
    ASSUME NEW s, OnTrack(s), NEW t \in Nat, NEW fails \in BOOLEAN
    PROVE  OnTrack(Stepped(s, t, fails))
<1>1. s \in FluxStates /\ s.disk \in FluxDisks /\ s.offset \in Nat /\ s.rev \in Nat
      /\ s.rev < s.disk.revs /\ s.disk.revs \in Nat \ {0}
  BY FluxFacts DEF OnTrack, FluxStates
<1>2. CASE t = s.cur
  BY <1>2 DEF Stepped
<1>3. CASE t # s.cur /\ (t \notin s.disk.first .. s.disk.last \/ s.disk.track[t].at = 0)
  <2>1. Stepped(s, t, fails) = [s EXCEPT !.cur = t, !.addr = 0]
    BY <1>3 DEF Stepped
  <2> DEFINE u == Stepped(s, t, fails)
  <2>2. u \in FluxStates
    <3>1. [s EXCEPT !.cur = t] \in FluxStates
      BY <1>1, PlaceChanged
    <3>2. [[s EXCEPT !.cur = t] EXCEPT !.addr = 0] \in FluxStates
      BY <3>1, PlaceChanged
    <3> QED
      BY <2>1, <3>2
  <2>3. u.disk = s.disk /\ u.header = s.header /\ u.rev = s.rev /\ u.addr = 0
    BY <1>1, <2>1 DEF FluxStates
  <2> HIDE DEF u
  <2>4. OnTrack(u)
    BY <1>1, <2>2, <2>3 DEF OnTrack
  <2> QED
    BY <2>4 DEF u
<1>4. CASE t # s.cur /\ t \in s.disk.first .. s.disk.last /\ s.disk.track[t].at # 0
  <2> DEFINE h == IF fails THEN s.header ELSE s.disk.track[t]
             a == IF h.good /\ h.number = t THEN s.disk.track[t].at ELSE 0
             o == IF s.offset > h.len[1] THEN 0 ELSE s.offset
             u == Stepped(s, t, fails)
  <2>1. u = [s EXCEPT !.cur = t, !.header = h, !.rev = 0, !.addr = a, !.offset = o]
    BY <1>4 DEF Stepped
  <2>2. h \in Headers(s.disk)
    <3>1. s.header \in Headers(s.disk) /\ s.disk.track[t] \in Headers(s.disk)
      BY <1>4 DEF OnTrack, Headers, TrackHeaders
    <3> QED
      BY <3>1
  <2>3. h.good => h \in TrackHeaders(s.disk)
    BY <2>2 DEF Headers, NoHeader
  <2>4. a \in Nat
    BY <1>1, <1>4, FluxFacts
  <2>5. o \in Nat
    BY <1>1
  <2> HIDE DEF h, a, o, u
  <2>10. h \in FluxHeaders
    BY <1>1, <2>2 DEF FluxHeaders
  <2>11. u \in FluxStates
    BY <1>1, <2>1, <2>4, <2>5, <2>10 DEF FluxStates
  <2>6. u.disk = s.disk /\ u.header = h /\ u.rev = 0 /\ u.addr = a /\ u.offset = o
    BY <1>1, <2>1 DEF FluxStates
  <2>7. ASSUME a # 0 PROVE h \in TrackHeaders(s.disk) /\ a = s.disk.track[t].at /\ o <= h.len[1]
    <3>1. h \in TrackHeaders(s.disk) /\ a = s.disk.track[t].at
      BY <2>3, <2>7 DEF a
    <3>2. h.len[1] \in Nat
      BY <1>1, <3>1, HeaderFacts
    <3> QED
      BY <1>1, <3>1, <3>2 DEF o
  <2>8. u.addr # 0 => u.offset <= Length(u)
    BY <2>6, <2>7 DEF Length
  <2>9. OnTrack(u)
    BY <1>1, <1>4, <2>2, <2>6, <2>7, <2>8, <2>11 DEF OnTrack
  <2> QED
    BY <2>9 DEF u
<1> QED
  BY <1>2, <1>3, <1>4

\* A disk that was just inserted.
LEMMA InsertedOnTrack ==
    ASSUME NEW k \in FluxDisks
    PROVE  OnTrack(ScpInserted(k))
<1>1. NoHeader(k) \in Headers(k) /\ k.revs \in Nat \ {0} /\ NoHead \in Nat
  BY FluxFacts, FluxAssumption DEF Headers
<1>2. NoHeader(k) \in FluxHeaders
  BY <1>1 DEF FluxHeaders
<1> DEFINE u == ScpInserted(k)
<1>3. u \in FluxStates
  BY <1>1, <1>2 DEF ScpInserted, FluxStates
<1>4. u.disk = k /\ u.header = NoHeader(k) /\ u.rev = 0 /\ u.addr = 0
  BY DEF ScpInserted
<1> HIDE DEF u
<1>5. OnTrack(u)
  BY <1>1, <1>3, <1>4 DEF OnTrack
<1> QED
  BY <1>5 DEF u

-----------------------------------------------------------------------------
(* The words of a core's sectors.                                           *)

\* Natural numbers have a smallest one.
LEMMA SmallestFound ==
    ASSUME NEW T, T \subseteq Nat, T # {}
    PROVE  \E x \in T : \A y \in T : x <= y
<1>1. PICK x \in T : \A y \in T : ~(<<y, x>> \in OpToRel(<, Nat))
  BY NatLessThanWellFounded, WFMin
<1>2. ASSUME NEW y \in T PROVE x <= y
  <2>1. ~(y < x)
    BY <1>1 DEF OpToRel
  <2> QED
    BY <2>1
<1> QED
  BY <1>2

\* The sequences joined so far, as FlattenSeq joins them.
Joined(seqs, z, f) ==
    f = [i \in 1 .. z |-> IF i = 1 THEN seqs[i] ELSE f[i - 1] \o seqs[i]]

\* There are such, for every n: otherwise there is a smallest n without.
LEMMA JoinedFound ==
    ASSUME NEW seqs, NEW z \in Nat
    PROVE  \E f : Joined(seqs, z, f)
<1> DEFINE T == {m \in Nat : ~\E f : Joined(seqs, m, f)}
<1>1. SUFFICES ASSUME T # {} PROVE FALSE
  BY <1>1
<1>2. PICK m \in T : \A k \in T : m <= k
  <2>1. T \subseteq Nat
    OBVIOUS
  <2> HIDE DEF T
  <2> QED
    BY <1>1, <2>1, SmallestFound
<1>3. m \in Nat /\ ~\E f : Joined(seqs, m, f)
  BY <1>2
<1>4. m # 0
  <2>1. Joined(seqs, 0, [i \in 1 .. 0 |-> << >>])
    BY DEF Joined
  <2> QED
    BY <1>3, <2>1
<1>5. m - 1 \in Nat /\ m - 1 \notin T
  BY <1>2, <1>3, <1>4
<1>6. PICK f : Joined(seqs, m - 1, f)
  BY <1>5
<1> DEFINE e == IF m = 1 THEN seqs[m] ELSE f[m - 1] \o seqs[m]
           g == [i \in 1 .. m |-> IF i = m THEN e ELSE f[i]]
<1>7. \A i \in 1 .. m - 1 : f[i] = IF i = 1 THEN seqs[i] ELSE f[i - 1] \o seqs[i]
  BY <1>6 DEF Joined
<1>8. ASSUME NEW i \in 1 .. m PROVE g[i] = IF i = 1 THEN seqs[i] ELSE g[i - 1] \o seqs[i]
  <2>1. CASE i = m
    <3>1. i # 1 => g[i - 1] = f[m - 1]
      BY <1>3, <1>4, <2>1
    <3> QED
      BY <1>4, <2>1, <3>1
  <2>2. CASE i # m
    <3>1. i \in 1 .. m - 1 /\ g[i] = f[i]
      BY <1>3, <2>2
    <3>2. i # 1 => g[i - 1] = f[i - 1]
      BY <1>3, <2>2
    <3> QED
      BY <1>7, <3>1, <3>2
  <2> QED
    BY <2>1, <2>2
<1>9. Joined(seqs, m, g)
  <2>1. g = [i \in 1 .. m |-> g[i]]
    OBVIOUS
  <2>2. g = [i \in 1 .. m |-> IF i = 1 THEN seqs[i] ELSE g[i - 1] \o seqs[i]]
    BY <1>8
  <2> HIDE DEF g
  <2> QED
    BY <2>2 DEF Joined
<1> QED
  BY <1>3, <1>9

\* What is joined from sequences of a set is one.
LEMMA JoinedType ==
    ASSUME NEW S, NEW z \in Nat, NEW seqs, \A i \in 1 .. z : seqs[i] \in Seq(S),
           NEW f, Joined(seqs, z, f)
    PROVE  \A i \in 1 .. z : f[i] \in Seq(S)
<1> DEFINE T == {i \in 1 .. z : f[i] \notin Seq(S)}
<1>1. SUFFICES ASSUME T # {} PROVE FALSE
  BY <1>1
<1>2. PICK m \in T : \A k \in T : m <= k
  <2>1. T \subseteq Nat
    OBVIOUS
  <2> HIDE DEF T
  <2> QED
    BY <1>1, <2>1, SmallestFound
<1>3. m \in 1 .. z /\ f[m] \notin Seq(S)
  BY <1>2
<1>4. \A i \in 1 .. z : f[i] = IF i = 1 THEN seqs[i] ELSE f[i - 1] \o seqs[i]
  BY DEF Joined
<1>5. CASE m = 1
  BY <1>3, <1>4, <1>5
<1>6. CASE m # 1
  <2>1. m - 1 \in 1 .. z /\ m - 1 \notin T
    BY <1>2, <1>3, <1>6
  <2>2. f[m - 1] \in Seq(S) /\ seqs[m] \in Seq(S)
    BY <1>3, <2>1
  <2>3. f[m - 1] \o seqs[m] \in Seq(S)
    BY <2>2
  <2> QED
    BY <1>3, <1>4, <1>6, <2>3
<1> QED
  BY <1>5, <1>6

LEMMA FlattenType ==
    ASSUME NEW S, NEW seqs \in Seq(Seq(S))
    PROVE  FlattenSeq(seqs) \in Seq(S)
<1>1. Len(seqs) \in Nat /\ \A i \in 1 .. Len(seqs) : seqs[i] \in Seq(S)
  BY ElementsOf
<1>2. CASE Len(seqs) = 0
  <2>1. seqs = << >>
    BY <1>2
  <2>2. FlattenSeq(seqs) = seqs
    BY <1>2 DEF FlattenSeq
  <2>3. << >> \in Seq(S)
    OBVIOUS
  <2> QED
    BY <2>1, <2>2, <2>3, Zenon
<1>3. CASE Len(seqs) # 0
  <2> DEFINE f == CHOOSE f : Joined(seqs, Len(seqs), f)
  <2>1. FlattenSeq(seqs) = f[Len(seqs)]
    BY <1>3 DEF FlattenSeq, Joined
  <2>2. Joined(seqs, Len(seqs), f)
    BY <1>1, JoinedFound
  <2> HIDE DEF f
  <2>3. Len(seqs) \in 1 .. Len(seqs)
    BY <1>1, <1>3
  <2> QED
    BY <1>1, <2>1, <2>2, <2>3, JoinedType
<1> QED
  BY <1>2, <1>3

\* The words of a core's sectors.
WordsOf(ims) ==
    {Gap, Sync} \cup {<<"body", im, i>> : im \in {ims[j] : j \in DOMAIN ims}, i \in Nat}

LEMMA StreamType ==
    ASSUME NEW ims \in Seq(Images)
    PROVE  StreamOf(ims) \in Seq(WordsOf(ims))
<1>1. Len(ims) \in Nat /\ DOMAIN ims = 1 .. Len(ims) /\ \A j \in 1 .. Len(ims) : ims[j] \in Images
  BY ElementsOf
<1>2. ASSUME NEW j \in 1 .. Len(ims) PROVE Words(ims[j]) \in Seq(WordsOf(ims))
  <2> DEFINE im == ims[j]
             S == WordsOf(ims)
  <2>1. im.syncs \in Nat /\ im.words \in Nat
    <3>1. im \in Images
      BY <1>1
    <3>2. im \in [syncs : {1, 2}, words : 0 .. BodyWords, good : BOOLEAN,
                         track : Nat, sector : Nat, data : STRING] /\ BodyWords \in Nat
      BY <3>1, ImageAssumption
    <3> QED
      BY <3>2
  <2>2. Gap \in S /\ Sync \in S
    BY DEF WordsOf
  <2>3. \A i \in Nat : <<"body", im, i>> \in S
    BY <1>1 DEF WordsOf
  <2> DEFINE a == [i \in 1 .. im.syncs |-> Sync]
             b == [i \in 1 .. im.words |-> <<"body", im, i>>]
  <2> HIDE DEF im, S
  <2>4. <<Gap>> \in Seq(S)
    BY <2>2
  <2>5. a \in Seq(S)
    BY <2>1, <2>2
  <2>6. b \in Seq(S)
    BY <2>1, <2>3
  <2> HIDE DEF a, b
  <2>7. <<Gap>> \o a \o b \in Seq(S)
    BY <2>4, <2>5, <2>6
  <2> QED
    BY <2>7 DEF a, b, im, S, Words
<1> DEFINE s == [j \in 1 .. Len(ims) |-> Words(ims[j])]
<1>3. s \in Seq(Seq(WordsOf(ims)))
  BY <1>1, <1>2
<1> HIDE DEF s
<1>4. FlattenSeq(s) \in Seq(WordsOf(ims))
  BY <1>3, FlattenType
<1> QED
  BY <1>4 DEF StreamOf, s

-----------------------------------------------------------------------------
(* The floppy driver: the inductive invariant.                              *)

\* What a sector of an image can hold.
Contents == {"old", "spoilt"} \cup {im.data : im \in Images}

AdfDisks ==
    [format : {"adf"}, prot : BOOLEAN, cur_sector : 0 .. LastSector, data : [Sector -> Contents]]
ScpDisk(s) == [format |-> "scp", prot |-> TRUE, cur_sector |-> 0, scp |-> s]

\* What a drive can hold.
IsDisk(v) == v = NoDisk \/ v \in AdfDisks \/ \E s : OnTrack(s) /\ v = ScpDisk(s)

DisksRight ==
    /\ disk = [d \in FloppyDrive |-> disk[d]]
    /\ \A d \in FloppyDrive : IsDisk(disk[d])

Writings == [drive : Nat \X Nat, track : Nat, images : Seq(Images), clean : BOOLEAN]

\* A core that still has words to hand over writes to a drive of its channel, and
\* they are of the sectors that it writes.
WritingRight ==
    /\ stream = [c \in Channel |-> stream[c]] /\ writing = [c \in Channel |-> writing[c]]
    /\ \A c \in Channel :
          /\ writing[c] \in Writings
          /\ \A ims : ims = writing[c].images => stream[c] \in Seq(WordsOf(ims))
          /\ stream[c] # << >> => writing[c].drive \in FloppyDrive /\ writing[c].drive[1] = c

\* A request that was raised is about what the core is writing.
AskedToWrite ==
    /\ drive = writing[channel].drive /\ req.track = writing[channel].track
    /\ req.size \in 1 .. Len(words)
Asked ==
    /\ drive \in FloppyDrive
    /\ \/ req.dir = "write" /\ AskedToWrite
       \/ req.dir = "read" /\ req.track \in Nat

\* The driver is only at work on a request, with a disk of the right kind.
LineRight ==
    /\ phase # "idle" => Asked
    /\ pc \in {"idle", "nodisk", "write", "adf", "scp", "flux"}
    /\ pc # "idle" => phase = "busy"
    /\ pc \in {"write", "adf"} => this.format = "adf"
    /\ pc \in {"scp", "flux"} => this.format = "scp" /\ req.dir = "read"
    /\ pc = "write" => req.dir = "write"

FloppyInv ==
    /\ DisksRight /\ WritingRight
    /\ write_state \in {0, 1} /\ write_drive \in Nat
    /\ fch_driver = 1 => LineRight

-----------------------------------------------------------------------------
(* Facts.                                                                   *)

LEMMA DriveFacts ==
    ASSUME NEW d \in FloppyDrive
    PROVE  d \in Nat \X Nat /\ d[1] \in Nat /\ d[2] \in Nat /\ d[1] \in Channel
BY DriveAssumption DEF Channel

LEMMA ImageFacts ==
    ASSUME NEW im \in Images
    PROVE  /\ im.syncs \in {1, 2} /\ im.words \in 0 .. BodyWords /\ im.good \in BOOLEAN
           /\ im.track \in Nat /\ im.sector \in Nat /\ im.data \in STRING
BY ImageAssumption

LEMMA FormatFacts ==
    ASSUME NEW v, IsDisk(v)
    PROVE  /\ v.format \in {"none", "adf", "scp"} /\ v.prot \in BOOLEAN
           /\ v.cur_sector \in 0 .. LastSector
           /\ v.format = "none" => v = NoDisk
           /\ v.format = "adf" => v \in AdfDisks /\ v.data \in [Sector -> Contents]
           /\ v.format = "scp" => OnTrack(v.scp) /\ v = ScpDisk(v.scp)
<1>1. 0 \in 0 .. LastSector
  BY ImageAssumption
<1>2. CASE v = NoDisk
  BY <1>1, <1>2 DEF NoDisk
<1>3. CASE v \in AdfDisks
  BY <1>3 DEF AdfDisks
<1>4. ASSUME NEW s, OnTrack(s), v = ScpDisk(s)
      PROVE  /\ v.format = "scp" /\ v.prot = TRUE /\ v.cur_sector = 0 /\ v.scp = s
  BY <1>4 DEF ScpDisk
<1> QED
  BY <1>1, <1>2, <1>3, <1>4 DEF IsDisk

LEMMA NothingType == Nothing \in Writings
<1>1. << >> \in Seq(Images) /\ <<0, 0>> \in Nat \X Nat
  OBVIOUS
<1> QED
  BY <1>1 DEF Nothing, Writings

\* A change of one drive.
LEMMA OneDisk ==
    ASSUME DisksRight, NEW d \in FloppyDrive, NEW v, IsDisk(v), disk' = [disk EXCEPT ![d] = v]
    PROVE  /\ DisksRight' /\ disk'[d] = v
           /\ \A x \in FloppyDrive : x # d => disk'[x] = disk[x]
<1>1. disk'[d] = v /\ \A x \in FloppyDrive : x # d => disk'[x] = disk[x]
  BY DEF DisksRight
<1>2. disk' = [x \in FloppyDrive |-> disk'[x]]
  BY DEF DisksRight
<1>3. \A x \in FloppyDrive : IsDisk(disk'[x])
  BY <1>1 DEF DisksRight
<1> QED
  BY <1>1, <1>2, <1>3 DEF DisksRight, IsDisk, AdfDisks, Sector

-----------------------------------------------------------------------------
(* What a core is writing.                                                  *)

\* What a core writes may be expected no more, and it may have handed over some.
StreamShrinks ==
    /\ stream' = [c \in Channel |-> stream'[c]]
    /\ \A c \in Channel :
          \/ stream'[c] = stream[c]
          \/ stream[c] # << >> /\ stream'[c] \in Seq(WordsOf(writing[c].images))
WritingKept ==
    /\ writing' = [c \in Channel |-> writing'[c]]
    /\ \A c \in Channel :
          /\ writing'[c] \in Writings
          /\ stream[c] # << >> =>
                /\ writing'[c].drive = writing[c].drive /\ writing'[c].track = writing[c].track
                /\ writing'[c].images = writing[c].images

LEMMA WritingStep ==
    ASSUME WritingRight, StreamShrinks, WritingKept
    PROVE  WritingRight'
<1>1. ASSUME NEW c \in Channel
      PROVE  /\ writing'[c] \in Writings
             /\ stream'[c] \in Seq(WordsOf(writing'[c].images))
             /\ stream'[c] # << >> =>
                   writing'[c].drive \in FloppyDrive /\ writing'[c].drive[1] = c
  <2>1. writing'[c] \in Writings
    BY DEF WritingKept
  <2>2. CASE stream[c] = << >>
    <3>1. stream'[c] = << >>
      BY <2>2 DEF StreamShrinks
    <3>2. << >> \in Seq(WordsOf(writing'[c].images))
      OBVIOUS
    <3> QED
      BY <2>1, <3>1, <3>2
  <2>3. CASE stream[c] # << >>
    <3>1. /\ writing'[c].drive = writing[c].drive /\ writing'[c].images = writing[c].images
      BY <2>3 DEF WritingKept
    <3>2. stream'[c] \in Seq(WordsOf(writing[c].images))
      BY DEF StreamShrinks, WritingRight
    <3>3. writing[c].drive \in FloppyDrive /\ writing[c].drive[1] = c
      BY <2>3 DEF WritingRight
    <3> QED
      BY <2>1, <3>1, <3>2, <3>3
  <2> QED
    BY <2>2, <2>3
<1>2. /\ stream' = [c \in Channel |-> stream'[c]]
      /\ writing' = [c \in Channel |-> writing'[c]]
  BY DEF StreamShrinks, WritingKept
<1>3. Channel' = Channel
  BY DEF Channel
<1> QED
  BY <1>1, <1>2, <1>3 DEF WritingRight, Writings

LEMMA SameStream ==
    ASSUME WritingRight, UNCHANGED stream
    PROVE  StreamShrinks
BY DEF WritingRight, StreamShrinks

LEMMA SameWriting ==
    ASSUME WritingRight, UNCHANGED writing
    PROVE  WritingKept
BY DEF WritingRight, WritingKept

LEMMA DisturbedKept ==
    ASSUME WritingRight, NEW d, Disturbed(d)
    PROVE  WritingKept
<1>1. writing' = [c \in Channel |->
          IF writing[c].drive # d THEN writing[c]
          ELSE IF stream[c] = << >> THEN Nothing ELSE [writing[c] EXCEPT !.clean = FALSE]]
  BY DEF Disturbed
<1>2. ASSUME NEW c \in Channel
      PROVE  /\ writing'[c] \in Writings
             /\ stream[c] # << >> =>
                   /\ writing'[c].drive = writing[c].drive /\ writing'[c].track = writing[c].track
                   /\ writing'[c].images = writing[c].images
  <2>1. writing[c] \in Writings
    BY DEF WritingRight
  <2> DEFINE w == [writing[c] EXCEPT !.clean = FALSE]
  <2>2. w \in Writings
    BY <2>1 DEF Writings
  <2>3. w.drive = writing[c].drive /\ w.track = writing[c].track /\ w.images = writing[c].images
    BY <2>1 DEF Writings
  <2>4. writing'[c] = IF writing[c].drive # d THEN writing[c]
                      ELSE IF stream[c] = << >> THEN Nothing ELSE w
    BY <1>1
  <2> HIDE DEF w
  <2> QED
    BY <2>1, <2>2, <2>3, <2>4, NothingType
<1> QED
  BY <1>1, <1>2 DEF WritingKept

\* A request goes on, whatever happens to the disks.
LEMMA AskedKept ==
    ASSUME WritingRight, WritingKept, Asked, UNCHANGED <<req, stream>>
    PROVE  Asked'
<1>1. drive \in FloppyDrive /\ channel \in Channel /\ drive' = drive /\ channel' = channel
  BY DriveFacts DEF Asked, drive, channel
<1>2. CASE req.dir = "read"
  BY <1>1, <1>2 DEF Asked
<1>3. CASE req.dir = "write"
  <2>1. AskedToWrite
    BY <1>3 DEF Asked
  <2>2. words # << >> /\ words' = words
    BY <1>1, <2>1 DEF AskedToWrite, words
  <2>3. /\ writing'[channel].drive = writing[channel].drive
        /\ writing'[channel].track = writing[channel].track
    BY <1>1, <2>2 DEF WritingKept, words
  <2>4. AskedToWrite'
    BY <1>1, <2>1, <2>2, <2>3 DEF AskedToWrite
  <2> QED
    BY <1>1, <1>3, <2>4 DEF Asked
<1> QED
  BY <1>2, <1>3 DEF Asked

-----------------------------------------------------------------------------
(* The menu changes the disks of the drives.                                *)

\* What a disk holds stays.
SameData ==
    \A x \in FloppyDrive :
        disk[x].format = "adf" /\ disk'[x].format = "adf" => disk'[x].data = disk[x].data

\* Nothing but a drive changes, or what is expected of it.
LEMMA AtRestStep ==
    ASSUME FloppyInv, fch_driver = 1, pc = "idle", UNCHANGED <<phase, req, pc, stream, writeState>>,
           DisksRight', WritingKept
    PROVE  FloppyInv'
<1>1. WritingRight' 
  BY SameStream, WritingStep DEF FloppyInv
<1>2. phase # "idle" => Asked'
  BY AskedKept DEF FloppyInv, LineRight
<1>3. LineRight'
  BY <1>2 DEF LineRight
<1> QED
  BY <1>1, <1>3 DEF FloppyInv, writeState

LEMMA DiskInserted ==
    ASSUME FloppyInv, fch_driver = 1, NEW d \in FloppyDrive, InsertDisk(d)
    PROVE  FloppyInv' /\ SameData
<1>1. /\ pc = "idle" /\ disk[d].format = "none" /\ Disturbed(d)
      /\ UNCHANGED <<phase, req, pc, stream, writeState>>
  BY DEF InsertDisk, lineVars
<1>2. PICK v : IsDisk(v) /\ disk' = [disk EXCEPT ![d] = v]
  <2>1. CASE \E p \in BOOLEAN :
             disk' = [disk EXCEPT ![d] =
                 [format |-> "adf", prot |-> p, cur_sector |-> 0,
                  data |-> [x \in Sector |-> "old"]]]
    <3>1. PICK p \in BOOLEAN :
             disk' = [disk EXCEPT ![d] =
                 [format |-> "adf", prot |-> p, cur_sector |-> 0,
                  data |-> [x \in Sector |-> "old"]]]
      BY <2>1
    <3>2. [x \in Sector |-> "old"] \in [Sector -> Contents] /\ 0 \in 0 .. LastSector
      BY ImageAssumption DEF Contents
    <3>3. [format |-> "adf", prot |-> p, cur_sector |-> 0, data |-> [x \in Sector |-> "old"]]
             \in AdfDisks
      BY <3>2 DEF AdfDisks
    <3> DEFINE new == [format |-> "adf", prot |-> p, cur_sector |-> 0,
                       data |-> [x \in Sector |-> "old"]]
    <3>4. IsDisk(new)
      BY <3>3 DEF IsDisk
    <3>5. disk' = [disk EXCEPT ![d] = new]
      BY <3>1
    <3> HIDE DEF new
    <3> QED
      BY <3>4, <3>5
  <2>2. CASE \E k \in FluxDisks :
             disk' = [disk EXCEPT ![d] =
                 [format |-> "scp", prot |-> TRUE, cur_sector |-> 0, scp |-> ScpInserted(k)]]
    <3>1. PICK k \in FluxDisks : disk' = [disk EXCEPT ![d] = ScpDisk(ScpInserted(k))]
      BY <2>2 DEF ScpDisk
    <3> QED
      BY <3>1, InsertedOnTrack DEF IsDisk
  <2> QED
    BY <2>1, <2>2 DEF InsertDisk
<1>3. DisksRight' /\ \A x \in FloppyDrive : x # d => disk'[x] = disk[x]
  BY <1>2, OneDisk DEF FloppyInv
<1>4. FloppyInv'
  BY <1>1, <1>3, AtRestStep, DisturbedKept DEF FloppyInv
<1>5. SameData
  BY <1>1, <1>3 DEF SameData
<1> QED
  BY <1>4, <1>5

LEMMA DiskEjected ==
    ASSUME FloppyInv, fch_driver = 1, NEW d \in FloppyDrive, EjectDisk(d)
    PROVE  FloppyInv' /\ SameData
<1>1. /\ pc = "idle" /\ disk' = [disk EXCEPT ![d] = NoDisk] /\ Disturbed(d)
      /\ UNCHANGED <<phase, req, pc, stream, writeState>>
  BY DEF EjectDisk, lineVars
<1>2. /\ DisksRight' /\ disk'[d] = NoDisk
      /\ \A x \in FloppyDrive : x # d => disk'[x] = disk[x]
  BY <1>1, OneDisk DEF FloppyInv, IsDisk
<1>3. FloppyInv'
  BY <1>1, <1>2, AtRestStep, DisturbedKept DEF FloppyInv
<1>4. SameData
  BY <1>2 DEF SameData, NoDisk
<1> QED
  BY <1>3, <1>4

LEMMA DiskProtected ==
    ASSUME FloppyInv, fch_driver = 1, NEW d \in FloppyDrive, ProtectDisk(d)
    PROVE  FloppyInv' /\ SameData
<1> DEFINE v == [disk[d] EXCEPT !.prot = ~disk[d].prot]
<1>1. /\ pc = "idle" /\ disk[d].format = "adf" /\ disk' = [disk EXCEPT ![d] = v] /\ Disturbed(d)
      /\ UNCHANGED <<phase, req, pc, stream, writeState>>
  BY DEF ProtectDisk, lineVars
<1>2. disk[d] \in AdfDisks
  BY <1>1, FormatFacts DEF FloppyInv, DisksRight
<1>3. v \in AdfDisks /\ v.data = disk[d].data
  BY <1>2 DEF AdfDisks
<1> HIDE DEF v
<1>4. /\ DisksRight' /\ disk'[d] = v
      /\ \A x \in FloppyDrive : x # d => disk'[x] = disk[x]
  BY <1>1, <1>3, OneDisk DEF FloppyInv, IsDisk
<1>5. FloppyInv'
  BY <1>1, <1>4, AtRestStep, DisturbedKept DEF FloppyInv
<1>6. SameData
  BY <1>3, <1>4 DEF SameData
<1> QED
  BY <1>5, <1>6

-----------------------------------------------------------------------------
(* The core.                                                                *)

LEMMA IdleLine ==
    ASSUME FloppyInv, fch_driver = 1, phase = "idle", UNCHANGED <<phase, pc>>
    PROVE  LineRight'
BY DEF FloppyInv, LineRight

LEMMA TrackWritten ==
    ASSUME FloppyInv, fch_driver = 1, NEW d \in FloppyDrive, CoreWrites(d)
    PROVE  FloppyInv' /\ SameData
<1>1. /\ phase = "idle" /\ stream[d[1]] = << >>
      /\ UNCHANGED <<phase, pc, disk, writeState>>
  BY DEF CoreWrites, lineVars
<1>2. PICK w \in Streams :
          /\ writing' = [writing EXCEPT ![d[1]] =
                            [drive |-> d, track |-> w.track, images |-> w.images,
                             clean |-> disk[d].format = "adf" /\ ~disk[d].prot]]
          /\ stream' = [stream EXCEPT ![d[1]] = StreamOf(w.images)]
  BY DEF CoreWrites
<1>3. d[1] \in Channel /\ d \in Nat \X Nat
  BY DriveFacts
<1>4. w.track \in Nat /\ w.images \in Seq(Images)
  BY ImageAssumption
<1> DEFINE new == [drive |-> d, track |-> w.track, images |-> w.images,
                   clean |-> disk[d].format = "adf" /\ ~disk[d].prot]
<1>5. new \in Writings /\ new.drive = d /\ new.images = w.images
  <2>1. (disk[d].format = "adf" /\ ~disk[d].prot) \in BOOLEAN
    OBVIOUS
  <2> QED
    BY <1>3, <1>4, <2>1 DEF Writings
<1> HIDE DEF new
<1>6. StreamOf(w.images) \in Seq(WordsOf(new.images))
  BY <1>4, <1>5, StreamType
<1>7. /\ writing = [c \in Channel |-> writing[c]] /\ stream = [c \in Channel |-> stream[c]]
      /\ writing' = [writing EXCEPT ![d[1]] = new]
      /\ stream' = [stream EXCEPT ![d[1]] = StreamOf(w.images)]
  BY <1>2 DEF new, FloppyInv, WritingRight
<1>8. /\ writing'[d[1]] = new /\ stream'[d[1]] = StreamOf(w.images)
      /\ \A c \in Channel : c # d[1] => writing'[c] = writing[c] /\ stream'[c] = stream[c]
      /\ stream' = [c \in Channel |-> stream'[c]] /\ writing' = [c \in Channel |-> writing'[c]]
  <2> HIDE DEF FloppyInv
  <2> QED
    BY <1>3, <1>7
<1>9. ASSUME NEW c \in Channel
      PROVE  /\ writing'[c] \in Writings
             /\ \A ims : ims = writing'[c].images => stream'[c] \in Seq(WordsOf(ims))
             /\ stream'[c] # << >> =>
                   writing'[c].drive \in FloppyDrive /\ writing'[c].drive[1] = c
  <2>1. CASE c = d[1]
    BY <1>5, <1>6, <1>8, <2>1
  <2>2. CASE c # d[1]
    BY <1>8, <2>2 DEF FloppyInv, WritingRight
  <2> QED
    BY <2>1, <2>2
<1>10. WritingRight'
  <2>1. Channel' = Channel
    BY DEF Channel
  <2> QED
    BY <1>8, <1>9, <2>1 DEF WritingRight, Writings
<1>11. DisksRight' /\ SameData
  BY <1>1 DEF FloppyInv, DisksRight, SameData, IsDisk, AdfDisks, Sector
<1> QED
  BY <1>1, <1>10, <1>11, IdleLine DEF FloppyInv, writeState

LEMMA TrackGivenUp ==
    ASSUME FloppyInv, fch_driver = 1, NEW c \in Channel, CoreStops(c)
    PROVE  FloppyInv' /\ SameData
<1>1. /\ phase = "idle" /\ stream' = [stream EXCEPT ![c] = << >>]
      /\ writing' = [writing EXCEPT ![c] = Nothing]
      /\ UNCHANGED <<phase, pc, disk, writeState>>
  BY DEF CoreStops, lineVars
<1>2. /\ stream = [x \in Channel |-> stream[x]] /\ writing = [x \in Channel |-> writing[x]]
  BY DEF FloppyInv, WritingRight
<1>3. /\ writing'[c] = Nothing /\ stream'[c] = << >>
      /\ \A x \in Channel : x # c => writing'[x] = writing[x] /\ stream'[x] = stream[x]
      /\ stream' = [x \in Channel |-> stream'[x]] /\ writing' = [x \in Channel |-> writing'[x]]
  BY <1>1, <1>2
<1>4. ASSUME NEW x \in Channel
      PROVE  /\ writing'[x] \in Writings
             /\ \A ims : ims = writing'[x].images => stream'[x] \in Seq(WordsOf(ims))
             /\ stream'[x] # << >> =>
                   writing'[x].drive \in FloppyDrive /\ writing'[x].drive[1] = x
  <2>1. CASE x = c
    BY <1>3, <2>1, NothingType
  <2>2. CASE x # c
    BY <1>3, <2>2 DEF FloppyInv, WritingRight
  <2> QED
    BY <2>1, <2>2
<1>5. WritingRight'
  <2>1. Channel' = Channel
    BY DEF Channel
  <2> QED
    BY <1>3, <1>4, <2>1 DEF WritingRight, Writings
<1>6. DisksRight' /\ SameData
  BY <1>1 DEF FloppyInv, DisksRight, SameData, IsDisk, AdfDisks, Sector
<1> QED
  BY <1>1, <1>5, <1>6, IdleLine DEF FloppyInv, writeState

-----------------------------------------------------------------------------
(* The core asks, and the driver takes requests and reads.                  *)

\* A request is raised: one of what the core is writing, or a read.
LEMMA WriteAsked ==
    ASSUME FloppyInv, fch_driver = 1, NEW c \in Channel, AskWrite(c)
    PROVE  FloppyInv' /\ SameData
<1>1. /\ phase = "idle" /\ stream[c] # << >>
      /\ UNCHANGED <<pc, disk, stream, writing, write_state, write_drive>>
  BY DEF AskWrite, Raise, floppyVars
<1>2. PICK k \in 1 .. Len(stream[c]) :
          req' = [dir |-> "write", drive |-> writing[c].drive,
                  track |-> writing[c].track, size |-> k]
  BY DEF AskWrite, Raise
<1>3. writing[c].drive \in FloppyDrive /\ writing[c].drive[1] = c
  BY <1>1 DEF FloppyInv, WritingRight
<1>4. drive' = writing[c].drive /\ channel' = c
  BY <1>2, <1>3 DEF drive, channel
<1>5. Asked'
  BY <1>1, <1>2, <1>3, <1>4 DEF Asked, AskedToWrite, words
<1>6. pc = "idle"
  BY <1>1 DEF FloppyInv, LineRight
<1>7. LineRight'
  BY <1>1, <1>5, <1>6 DEF LineRight
<1>8. WritingRight'
  BY <1>1, SameStream, SameWriting, WritingStep DEF FloppyInv
<1>9. DisksRight' /\ SameData
  BY <1>1 DEF FloppyInv, DisksRight, SameData, IsDisk, AdfDisks, Sector
<1> QED
  BY <1>1, <1>7, <1>8, <1>9 DEF FloppyInv

LEMMA ReadAsked ==
    ASSUME FloppyInv, fch_driver = 1, NEW d \in FloppyDrive, AskRead(d)
    PROVE  FloppyInv' /\ SameData
<1>1. /\ phase = "idle" /\ stream[d[1]] = << >> /\ writing' = [writing EXCEPT ![d[1]] = Nothing]
      /\ UNCHANGED <<pc, disk, stream, write_state, write_drive>>
  BY DEF AskRead, Raise, writeState
<1>2. PICK t \in HeadTracks : req' = [dir |-> "read", drive |-> d, track |-> t, size |-> 0]
  BY DEF AskRead, Raise
<1>3. t \in Nat
  BY ImageAssumption
<1>4. Asked'
  BY <1>2, <1>3 DEF Asked, drive
<1>5. pc = "idle"
  BY <1>1 DEF FloppyInv, LineRight
<1>6. LineRight'
  BY <1>1, <1>4, <1>5 DEF LineRight
<1>7. WritingKept
  <2>1. writing = [c \in Channel |-> writing[c]] /\ \A c \in Channel : writing[c] \in Writings
    BY DEF FloppyInv, WritingRight
  <2>2. /\ writing' = [c \in Channel |-> writing'[c]]
        /\ \A c \in Channel : writing'[c] = IF c = d[1] THEN Nothing ELSE writing[c]
    BY <1>1, <2>1
  <2> QED
    BY <1>1, <2>1, <2>2, NothingType DEF WritingKept
<1>8. WritingRight'
  BY <1>1, <1>7, SameStream, WritingStep DEF FloppyInv
<1>9. DisksRight' /\ SameData
  BY <1>1 DEF FloppyInv, DisksRight, SameData, IsDisk, AdfDisks, Sector
<1> QED
  BY <1>1, <1>6, <1>8, <1>9 DEF FloppyInv

-----------------------------------------------------------------------------
(* The driver takes a request, and gives it back.                           *)

LEMMA RequestTaken ==
    ASSUME FloppyInv, fch_driver = 1, FloppyTakes
    PROVE  FloppyInv' /\ SameData
<1>1. /\ phase = "req" /\ pc = "idle" /\ phase' = "busy"
      /\ UNCHANGED <<req, disk, stream, writing>>
  BY DEF FloppyTakes, DiskMissing, DiskBegin, Accept, floppyVars
<1>2. Asked /\ drive \in FloppyDrive
  BY <1>1 DEF FloppyInv, LineRight, Asked
<1>3. Asked'
  BY <1>1, <1>2, AskedKept, SameWriting DEF FloppyInv
<1>4. \/ pc' = "nodisk"
      \/ pc' = "write" /\ this.format = "adf" /\ req.dir = "write"
      \/ pc' \in {"adf", "scp"} /\ pc' = this.format /\ req.dir = "read"
  BY DEF FloppyTakes, DiskMissing, DiskBegin, Accept
<1>5. this' = this
  BY <1>1 DEF this, drive
<1>6. LineRight'
  BY <1>1, <1>3, <1>4, <1>5 DEF LineRight
<1>7. write_state' \in {0, 1} /\ write_drive' \in Nat
  BY <1>1, <1>2, DriveFacts
     DEF FloppyTakes, DiskMissing, DiskBegin, floppyVars, writeState, FloppyInv, Selected
<1>8. WritingRight'
  BY <1>1, SameStream, SameWriting, WritingStep DEF FloppyInv
<1>9. DisksRight' /\ SameData
  BY <1>1 DEF FloppyInv, DisksRight, SameData, IsDisk, AdfDisks, Sector
<1> QED
  BY <1>6, <1>7, <1>8, <1>9 DEF FloppyInv

LEMMA WriteToScpStep ==
    ASSUME FloppyInv, fch_driver = 1, WriteToScp
    PROVE  FloppyInv' /\ SameData
<1>1. /\ pc = "idle" /\ phase = "req" /\ write_state' = Selected /\ write_drive' = drive[2]
      /\ UNCHANGED <<phase, req, pc, disk, stream, writing>>
  BY DEF WriteToScp, lineVars
<1>2. Asked /\ drive \in FloppyDrive
  BY <1>1 DEF FloppyInv, LineRight, Asked
<1>3. Asked'
  BY <1>1, <1>2, AskedKept, SameWriting DEF FloppyInv
<1>4. LineRight'
  BY <1>1, <1>3 DEF LineRight
<1>5. write_state' \in {0, 1} /\ write_drive' \in Nat
  BY <1>1, <1>2, DriveFacts DEF FloppyInv, Selected
<1>6. WritingRight'
  BY <1>1, SameStream, SameWriting, WritingStep DEF FloppyInv
<1>7. DisksRight' /\ SameData
  BY <1>1 DEF FloppyInv, DisksRight, SameData, IsDisk, AdfDisks, Sector
<1> QED
  BY <1>4, <1>5, <1>6, <1>7 DEF FloppyInv

\* The driver is done with a request.
LEMMA Returned ==
    ASSUME FloppyInv, pc' = "idle", phase' = "idle"
    PROVE  LineRight'
BY DEF LineRight

LEMMA DiskAbortStep ==
    ASSUME FloppyInv, fch_driver = 1, DiskAbort
    PROVE  FloppyInv' /\ SameData
<1>1. /\ pc' = "idle" /\ phase' = "idle"
      /\ UNCHANGED <<disk, stream, writing, write_state, write_drive>>
  BY DEF DiskAbort, Return, floppyVars
<1>2. WritingRight'
  BY <1>1, SameStream, SameWriting, WritingStep DEF FloppyInv
<1>3. DisksRight' /\ SameData
  BY <1>1 DEF FloppyInv, DisksRight, SameData, IsDisk, AdfDisks, Sector
<1> QED
  BY <1>1, <1>2, <1>3, Returned DEF FloppyInv

\* The sector that is read next.
LEMMA AdfReadStep ==
    ASSUME FloppyInv, fch_driver = 1, AdfRead
    PROVE  FloppyInv' /\ SameData
<1> DEFINE v == [this EXCEPT !.cur_sector =
                    IF this.cur_sector = LastSector THEN 0 ELSE this.cur_sector + 1]
<1>1. /\ pc = "adf" /\ pc' = "idle" /\ phase' = "idle" /\ write_state' = 0
      /\ UNCHANGED <<stream, writing, write_drive>>
  BY DEF AdfRead, Return
<1>2. this.format = "adf" /\ drive \in FloppyDrive /\ IsDisk(this)
  BY <1>1 DEF FloppyInv, LineRight, Asked, this, DisksRight
<1>3. this \in AdfDisks /\ this.cur_sector \in 0 .. LastSector
  BY <1>2, FormatFacts
<1>4. disk' = [disk EXCEPT ![drive] = v]
  BY DEF AdfRead, this
<1>5. v \in AdfDisks /\ v.data = this.data
  <2>1. (IF this.cur_sector = LastSector THEN 0 ELSE this.cur_sector + 1) \in 0 .. LastSector
    BY <1>3, ImageAssumption
  <2> QED
    BY <1>3, <2>1 DEF AdfDisks
<1> HIDE DEF v
<1>6. /\ DisksRight' /\ disk'[drive] = v
      /\ \A x \in FloppyDrive : x # drive => disk'[x] = disk[x]
  BY <1>2, <1>4, <1>5, OneDisk DEF FloppyInv, IsDisk
<1>7. SameData
  BY <1>5, <1>6 DEF SameData, this
<1>8. WritingRight'
  BY <1>1, SameStream, SameWriting, WritingStep DEF FloppyInv
<1> QED
  BY <1>1, <1>6, <1>7, <1>8, Returned DEF FloppyInv

LEMMA HeadMoved ==
    ASSUME NEW s, NEW t
    PROVE  [ScpDisk(t) EXCEPT !.scp = s] = ScpDisk(s)
BY DEF ScpDisk

LEMMA ScpChanged ==
    ASSUME DisksRight, drive \in FloppyDrive, this.format = "scp", NEW s, OnTrack(s),
           disk' = [disk EXCEPT ![drive].scp = s]
    PROVE  DisksRight' /\ SameData /\ disk'[drive].format = "scp"
<1>1. PICK t : this = ScpDisk(t)
  BY FormatFacts DEF DisksRight, this
<1> DEFINE v == [this EXCEPT !.scp = s]
<1>2. v = ScpDisk(s)
  BY <1>1, HeadMoved
<1>3. disk' = [disk EXCEPT ![drive] = v]
  BY DEF this
<1> HIDE DEF v
<1>4. /\ DisksRight' /\ disk'[drive] = v
      /\ \A x \in FloppyDrive : x # drive => disk'[x] = disk[x]
  BY <1>2, <1>3, OneDisk DEF IsDisk
<1>5. v.format = "scp"
  BY <1>2 DEF ScpDisk
<1> QED
  BY <1>4, <1>5 DEF SameData

LEMMA ScpStepStep ==
    ASSUME FloppyInv, fch_driver = 1, ScpStep
    PROVE  FloppyInv' /\ SameData
<1>1. /\ pc = "scp" /\ pc' = "flux"
      /\ UNCHANGED <<phase, req, stream, writing, write_state, write_drive>>
  BY DEF ScpStep, writeState
<1>2. /\ this.format = "scp" /\ drive \in FloppyDrive /\ IsDisk(this) /\ Asked
      /\ phase = "busy" /\ req.dir = "read" /\ req.track \in Nat
  BY <1>1 DEF FloppyInv, LineRight, Asked, this, DisksRight
<1>3. OnTrack(this.scp)
  BY <1>2, FormatFacts
<1>4. PICK fails \in BOOLEAN :
          disk' = [disk EXCEPT ![drive].scp = Stepped(this.scp, req.track, fails)]
  BY DEF ScpStep, this
<1>5. DisksRight' /\ SameData /\ disk'[drive].format = "scp"
  BY <1>2, <1>3, <1>4, SteppedOnTrack, ScpChanged DEF FloppyInv
<1>6. Asked'
  BY <1>1, <1>2, AskedKept, SameWriting DEF FloppyInv
<1>7. LineRight'
  BY <1>1, <1>2, <1>5, <1>6 DEF LineRight, this, drive
<1>8. WritingRight'
  BY <1>1, SameStream, SameWriting, WritingStep DEF FloppyInv
<1> QED
  BY <1>1, <1>5, <1>7, <1>8 DEF FloppyInv

LEMMA ScpReadStep ==
    ASSUME FloppyInv, fch_driver = 1, ScpRead
    PROVE  FloppyInv' /\ SameData
<1>1. /\ pc = "flux" /\ pc' = "idle" /\ phase' = "idle" /\ write_state' = 0
      /\ UNCHANGED <<stream, writing, write_drive>>
  BY DEF ScpRead, Return
<1>2. this.format = "scp" /\ drive \in FloppyDrive /\ IsDisk(this)
  BY <1>1 DEF FloppyInv, LineRight, Asked, this, DisksRight
<1>3. OnTrack(this.scp)
  BY <1>2, FormatFacts
<1>4. disk' = [disk EXCEPT ![drive].scp = Turned(this.scp)]
  BY DEF ScpRead, this
<1>5. OnTrack(Turned(this.scp))
  BY <1>3, TurnedOnTrack, SentWords
<1>6. DisksRight' /\ SameData
  BY <1>2, <1>4, <1>5, ScpChanged DEF FloppyInv
<1>7. WritingRight'
  BY <1>1, SameStream, SameWriting, WritingStep DEF FloppyInv
<1> QED
  BY <1>1, <1>6, <1>7, Returned DEF FloppyInv

-----------------------------------------------------------------------------
(* The driver finds sectors in what a core writes.                          *)

\* What a request to write is about.
LEMMA WriteFacts ==
    ASSUME FloppyInv, fch_driver = 1, pc = "write"
    PROVE  /\ drive \in FloppyDrive /\ channel \in Channel /\ this.format = "adf"
           /\ this \in AdfDisks /\ writing[channel].drive = drive
           /\ req.track = writing[channel].track
           /\ words # << >> /\ words \in Seq(WordsOf(writing[channel].images))
           /\ Len(words) \in Nat /\ req.size \in 1 .. Len(words)
<1>1. Asked /\ AskedToWrite /\ this.format = "adf"
  BY DEF FloppyInv, LineRight, Asked
<1>2. drive \in FloppyDrive /\ channel \in Channel
  BY <1>1, DriveFacts DEF Asked, channel
<1>3. this \in AdfDisks
  BY <1>1, <1>2, FormatFacts DEF FloppyInv, DisksRight, this
<1>4. words \in Seq(WordsOf(writing[channel].images))
  BY <1>2 DEF FloppyInv, WritingRight, words
<1>5. req.size \in 1 .. Len(words) /\ Len(words) \in Nat
  BY <1>1, <1>4 DEF AskedToWrite
<1>6. words # << >>
  BY <1>5
<1> QED
  BY <1>1, <1>2, <1>3, <1>4, <1>5, <1>6 DEF AskedToWrite

LEMMA ConsumeShrinks ==
    ASSUME WritingRight, channel \in Channel, words # << >>, NEW k \in 0 .. Len(words), Consume(k)
    PROVE  StreamShrinks
<1>1. words = stream[channel] /\ words \in Seq(WordsOf(writing[channel].images))
  BY DEF WritingRight, words
<1> DEFINE S == WordsOf(writing[channel].images)
           rest == SubSeq(words, k + 1, Len(words))
<1> HIDE DEF S
<1>2. words \in Seq(S) /\ Len(words) \in Nat /\ \A i \in 1 .. Len(words) : words[i] \in S
  BY <1>1, ElementsOf DEF S
<1>3. \A i \in k + 1 .. Len(words) : words[i] \in S
  BY <1>2
<1>4. rest \in Seq(S)
  <2>1. k + 1 \in Int /\ Len(words) \in Int
    BY <1>2
  <2> QED
    BY <1>3, <2>1, SubSeqProperties
<1> HIDE DEF rest
<1>5. stream = [c \in Channel |-> stream[c]] /\ stream' = [stream EXCEPT ![channel] = rest]
  BY DEF WritingRight, Consume, rest
<1>6. /\ stream' = [c \in Channel |-> stream'[c]] /\ stream'[channel] = rest
      /\ \A c \in Channel : c # channel => stream'[c] = stream[c]
  BY <1>5
<1> QED
  BY <1>1, <1>4, <1>6 DEF StreamShrinks, S

LEMMA WriteReturned ==
    ASSUME FloppyInv, fch_driver = 1, Return("ok"), write_state' \in {0, 1}, UNCHANGED write_drive,
           StreamShrinks, WritingKept, DisksRight'
    PROVE  FloppyInv'
<1>1. LineRight'
  BY Returned DEF Return
<1>2. WritingRight'
  BY WritingStep DEF FloppyInv
<1> QED
  BY <1>1, <1>2 DEF FloppyInv

LEMMA DiskStays ==
    ASSUME FloppyInv, UNCHANGED disk
    PROVE  DisksRight' /\ SameData
BY DEF FloppyInv, DisksRight, SameData, IsDisk, AdfDisks, Sector, Contents

LEMMA FindSyncStep ==
    ASSUME FloppyInv, fch_driver = 1, FindSync
    PROVE  FloppyInv' /\ SameData
<1>1. /\ pc = "write" /\ write_state = 0 /\ Return("ok") /\ UNCHANGED <<disk, writing, write_drive>>
  BY DEF FindSync
<1> DEFINE found == {k \in 1 .. req.size : words[k] = Sync}
<1>2. IF found = {} THEN Consume(req.size) /\ UNCHANGED write_state
      ELSE /\ write_state' = 1
           /\ Consume(CHOOSE k \in found : \A j \in found : k <= j)
  BY DEF FindSync
<1>3. /\ channel \in Channel /\ words # << >> /\ Len(words) \in Nat
      /\ req.size \in 1 .. Len(words)
  BY <1>1, WriteFacts
<1>4. found \subseteq Nat /\ found \subseteq 0 .. Len(words)
  BY <1>3
<1> HIDE DEF found
<1>5. PICK k \in 0 .. Len(words) : Consume(k)
  <2>1. CASE found = {}
    BY <1>2, <1>3, <2>1
  <2>2. CASE found # {}
    <3>1. \E k \in found : \A j \in found : k <= j
      BY <1>4, <2>2, SmallestFound
    <3>2. (CHOOSE k \in found : \A j \in found : k <= j) \in found
      BY <3>1
    <3> QED
      BY <1>2, <1>4, <2>2, <3>2
  <2> QED
    BY <2>1, <2>2
<1>6. StreamShrinks /\ WritingKept
  BY <1>1, <1>3, <1>5, ConsumeShrinks, SameWriting DEF FloppyInv
<1>7. write_state' \in {0, 1}
  BY <1>1, <1>2
<1> QED
  BY <1>1, <1>6, <1>7, DiskStays, WriteReturned

LEMMA UnderrunStep ==
    ASSUME FloppyInv, fch_driver = 1, Underrun
    PROVE  FloppyInv' /\ SameData
<1>1. Return("ok") /\ write_state' = 0 /\ UNCHANGED <<disk, stream, writing, write_drive>>
  BY DEF Underrun
<1>2. StreamShrinks /\ WritingKept
  BY <1>1, SameStream, SameWriting DEF FloppyInv
<1> QED
  BY <1>1, <1>2, DiskStays, WriteReturned

LEMMA NoSecondSyncStep ==
    ASSUME FloppyInv, fch_driver = 1, NoSecondSync
    PROVE  FloppyInv' /\ SameData
<1>1. /\ pc = "write" /\ Return("ok") /\ write_state' = 0 /\ Consume(1)
      /\ UNCHANGED <<disk, writing, write_drive>>
  BY DEF NoSecondSync
<1>2. channel \in Channel /\ words # << >> /\ 1 \in 0 .. Len(words)
  BY <1>1, WriteFacts
<1>3. StreamShrinks /\ WritingKept
  BY <1>1, <1>2, ConsumeShrinks, SameWriting DEF FloppyInv
<1> QED
  BY <1>1, <1>3, DiskStays, WriteReturned

\* One sector of the disk changes.
LEMMA SectorChanged ==
    ASSUME DisksRight, drive \in FloppyDrive, this \in AdfDisks, NEW p \in Sector,
           NEW c \in Contents, disk' = [disk EXCEPT ![drive].data[p] = c]
    PROVE  /\ DisksRight' /\ \A x \in FloppyDrive : x # drive => disk'[x] = disk[x]
           /\ \A q \in Sector : q # p => disk'[drive].data[q] = this.data[q]
           /\ disk'[drive].data[p] = c
<1> DEFINE data == [this.data EXCEPT ![p] = c]
           v == [this EXCEPT !.data = data]
<1>1. this.data \in [Sector -> Contents]
  BY DEF AdfDisks
<1>2. data \in [Sector -> Contents] /\ data[p] = c /\ \A q \in Sector : q # p => data[q] = this.data[q]
  BY <1>1
<1>3. disk' = [disk EXCEPT ![drive] = v]
  BY DEF this
<1> HIDE DEF data
<1>4. v \in AdfDisks /\ v.data = data
  BY <1>2 DEF AdfDisks
<1> HIDE DEF v
<1>5. /\ DisksRight' /\ disk'[drive] = v
      /\ \A x \in FloppyDrive : x # drive => disk'[x] = disk[x]
  BY <1>3, <1>4, OneDisk DEF IsDisk
<1> QED
  BY <1>2, <1>4, <1>5

\* What may change on a disk.
Changes ==
    \A x \in FloppyDrive :
        disk[x].format = "adf" /\ disk'[x].format = "adf" =>
            \A p \in Sector : disk'[x].data[p] # disk[x].data[p] =>
                /\ ~disk[x].prot /\ writing[x[1]].drive = x
                /\ \E i \in DOMAIN writing[x[1]].images :
                      LET im == writing[x[1]].images[i]
                      IN /\ p = <<im.track, im.sector>> /\ im.track = writing[x[1]].track
                         /\ im.good /\ disk'[x].data[p] \in {im.data, "spoilt"}

LEMMA SectorWritten ==
    ASSUME FloppyInv, fch_driver = 1, pc = "write", ~this.prot,
           NEW i \in DOMAIN writing[channel].images, NEW im \in Images,
           im = writing[channel].images[i], Intact(im, req.track), WriteSector(im)
    PROVE  DisksRight' /\ WritingKept /\ Changes
<1>1. /\ drive \in FloppyDrive /\ channel \in Channel /\ this.format = "adf"
      /\ this \in AdfDisks /\ writing[channel].drive = drive
      /\ req.track = writing[channel].track
  BY WriteFacts
<1>2. im.good /\ im.track < Tracks /\ im.sector <= LastSector /\ im.track = writing[channel].track
  BY <1>1 DEF Intact
<1> DEFINE p == <<im.track, im.sector>>
<1>3. p \in Sector
  BY <1>2, ImageFacts, ImageAssumption DEF Sector
<1> HIDE DEF p
<1>4. PICK c \in Contents : /\ disk' = [disk EXCEPT ![drive].data[p] = c]
                            /\ c \in {im.data, "spoilt", this.data[p]}
  <2>1. im.data \in Contents /\ "spoilt" \in Contents
    BY DEF Contents
  <2>2. this.data[p] \in Contents
    BY <1>1, <1>3 DEF AdfDisks
  <2> QED
    BY <2>1, <2>2 DEF WriteSector, p
<1>5. /\ DisksRight' /\ \A x \in FloppyDrive : x # drive => disk'[x] = disk[x]
      /\ \A q \in Sector : q # p => disk'[drive].data[q] = this.data[q]
      /\ disk'[drive].data[p] = c
  BY <1>1, <1>3, <1>4, SectorChanged DEF FloppyInv
<1>6. WritingKept
  BY SameWriting, DisturbedKept DEF FloppyInv, WriteSector
<1>7. ASSUME NEW q \in Sector, disk'[drive].data[q] # disk[drive].data[q]
      PROVE  q = p /\ c \in {im.data, "spoilt"}
  BY <1>4, <1>5, <1>7 DEF this
<1>8. Changes
  <2> SUFFICES ASSUME NEW x \in FloppyDrive, NEW q \in Sector,
                      disk'[x].data[q] # disk[x].data[q]
               PROVE  /\ ~disk[x].prot /\ writing[x[1]].drive = x
                      /\ \E j \in DOMAIN writing[x[1]].images :
                            LET jm == writing[x[1]].images[j]
                            IN /\ q = <<jm.track, jm.sector>> /\ jm.track = writing[x[1]].track
                               /\ jm.good /\ disk'[x].data[q] \in {jm.data, "spoilt"}
    BY DEF Changes
  <2>1. x = drive /\ x[1] = channel
    BY <1>5 DEF channel
  <2>2. q = p /\ c \in {im.data, "spoilt"} /\ disk'[x].data[q] = c
    BY <1>5, <1>7, <2>1
  <2>3. ~disk[x].prot /\ writing[x[1]].drive = x
    BY <1>1, <2>1 DEF this
  <2> QED
    BY <1>2, <2>1, <2>2, <2>3 DEF p
<1> QED
  BY <1>5, <1>6, <1>8

LEMMA NoChange ==
    ASSUME SameData
    PROVE  Changes
BY DEF SameData, Changes

LEMMA ReadBodyStep ==
    ASSUME FloppyInv, fch_driver = 1, ReadBody
    PROVE  FloppyInv' /\ Changes
<1>1. /\ pc = "write" /\ req.size >= BodyWords /\ Return("ok") /\ write_state' = 0
      /\ UNCHANGED write_drive
  BY DEF ReadBody
<1>2. /\ drive \in FloppyDrive /\ channel \in Channel /\ Len(words) \in Nat /\ words # << >>
      /\ words \in Seq(WordsOf(writing[channel].images)) /\ req.size \in 1 .. Len(words)
      /\ BodyWords \in Nat \ {0}
  BY <1>1, WriteFacts, ImageAssumption
<1>3. PICK there \in req.size .. Len(words) :
          LET k == IF there > BodyWords THEN BodyWords + 1 ELSE there
              w == SubSeq(words, 2, k)
          IN /\ Consume(k)
             /\ IF IsBody(w) /\ Intact(w[1][2], req.track) /\ ~this.prot
                THEN WriteSector(w[1][2]) ELSE UNCHANGED <<disk, writing>>
  BY DEF ReadBody
<1> DEFINE k == IF there > BodyWords THEN BodyWords + 1 ELSE there
           w == SubSeq(words, 2, k)
<1>4. k \in 0 .. Len(words)
  BY <1>2
<1>5. /\ Consume(k)
      /\ IF IsBody(w) /\ Intact(w[1][2], req.track) /\ ~this.prot
         THEN WriteSector(w[1][2]) ELSE UNCHANGED <<disk, writing>>
  BY <1>3
<1> HIDE DEF k
<1>6. StreamShrinks
  BY <1>2, <1>4, <1>5, ConsumeShrinks DEF FloppyInv
<1>7. CASE IsBody(w) /\ Intact(w[1][2], req.track) /\ ~this.prot
  <2>1. PICK im \in Images : w = [i \in 1 .. BodyWords |-> <<"body", im, i>>]
    BY <1>7 DEF IsBody
  <2>2. Len(w) = BodyWords
    BY <1>7 DEF IsBody
  <2>3. w[1] = <<"body", im, 1>> /\ w[1][2] = im
    <3>1. 1 \in 1 .. BodyWords
      BY <1>2
    <3> HIDE DEF w
    <3>2. w[1] = <<"body", im, 1>>
      BY <2>1, <3>1
    <3> QED
      BY <3>2
  <2>4. Len(w) = (IF 2 <= k THEN k - 1 ELSE 0) /\ \A i \in 1 .. k - 1 : w[i] = words[i + 1]
    <3>1. \A i \in 2 .. k : words[i] \in WordsOf(writing[channel].images)
      BY <1>2, <1>4, ElementsOf
    <3>2. k \in Int /\ 2 \in Int
      BY <1>2, <1>4
    <3> DEFINE S == WordsOf(writing[channel].images)
    <3> HIDE DEF S
    <3>3. /\ Len(w) = IF 2 <= k THEN k - 2 + 1 ELSE 0
          /\ \A i \in 1 .. k - 2 + 1 : w[i] = words[2 + i - 1]
      BY <3>1, <3>2, SubSeqProperties DEF S
    <3> HIDE DEF w
    <3> QED
      BY <1>4, <3>2, <3>3
  <2>5. 2 <= k /\ w[1] = words[2] /\ 2 \in 1 .. Len(words)
    <3>1. 2 <= k /\ k \in Nat
      BY <1>2, <1>4, <2>2, <2>4
    <3>2. 1 \in 1 .. k - 1 /\ 1 + 1 = 2
      BY <3>1
    <3>3. w[1] = words[1 + 1]
      BY <2>4, <3>2, Zenon
    <3> HIDE DEF w
    <3> QED
      BY <1>2, <1>4, <3>1, <3>2, <3>3
  <2>6. <<"body", im, 1>> \in WordsOf(writing[channel].images)
    <3> DEFINE S == WordsOf(writing[channel].images)
    <3> HIDE DEF S, w
    <3>1. words \in Seq(S)
      BY <1>2 DEF S
    <3>2. words[2] \in S
      BY <2>5, <3>1, ElementsOf
    <3> QED
      BY <2>3, <2>5, <3>2 DEF S
  <2>7. PICK j \in DOMAIN writing[channel].images : im = writing[channel].images[j]
    BY <2>6 DEF WordsOf, Gap, Sync
  <2>8. Intact(im, req.track) /\ WriteSector(im) /\ ~this.prot
    BY <1>5, <1>7, <2>3
  <2>9. DisksRight' /\ WritingKept /\ Changes
    BY <1>1, <2>7, <2>8, SectorWritten
  <2> QED
    BY <1>1, <1>6, <2>9, WriteReturned
<1>8. CASE ~(IsBody(w) /\ Intact(w[1][2], req.track) /\ ~this.prot)
  <2>1. UNCHANGED <<disk, writing>>
    BY <1>5, <1>8
  <2>2. DisksRight' /\ SameData /\ WritingKept
    BY <2>1, DiskStays, SameWriting DEF FloppyInv
  <2> QED
    BY <1>1, <1>6, <2>2, WriteReturned, NoChange
<1> QED
  BY <1>7, <1>8

-----------------------------------------------------------------------------
(* The floppy driver in its channel, and the theorems.                      *)

\* Every step of the floppy driver, of the core and of those who change the disks.
LEMMA FloppyStepKeeps ==
    ASSUME FloppyInv, fch_driver = 1, FloppyNext
    PROVE  FloppyInv' /\ Changes
<1>1. ASSUME NEW x \in FloppyDrive,
             InsertDisk(x) \/ EjectDisk(x) \/ ProtectDisk(x) \/ CoreWrites(x) \/ AskRead(x)
      PROVE  FloppyInv' /\ Changes
  BY <1>1, DiskInserted, DiskEjected, DiskProtected, TrackWritten, ReadAsked, NoChange
<1>2. ASSUME NEW x \in Channel, CoreStops(x) \/ AskWrite(x)
      PROVE  FloppyInv' /\ Changes
  BY <1>2, TrackGivenUp, WriteAsked, NoChange
<1>3. CASE FloppyTakes \/ DiskAbort \/ WriteToScp
  BY <1>3, RequestTaken, DiskAbortStep, WriteToScpStep, NoChange
<1>4. CASE AdfRead \/ ScpStep \/ ScpRead
  BY <1>4, AdfReadStep, ScpStepStep, ScpReadStep, NoChange
<1>5. CASE FindSync \/ Underrun \/ NoSecondSync
  BY <1>5, FindSyncStep, UnderrunStep, NoSecondSyncStep, NoChange
<1>6. CASE ReadBody
  BY <1>6, ReadBodyStep
<1> QED
  BY <1>1, <1>2, <1>3, <1>4, <1>5, <1>6 DEF FloppyNext, FloppyDriver

\* While the other driver has the channel, or nothing happens.
LEMMA FloppyRests ==
    ASSUME FloppyInv, UNCHANGED floppyVars, fch_driver' = 1 => LineRight'
    PROVE  FloppyInv'
<1>1. UNCHANGED <<disk, stream, writing, write_state, write_drive>>
  BY DEF floppyVars
<1>2. DisksRight'
  BY <1>1, DiskStays
<1>3. WritingRight'
  BY <1>1, SameStream, SameWriting, WritingStep DEF FloppyInv
<1> QED
  BY <1>1, <1>2, <1>3 DEF FloppyInv

LEMMA FloppyBegins == Init => FloppyInv
<1> SUFFICES ASSUME Init PROVE FloppyInv
  OBVIOUS
<1>1. /\ disk = [d \in FloppyDrive |-> NoDisk] /\ stream = [c \in Channel |-> << >>]
      /\ writing = [c \in Channel |-> Nothing] /\ write_state = 0 /\ write_drive = 0
      /\ pc = "idle" /\ phase = "idle"
  BY DEF Init, FloppyInit, LineInit
<1>2. DisksRight
  BY <1>1 DEF DisksRight, IsDisk
<1>3. ASSUME NEW ims PROVE << >> \in Seq(WordsOf(ims))
  OBVIOUS
<1>4. WritingRight
  BY <1>1, <1>3, NothingType DEF WritingRight
<1>5. LineRight
  BY <1>1 DEF LineRight
<1> QED
  BY <1>1, <1>2, <1>4, <1>5 DEF FloppyInv

LEMMA FloppyChannelStep ==
    ASSUME FloppyInv, [Next]_vars
    PROVE  FloppyInv' /\ (Changes \/ UNCHANGED disk)
<1>1. CASE FloppyStep
  BY <1>1, FloppyStepKeeps DEF FloppyStep
<1>2. CASE TapeStep
  <2>1. fch_driver' = 2 /\ UNCHANGED floppyVars
    BY <1>2 DEF TapeStep
  <2> QED
    BY <2>1, FloppyRests DEF floppyVars
<1>3. CASE SetDriver
  <2>1. /\ pc = "idle" /\ pc' = "idle" /\ phase' = "idle" /\ UNCHANGED <<disk, write_state, write_drive>>
        /\ stream' = [c \in Channel |-> << >>] /\ writing' = [c \in Channel |-> Nothing]
    BY <1>3 DEF SetDriver, writeState
  <2>2. LineRight'
    BY <2>1 DEF LineRight
  <2>3. ASSUME NEW ims PROVE << >> \in Seq(WordsOf(ims))
    OBVIOUS
  <2>4. WritingRight'
    <3>1. Channel' = Channel
      BY DEF Channel
    <3> QED
      BY <2>1, <2>3, <3>1, NothingType DEF WritingRight, Writings
  <2>5. DisksRight'
    BY <2>1, DiskStays
  <2> QED
    BY <2>1, <2>2, <2>4, <2>5 DEF FloppyInv
<1>4. CASE UNCHANGED vars
  <2>1. UNCHANGED <<phase, req, pc, disk, stream, writing, floppyVars, fch_driver>>
    BY <1>4 DEF vars, lineVars, floppyVars
  <2>2. ASSUME fch_driver = 1 PROVE LineRight'
    <3>1. LineRight
      BY <2>2 DEF FloppyInv
    <3>2. phase # "idle" => Asked'
      BY <2>1, <3>1, AskedKept, SameWriting DEF LineRight, FloppyInv
    <3> QED
      BY <2>1, <3>1, <3>2 DEF LineRight, this, drive
  <2> QED
    BY <2>1, <2>2, FloppyRests
<1> QED
  BY <1>1, <1>2, <1>3, <1>4 DEF Next

\* What is known of the floppy driver is what the core and the menu can rely on.
LEMMA FloppyIsRight ==
    ASSUME FloppyInv, EvenPlaces
    PROVE  FloppyTypeOK /\ FluxRight
<1>1. ASSUME NEW x \in FloppyDrive
      PROVE  /\ disk[x].format \in {"none", "adf", "scp"} /\ disk[x].prot \in BOOLEAN
             /\ disk[x].cur_sector \in 0 .. LastSector
             /\ disk[x].format = "adf" => DOMAIN disk[x].data = Sector
             /\ disk[x].format = "scp" => FluxInside(disk[x].scp)
  <2>1. IsDisk(disk[x])
    BY DEF FloppyInv, DisksRight
  <2> QED
    BY <2>1, FormatFacts, FluxGood
<1> QED
  BY <1>1 DEF FloppyInv, FloppyTypeOK, FluxRight

\* Whatever the tapes, the disks, what the cores write and read, and the failures of
\* the card: if one drive at a time holds a tape and flux tracks lie at even
\* places, the drivers' cursor and their place on a flux track stay inside what
\* is inserted (fileio_drv02_tape.c:68, fileio_drv01_floppy.c:636).
THEOREM ChannelsCorrect ==
    ASSUME ~Together, EvenPlaces
    PROVE  Spec => []Inv
<1>1. Init => ChannelInv /\ FloppyInv
  <2> SUFFICES ASSUME Init PROVE ChannelInv
    BY FloppyBegins
  <2>1. pc = "idle"
    BY DEF Init, LineInit
  <2> QED
    BY <2>1, InitTape DEF ChannelInv
<1>2. (ChannelInv /\ FloppyInv) /\ [Next]_vars => (ChannelInv /\ FloppyInv)'
  BY ChannelStep, FloppyChannelStep
<1>3. ChannelInv /\ FloppyInv => Inv
  BY FloppyIsRight DEF ChannelInv, TapeInv, Inv
<1> QED
  BY <1>1, <1>2, <1>3, PTL DEF Spec

\* A disk changes only where an intact sector belongs that the core wrote to this
\* very drive, with the head on its track, and never while it is protected,
\* whatever the shared state of the search for sectors remembers
\* (FileIO_Drv01_ADF_Write, fileio_drv01_floppy.c).
THEOREM OnlySectorsWritten == Spec => OnlyWritten
<1>1. Init => FloppyInv
  BY FloppyBegins
<1>2. FloppyInv /\ [Next]_vars => FloppyInv'
  BY FloppyChannelStep
<1>3. FloppyInv /\ [Next]_vars =>
        [\A x \in FloppyDrive :
          disk[x].format = "adf" /\ disk'[x].format = "adf" =>
              \A p \in Sector : disk'[x].data[p] # disk[x].data[p] =>
                  /\ ~disk[x].prot /\ writing[x[1]].drive = x
                  /\ \E i \in DOMAIN writing[x[1]].images :
                        LET im == writing[x[1]].images[i]
                        IN /\ p = <<im.track, im.sector>> /\ im.track = writing[x[1]].track
                           /\ im.good /\ disk'[x].data[p] \in {im.data, "spoilt"}]_disk
  BY FloppyChannelStep DEF Changes
<1> QED
  BY <1>1, <1>2, <1>3, PTL DEF Spec, OnlyWritten

-----------------------------------------------------------------------------
(* Where the words of a core's sectors are in its stream.                   *)

\* Where the words of each sector begin in the stream of a core.
WordCount(im) == 1 + im.syncs + im.words
Places(ims, at) ==
    /\ at \in [1 .. Len(ims) + 1 -> Nat] /\ at[1] = 0
    /\ \A i \in 1 .. Len(ims) : at[i + 1] = at[i] + WordCount(ims[i])
LaidOut(ims, at, s) ==
    \A i \in 1 .. Len(ims) : \A b \in 1 .. WordCount(ims[i]) : s[at[i] + b] = Words(ims[i])[b]
Laid(ims, at) ==
    /\ Places(ims, at)
    /\ Len(StreamOf(ims)) = at[Len(ims) + 1] /\ LaidOut(ims, at, StreamOf(ims))

\* What is in a sequence that was joined from two.
IsJoin(h, s, t) == h = s \o t
EndsIn(h, s, t) == \A i \in 1 .. Len(t) : h[Len(s) + i] = t[i]

LEMMA JoinLength ==
    ASSUME NEW S, NEW s \in Seq(S), NEW t \in Seq(S), NEW h, IsJoin(h, s, t)
    PROVE  h \in Seq(S) /\ Len(h) = Len(s) + Len(t)
BY ConcatProperties DEF IsJoin

LEMMA JoinLeft ==
    ASSUME NEW S, NEW s \in Seq(S), NEW t \in Seq(S), NEW h, IsJoin(h, s, t)
    PROVE  \A i \in 1 .. Len(s) : h[i] = s[i]
<1>1. Len(s) \in Nat /\ Len(t) \in Nat
  BY ElementsOf
<1>2. \A k \in 1 .. Len(s) + Len(t) : h[k] = IF k <= Len(s) THEN s[k] ELSE t[k - Len(s)]
  BY ConcatProperties DEF IsJoin
<1>3. ASSUME NEW i \in 1 .. Len(s) PROVE h[i] = s[i]
  <2>1. i \in 1 .. Len(s) + Len(t) /\ i <= Len(s)
    BY <1>1
  <2> QED
    BY <1>2, <2>1
<1> QED
  BY <1>3

LEMMA JoinRight ==
    ASSUME NEW S, NEW s \in Seq(S), NEW t \in Seq(S), NEW h, IsJoin(h, s, t)
    PROVE  EndsIn(h, s, t)
<1>1. Len(s) \in Nat /\ Len(t) \in Nat
  BY ElementsOf
<1>2. \A k \in 1 .. Len(s) + Len(t) : h[k] = IF k <= Len(s) THEN s[k] ELSE t[k - Len(s)]
  BY ConcatProperties DEF IsJoin
<1>3. ASSUME NEW i \in 1 .. Len(t) PROVE h[Len(s) + i] = t[i]
  <2>1. /\ Len(s) + i \in 1 .. Len(s) + Len(t) /\ ~(Len(s) + i <= Len(s))
        /\ (Len(s) + i) - Len(s) = i
    BY <1>1
  <2>2. PICK k \in 1 .. Len(s) + Len(t) : k = Len(s) + i
    BY <2>1
  <2>3. h[k] = t[k - Len(s)]
    BY <1>2, <2>1, <2>2
  <2> QED
    BY <2>1, <2>2, <2>3
<1> QED
  BY <1>3 DEF EndsIn

Word == {Gap, Sync} \cup {<<"body", im, i>> : im \in Images, i \in Nat}

\* The words of a sector: a gap, its syncs and its body.
LEMMA WordsFacts ==
    ASSUME NEW im \in Images
    PROVE  /\ Words(im) \in Seq(Word) /\ Len(Words(im)) = WordCount(im)
           /\ WordCount(im) \in Nat \ {0}
           /\ Words(im)[1] = Gap
           /\ \A b \in 1 .. im.syncs : Words(im)[1 + b] = Sync
           /\ \A b \in 1 .. im.words : Words(im)[1 + im.syncs + b] = <<"body", im, b>>
<1>1. im.syncs \in Nat /\ im.words \in Nat
  BY ImageFacts, ImageAssumption
<1> DEFINE a == [i \in 1 .. im.syncs |-> Sync]
           b == [i \in 1 .. im.words |-> <<"body", im, i>>]
<1>2. Gap \in Word /\ Sync \in Word /\ \A i \in Nat : <<"body", im, i>> \in Word
  BY DEF Word
<1>3. a \in Seq(Word) /\ Len(a) = im.syncs /\ \A i \in 1 .. im.syncs : a[i] = Sync
  BY <1>1, <1>2
<1>4. b \in Seq(Word) /\ Len(b) = im.words /\ \A i \in 1 .. im.words : b[i] = <<"body", im, i>>
  BY <1>1, <1>2
<1>5. Words(im) = (<<Gap>> \o a) \o b
  BY DEF Words
<1> HIDE DEF a, b
<1> DEFINE g == <<Gap>>
<1>6. g \in Seq(Word) /\ Len(g) = 1 /\ g[1] = Gap
  BY <1>2
<1> HIDE DEF g
<1> DEFINE h == g \o a
<1>7. /\ h \in Seq(Word) /\ Len(h) = 1 + im.syncs /\ h[1] = Gap
      /\ \A i \in 1 .. im.syncs : h[1 + i] = Sync
  <2>1. IsJoin(h, g, a)
    BY DEF IsJoin
  <2> HIDE DEF h
  <2>2. h \in Seq(Word) /\ Len(h) = 1 + im.syncs
    BY <1>3, <1>6, <2>1, JoinLength
  <2>3. \A i \in 1 .. Len(g) : h[i] = g[i]
    BY <1>3, <1>6, <2>1, JoinLeft, Zenon
  <2>4. EndsIn(h, g, a)
    BY <1>3, <1>6, <2>1, JoinRight
  <2> HIDE DEF a, g
  <2>5. h[1] = Gap
    <3>1. 1 \in 1 .. Len(g)
      BY <1>6
    <3>2. h[1] = g[1]
      BY <2>3, <3>1, Zenon
    <3> QED
      BY <1>6, <3>2
  <2>6. ASSUME NEW i \in 1 .. im.syncs PROVE h[1 + i] = Sync
    <3>1. i \in 1 .. Len(a) /\ Len(g) + i = 1 + i
      BY <1>3, <1>6
    <3>2. h[Len(g) + i] = a[i]
      BY <2>4, <3>1, Zenon DEF EndsIn
    <3> QED
      BY <1>3, <3>1, <3>2
  <2> QED
    BY <2>2, <2>5, <2>6
<1> HIDE DEF h
<1> DEFINE w == h \o b
<1>8. /\ w \in Seq(Word) /\ Len(w) = 1 + im.syncs + im.words
      /\ \A i \in 1 .. 1 + im.syncs : w[i] = h[i]
      /\ \A i \in 1 .. im.words : w[1 + im.syncs + i] = b[i]
  <2>1. IsJoin(w, h, b)
    BY DEF IsJoin
  <2> HIDE DEF w
  <2>2. w \in Seq(Word) /\ Len(w) = 1 + im.syncs + im.words
    BY <1>1, <1>4, <1>7, <2>1, JoinLength, SMTT(30)
  <2>3. \A i \in 1 .. Len(h) : w[i] = h[i]
    BY <1>4, <1>7, <2>1, JoinLeft, Zenon
  <2>4. EndsIn(w, h, b)
    BY <1>4, <1>7, <2>1, JoinRight
  <2>5. ASSUME NEW i \in 1 .. 1 + im.syncs PROVE w[i] = h[i]
    BY <1>7, <2>3, Zenon
  <2>6. ASSUME NEW i \in 1 .. im.words PROVE w[1 + im.syncs + i] = b[i]
    <3>1. i \in 1 .. Len(b) /\ Len(h) + i = 1 + im.syncs + i
      BY <1>4, <1>7
    <3>2. w[Len(h) + i] = b[i]
      BY <2>4, <3>1, Zenon DEF EndsIn
    <3> QED
      BY <3>1, <3>2
  <2> QED
    BY <2>2, <2>5, <2>6
<1> HIDE DEF w
<1>10. w[1] = Gap
  <2>1. 1 \in 1 .. 1 + im.syncs
    BY <1>1
  <2> QED
    BY <1>7, <1>8, <2>1
<1>11. ASSUME NEW i \in 1 .. im.syncs PROVE w[1 + i] = Sync
  <2>1. 1 + i \in 1 .. 1 + im.syncs
    BY <1>1
  <2> QED
    BY <1>7, <1>8, <2>1
<1>12. ASSUME NEW i \in 1 .. im.words PROVE w[1 + im.syncs + i] = <<"body", im, i>>
  BY <1>4, <1>8
<1>13. Words(im) = w
  BY <1>5 DEF w, h, g
<1> QED
  BY <1>1, <1>8, <1>10, <1>11, <1>12, <1>13 DEF WordCount

\* A sector begins where those before it end, or later.
LEMMA PlacesOrdered ==
    ASSUME NEW ims \in Seq(Images), NEW at, Places(ims, at)
    PROVE  \A i \in 1 .. Len(ims) : \A j \in i + 1 .. Len(ims) + 1 : at[i] + WordCount(ims[i]) <= at[j]
<1>1. Len(ims) \in Nat
  BY ElementsOf
<1>2. ASSUME NEW i \in 1 .. Len(ims)
      PROVE  at[i] \in Nat /\ WordCount(ims[i]) \in Nat /\ at[i + 1] = at[i] + WordCount(ims[i])
  <2>1. ims[i] \in Images
    BY ElementsOf
  <2>2. WordCount(ims[i]) \in Nat
    BY <2>1, WordsFacts
  <2>3. at[i] \in Nat /\ at[i + 1] = at[i] + WordCount(ims[i])
    BY <1>1 DEF Places
  <2> QED
    BY <2>2, <2>3
<1>3. SUFFICES ASSUME NEW i \in 1 .. Len(ims)
               PROVE  \A j \in i + 1 .. Len(ims) + 1 : at[i] + WordCount(ims[i]) <= at[j]
  OBVIOUS
<1> DEFINE T == {j \in i + 1 .. Len(ims) + 1 : ~(at[i] + WordCount(ims[i]) <= at[j])}
<1>4. SUFFICES ASSUME T # {} PROVE FALSE
  BY <1>4
<1>5. PICK m \in T : \A k \in T : m <= k
  <2>1. T \subseteq Nat
    BY <1>1
  <2> HIDE DEF T
  <2> QED
    BY <1>4, <2>1, SmallestFound
<1>6. m \in i + 1 .. Len(ims) + 1 /\ ~(at[i] + WordCount(ims[i]) <= at[m])
  BY <1>5
<1>7. m # i + 1
  BY <1>2, <1>6
<1>8. m - 1 \in 1 .. Len(ims) /\ m - 1 \in i + 1 .. Len(ims) + 1 /\ m - 1 \notin T
  BY <1>1, <1>5, <1>6, <1>7
<1>9. at[i] + WordCount(ims[i]) <= at[m - 1]
  BY <1>8
<1>10. PICK k \in 1 .. Len(ims) : k = m - 1
  BY <1>8
<1>11. at[k + 1] = at[k] + WordCount(ims[k]) /\ k + 1 = m
  BY <1>1, <1>2, <1>6, <1>10
<1>12. at[i] + WordCount(ims[i]) <= at[k] /\ at[m] = at[k] + WordCount(ims[k])
  BY <1>9, <1>10, <1>11
<1>13. /\ at[i] \in Nat /\ WordCount(ims[i]) \in Nat
       /\ at[k] \in Nat /\ WordCount(ims[k]) \in Nat
  BY <1>2
<1>14. ~(at[i] + WordCount(ims[i]) <= at[m])
  BY <1>6
<1> HIDE DEF T
<1> QED
  BY <1>12, <1>13, <1>14

\* The sequence that is joined has them all, each at its place.
LEMMA StreamLaid ==
    ASSUME NEW ims \in Seq(Images)
    PROVE  \E at : Laid(ims, at)
<1> DEFINE z == Len(ims)
           s == [j \in 1 .. z |-> Words(ims[j])]
<1>1. z \in Nat /\ \A j \in 1 .. z : ims[j] \in Images
  BY ElementsOf
<1>2. ASSUME NEW j \in 1 .. z
      PROVE  /\ s[j] = Words(ims[j]) /\ s[j] \in Seq(Word)
             /\ Len(s[j]) = WordCount(ims[j]) /\ WordCount(ims[j]) \in Nat
  BY <1>1, WordsFacts
<1>3. Len(s) = z
  BY <1>1
<1>4. StreamOf(ims) = FlattenSeq(s)
  BY DEF StreamOf
<1> HIDE DEF s
<1>5. PICK f : Joined(s, z, f) /\ (z # 0 => StreamOf(ims) = f[z])
  <2> DEFINE g == CHOOSE f : Joined(s, Len(s), f)
  <2>1. Len(s) # 0 => FlattenSeq(s) = g[Len(s)]
    BY DEF FlattenSeq, Joined
  <2>2. Joined(s, Len(s), g)
    BY <1>1, <1>3, JoinedFound
  <2> HIDE DEF g
  <2> QED
    BY <1>3, <1>4, <2>1, <2>2
<1>6. \A i \in 1 .. z : f[i] \in Seq(Word)
  BY <1>1, <1>2, <1>5, JoinedType
<1>7. \A i \in 1 .. z : f[i] = IF i = 1 THEN s[i] ELSE f[i - 1] \o s[i]
  BY <1>5 DEF Joined
<1> DEFINE at == [i \in 1 .. z + 1 |-> IF i = 1 THEN 0 ELSE Len(f[i - 1])]
<1>8. /\ at \in [1 .. z + 1 -> Nat] /\ at[1] = 0
      /\ \A i \in 1 .. z : at[i + 1] = Len(f[i])
  <2>1. ASSUME NEW i \in 2 .. z + 1 PROVE Len(f[i - 1]) \in Nat
    <3>1. PICK k \in 1 .. z : k = i - 1
      BY <1>1
    <3> QED
      BY <1>6, <3>1, ElementsOf
  <2> QED
    BY <1>1, <2>1
<1> HIDE DEF at
<1>9. ASSUME NEW i \in 2 .. z
      PROVE  /\ IsJoin(f[i], f[i - 1], s[i]) /\ i - 1 \in 1 .. z
             /\ f[i - 1] \in Seq(Word) /\ Len(f[i - 1]) = at[i]
  <2>1. i \in 1 .. z /\ i # 1 /\ i - 1 \in 1 .. z /\ i - 1 + 1 = i
    BY <1>1
  <2> QED
    BY <1>6, <1>7, <1>8, <2>1 DEF IsJoin
<1>10. Places(ims, at)
  <2>1. ASSUME NEW i \in 1 .. z PROVE at[i + 1] = at[i] + WordCount(ims[i])
    <3>1. CASE i = 1
      BY <1>2, <1>7, <1>8, <3>1
    <3>2. CASE i # 1
      <4>1. i \in 2 .. z
        BY <1>1, <3>2
      <4> HIDE DEF z
      <4>3. IsJoin(f[i], f[i - 1], s[i]) /\ f[i - 1] \in Seq(Word) /\ s[i] \in Seq(Word)
        BY <1>2, <1>9, <4>1
      <4>2. Len(f[i]) = Len(f[i - 1]) + Len(s[i])
        <5> DEFINE h == f[i]
                   x == f[i - 1]
                   y == s[i]
        <5>1. IsJoin(h, x, y) /\ x \in Seq(Word) /\ y \in Seq(Word)
          BY <4>3
        <5> HIDE DEF h, x, y
        <5>2. Len(h) = Len(x) + Len(y)
          BY <5>1, JoinLength
        <5> QED BY <5>2 DEF h, x, y
      <4> QED
        BY <1>2, <1>8, <1>9, <4>1, <4>2
    <3> QED
      BY <3>1, <3>2
  <2> QED
    BY <1>8, <2>1 DEF Places
<1> DEFINE Right(k) == \A i \in 1 .. k : \A b \in 1 .. WordCount(ims[i]) :
                          f[k][at[i] + b] = Words(ims[i])[b]
           T == {k \in 1 .. z : ~Right(k)}
<1>11. T = {}
  <2> SUFFICES ASSUME T # {} PROVE FALSE
    OBVIOUS
  <2> HIDE DEF Right
  <2>1. PICK k \in T : \A m \in T : k <= m
    <3>1. T \subseteq Nat
      OBVIOUS
    <3> HIDE DEF T
    <3> QED
      BY <3>1, SmallestFound
  <2>2. k \in 1 .. z /\ ~Right(k)
    BY <2>1
  <2>3. ASSUME NEW i \in 1 .. k, NEW b \in 1 .. WordCount(ims[i])
        PROVE  f[k][at[i] + b] = Words(ims[i])[b]
    <3>1. CASE k = 1
      <4>1. i = 1 /\ f[k] = s[1] /\ at[i] = 0 /\ at[i] + b = b
        BY <1>2, <1>7, <1>8, <2>2, <3>1
      <4> QED
        BY <1>2, <2>2, <3>1, <4>1
    <3>2. CASE k # 1
      <4>1. k \in 2 .. z /\ k - 1 \in 1 .. z
        BY <1>1, <2>2, <3>2
      <4>2. s[k] \in Seq(Word) /\ Len(s[k]) = WordCount(ims[k]) /\ s[k] = Words(ims[k])
        BY <1>2, <2>2
      <4>3. CASE i = k
        <5>1. EndsIn(f[k], f[k - 1], s[k])
          BY <1>9, <4>1, <4>2, JoinRight
        <5>2. b \in 1 .. Len(s[k])
          BY <4>2, <4>3
        <5>3. f[k][Len(f[k - 1]) + b] = s[k][b]
          BY <5>1, <5>2 DEF EndsIn
        <5> QED
          BY <1>9, <4>1, <4>2, <4>3, <5>3
      <4>4. CASE i # k
        <5>1. k - 1 \notin T
          <6>1. ~(k <= k - 1)
            BY <2>2
          <6> QED
            BY <2>1, <6>1
        <5>2. Right(k - 1) /\ i \in 1 .. k - 1 /\ i \in 1 .. z
          BY <1>1, <2>2, <4>1, <4>4, <5>1
        <5>3. f[k - 1][at[i] + b] = Words(ims[i])[b]
          BY <5>2 DEF Right
        <5>4. at[i] + WordCount(ims[i]) <= at[k] /\ at[i] \in Nat
          <6>1. i \in 1 .. Len(ims) /\ k \in i + 1 .. Len(ims) + 1
            BY <1>1, <2>2, <5>2
          <6>2. at[i] + WordCount(ims[i]) <= at[k]
            BY <1>10, <6>1, PlacesOrdered
          <6>3. i \in 1 .. z + 1
            BY <1>1, <6>1
          <6>4. at[i] \in Nat
            BY <1>8, <6>3
          <6> QED
            BY <6>2, <6>4
        <5>5. \A y \in 1 .. Len(f[k - 1]) : f[k][y] = f[k - 1][y]
          BY <1>9, <4>1, <4>2, JoinLeft
        <5>6. at[i] + b \in 1 .. Len(f[k - 1])
          BY <1>2, <1>9, <4>1, <5>2, <5>4, SMTT(30)
        <5> QED
          BY <5>3, <5>5, <5>6
      <4> QED
        BY <4>3, <4>4
    <3> QED
      BY <3>1, <3>2
  <2> QED
    BY <2>2, <2>3 DEF Right
<1>12. CASE z = 0
  <2>1. StreamOf(ims) = << >>
    <3>1. s = << >>
      BY <1>12 DEF s
    <3>2. FlattenSeq(s) = s
      BY <1>3, <1>12 DEF FlattenSeq
    <3> QED
      BY <1>4, <3>1, <3>2
  <2>2. Len(StreamOf(ims)) = 0
    BY <2>1
  <2>3. at[Len(ims) + 1] = 0 /\ 1 .. Len(ims) = {}
    BY <1>8, <1>12
  <2> QED
    BY <1>10, <2>2, <2>3 DEF Laid, LaidOut
<1>13. CASE z # 0
  <2>1. z \in 1 .. z
    BY <1>1, <1>13
  <2>2. Right(z) /\ StreamOf(ims) = f[z]
    BY <1>5, <1>11, <1>13, <2>1
  <2>3. Len(StreamOf(ims)) = at[z + 1]
    BY <1>8, <2>1, <2>2
  <2> QED
    BY <1>10, <2>2, <2>3 DEF Laid, LaidOut
<1> QED
  BY <1>12, <1>13

\* Every word of a stream belongs to one of its sectors.
LEMMA WordLocated ==
    ASSUME NEW ims \in Seq(Images), NEW at, Laid(ims, at), NEW q \in 1 .. Len(StreamOf(ims))
    PROVE  \E j \in 1 .. Len(ims) :
              /\ at[j] \in Nat /\ WordCount(ims[j]) \in Nat \ {0}
              /\ at[j + 1] = at[j] + WordCount(ims[j])
              /\ q - at[j] \in 1 .. WordCount(ims[j])
<1> DEFINE z == Len(ims)
           T == {m \in 1 .. z : q <= at[m + 1]}
<1>1. z \in Nat /\ at[1] = 0 /\ at[z + 1] \in Nat /\ Len(StreamOf(ims)) = at[z + 1]
  BY ElementsOf DEF Laid, Places
<1>2. ASSUME NEW i \in 1 .. z
      PROVE  /\ at[i] \in Nat /\ WordCount(ims[i]) \in Nat \ {0}
             /\ at[i + 1] = at[i] + WordCount(ims[i])
  <2>1. ims[i] \in Images /\ i \in 1 .. z + 1
    BY <1>1, ElementsOf
  <2> QED
    BY <2>1, WordsFacts DEF Laid, Places
<1>3. z \in T
  <2>1. z # 0
    BY <1>1
  <2> QED
    BY <1>1, <2>1
<1>4. PICK m \in T : \A k \in T : m <= k
  <2>1. T \subseteq Nat
    OBVIOUS
  <2> HIDE DEF T
  <2> QED
    BY <1>3, <2>1, SmallestFound
<1>5. m \in 1 .. z /\ q <= at[m + 1]
  BY <1>4
<1>6. q > at[m]
  <2>1. CASE m = 1
    BY <1>1, <2>1
  <2>2. CASE m # 1
    <3>4. m \in Nat /\ m - 1 \in 1 .. z /\ ~(m <= m - 1)
      BY <1>1, <1>5, <2>2
    <3>1. m - 1 \in 1 .. z /\ m - 1 \notin T
      BY <1>4, <3>4
    <3>2. ~(q <= at[(m - 1) + 1]) /\ (m - 1) + 1 = m
      BY <1>5, <3>1
    <3>3. ~(q <= at[m])
      BY <3>2
    <3> QED
      BY <1>1, <1>2, <1>5, <3>3
  <2> QED
    BY <2>1, <2>2
<1>7. /\ at[m] \in Nat /\ WordCount(ims[m]) \in Nat \ {0}
      /\ at[m + 1] = at[m] + WordCount(ims[m])
  BY <1>2, <1>5
<1>8. q - at[m] \in 1 .. WordCount(ims[m])
  BY <1>1, <1>5, <1>6, <1>7
<1> QED
  BY <1>5, <1>7, <1>8

\* Words are a gap, a sync word, or one of a body.
LEMMA WordKinds == Gap # Sync /\ \A im, b : <<"body", im, b>> # Gap /\ <<"body", im, b>> # Sync
BY DEF Gap, Sync

\* The words of sector j of a stream.
LEMMA SectorWords ==
    ASSUME NEW ims \in Seq(Images), NEW at, Laid(ims, at), NEW j \in 1 .. Len(ims)
    PROVE  LET s == StreamOf(ims) IN
           /\ at[j] \in Nat /\ Len(s) \in Nat /\ ims[j] \in Images
           /\ at[j] + WordCount(ims[j]) <= Len(s)
           /\ s[at[j] + 1] = Gap
           /\ \A b \in 1 .. ims[j].syncs : s[at[j] + (1 + b)] = Sync
           /\ \A b \in 1 .. ims[j].words : s[at[j] + (1 + ims[j].syncs + b)] = <<"body", ims[j], b>>
<1> DEFINE s == StreamOf(ims)
           im == ims[j]
<1>1. Len(ims) \in Nat /\ ims[j] \in Images /\ j \in 1 .. Len(ims) + 1
  BY ElementsOf
<1>2. at[j] \in Nat /\ at[Len(ims) + 1] \in Nat /\ Len(s) = at[Len(ims) + 1]
  BY <1>1 DEF Laid, Places
<1>3. at[j] + WordCount(im) <= Len(s)
  <2>1. Len(ims) + 1 \in j + 1 .. Len(ims) + 1
    BY <1>1
  <2>2. at[j] + WordCount(im) <= at[Len(ims) + 1]
    BY <2>1, PlacesOrdered DEF Laid
  <2> QED
    BY <1>2, <2>2
<1>4. \A b \in 1 .. WordCount(im) : s[at[j] + b] = Words(im)[b]
  BY DEF Laid, LaidOut
<1>5. im.syncs \in Nat /\ im.words \in Nat /\ WordCount(im) = 1 + im.syncs + im.words
  <2>1. im.syncs \in {1, 2} /\ im.words \in 0 .. BodyWords /\ BodyWords \in Nat
    BY <1>1, ImageFacts, ImageAssumption
  <2> HIDE DEF im
  <2> QED
    BY <2>1 DEF WordCount
<1>6. /\ Words(im)[1] = Gap
      /\ \A b \in 1 .. im.syncs : Words(im)[1 + b] = Sync
      /\ \A b \in 1 .. im.words : Words(im)[1 + im.syncs + b] = <<"body", im, b>>
  BY <1>1, WordsFacts
<1> HIDE DEF s, im
<1>7. s[at[j] + 1] = Gap
  <2>1. 1 \in 1 .. WordCount(im)
    BY <1>5
  <2> QED
    BY <1>4, <1>6, <2>1
<1>8. ASSUME NEW b \in 1 .. im.syncs PROVE s[at[j] + (1 + b)] = Sync
  <2>1. 1 + b \in 1 .. WordCount(im)
    BY <1>5
  <2> QED
    BY <1>4, <1>6, <2>1
<1>9. ASSUME NEW b \in 1 .. im.words
      PROVE  s[at[j] + (1 + im.syncs + b)] = <<"body", im, b>>
  <2>1. 1 + im.syncs + b \in 1 .. WordCount(im)
    BY <1>5
  <2> QED
    BY <1>4, <1>6, <2>1
<1> QED
  BY <1>1, <1>2, <1>3, <1>7, <1>8, <1>9 DEF s, im

\* Two sync words are those of one sector.
LEMMA TwoSyncs ==
    ASSUME NEW ims \in Seq(Images), NEW at, Laid(ims, at), NEW q \in 1 .. Len(StreamOf(ims)),
           q + 1 <= Len(StreamOf(ims)), StreamOf(ims)[q] = Sync, StreamOf(ims)[q + 1] = Sync
    PROVE  \E j \in 1 .. Len(ims) :
              /\ ims[j].syncs = 2 /\ at[j] \in Nat /\ q = at[j] + 2
              /\ \A im : q + 2 <= Len(StreamOf(ims)) /\ StreamOf(ims)[q + 2] = <<"body", im, 1>>
                            => im = ims[j]
<1> DEFINE s == StreamOf(ims)
<1>1. Len(s) \in Nat /\ Len(ims) \in Nat
  BY ElementsOf DEF Laid, Places
<1>2. PICK j \in 1 .. Len(ims) :
              /\ at[j] \in Nat /\ WordCount(ims[j]) \in Nat \ {0}
              /\ at[j + 1] = at[j] + WordCount(ims[j])
              /\ q - at[j] \in 1 .. WordCount(ims[j])
  BY WordLocated
<1>3. /\ s[at[j] + 1] = Gap /\ ims[j] \in Images /\ at[j] + WordCount(ims[j]) <= Len(s)
      /\ \A b \in 1 .. ims[j].syncs : s[at[j] + (1 + b)] = Sync
      /\ \A b \in 1 .. ims[j].words : s[at[j] + (1 + ims[j].syncs + b)] = <<"body", ims[j], b>>
  BY SectorWords
<1>4. /\ ims[j].syncs \in {1, 2} /\ ims[j].words \in Nat
      /\ WordCount(ims[j]) = 1 + ims[j].syncs + ims[j].words
  BY <1>3, ImageFacts, ImageAssumption DEF WordCount
\* The word after the sector is a gap.
<1>5. ASSUME at[j] + WordCount(ims[j]) < Len(s)
      PROVE  s[(at[j] + WordCount(ims[j])) + 1] = Gap
  <2>1. j # Len(ims)
    <3>1. Len(s) = at[Len(ims) + 1]
      BY DEF Laid
    <3> QED
      BY <1>1, <1>2, <1>4, <1>5, <3>1
  <2>2. PICK k \in 1 .. Len(ims) : k = j + 1
    BY <1>1, <2>1
  <2>3. s[at[k] + 1] = Gap
    BY SectorWords
  <2> QED
    BY <1>2, <2>2, <2>3
<1> HIDE DEF s
<1>6. PICK o \in Nat, sy \in {1, 2}, wo \in Nat :
          o = at[j] /\ sy = ims[j].syncs /\ wo = ims[j].words
  BY <1>2, <1>4
<1>15. sy \in Nat
  BY <1>6
<1>7. PICK b \in 1 .. 1 + sy + wo : q = o + b
  <2>1. q - o \in 1 .. 1 + sy + wo /\ q = o + (q - o)
    BY <1>2, <1>4, <1>6
  <2> QED
    BY <2>1
<1>8. /\ s[o + 1] = Gap /\ o + (1 + sy + wo) <= Len(s)
      /\ \A x \in 1 .. sy : s[o + (1 + x)] = Sync
      /\ \A x \in 1 .. wo : s[o + (1 + sy + x)] = <<"body", ims[j], x>>
      /\ o + (1 + sy + wo) < Len(s) => s[(o + (1 + sy + wo)) + 1] = Gap
  BY <1>3, <1>4, <1>5, <1>6
<1>9. s[o + b] = Sync /\ s[o + (b + 1)] = Sync /\ o + (b + 1) <= Len(s)
  <2>1. q + 1 = o + (b + 1)
    BY <1>7
  <2> QED
    BY <1>7, <2>1 DEF s
\* What is neither the gap nor of the body is a sync word.
<1>10. ASSUME NEW c \in 1 .. 1 + sy + wo, s[o + c] = Sync
       PROVE  c \in 2 .. 1 + sy
  <2>1. c # 1
    BY <1>8, <1>10, WordKinds
  <2>2. ~(c > 1 + sy)
    <3> SUFFICES ASSUME c > 1 + sy PROVE FALSE
      OBVIOUS
    <3>1. PICK x \in 1 .. wo : c = 1 + sy + x
      <4>1. c - (1 + sy) \in 1 .. wo /\ c = 1 + sy + (c - (1 + sy))
        BY <1>15
      <4> QED
        BY <4>1
    <3>2. s[o + c] = <<"body", ims[j], x>>
      BY <1>8, <3>1
    <3> QED
      BY <1>10, <3>2, WordKinds
  <2> QED
    BY <1>6, <2>1, <2>2
<1>11. b \in 2 .. 1 + sy
  BY <1>9, <1>10
<1>12. b + 1 \in 2 .. 1 + sy
  <2>1. CASE b + 1 <= 1 + sy + wo
    <3>1. b + 1 \in 1 .. 1 + sy + wo
      BY <1>15, <2>1
    <3>2. s[o + (b + 1)] = Sync
      BY <1>9
    <3> QED
      BY <1>10, <3>1, <3>2
  <2>2. CASE b + 1 > 1 + sy + wo
    <3>1. b = 1 + sy + wo
      BY <1>15, <2>2
    <3>4. Len(s) \in Nat
      BY <1>1 DEF s
    <3>2. o + (1 + sy + wo) < Len(s) /\ o + (b + 1) = (o + (1 + sy + wo)) + 1
      BY <1>15, <1>9, <3>1, <3>4
    <3>3. s[o + (b + 1)] = Gap
      BY <1>8, <3>2
    <3> QED
      BY <1>9, <3>3, WordKinds
  <2> QED
    BY <1>6, <1>7, <2>1, <2>2, SMTT(30)
<1>13. sy = 2 /\ b = 2 /\ q = o + 2
  BY <1>6, <1>7, <1>11, <1>12
<1>14. ASSUME NEW im, q + 2 <= Len(s), s[q + 2] = <<"body", im, 1>>
       PROVE  im = ims[j]
  <2>1. CASE wo = 0
    <3>1. q + 2 = (o + (1 + sy + wo)) + 1 /\ o + (1 + sy + wo) < Len(s)
      BY <1>1, <1>13, <1>14, <2>1 DEF s
    <3>2. s[q + 2] = Gap
      BY <1>8, <3>1
    <3> QED
      BY <1>14, <3>2, WordKinds
  <2>2. CASE wo # 0
    <3>1. q + 2 = o + (1 + sy + 1) /\ 1 \in 1 .. wo
      BY <1>6, <1>13, <2>2, SMTT(30)
    <3>2. s[q + 2] = <<"body", ims[j], 1>>
      BY <1>8, <3>1
    <3> QED
      BY <1>14, <3>2
  <2> QED
    BY <2>1, <2>2
<1> QED
  BY <1>2, <1>6, <1>13, <1>14 DEF s

-----------------------------------------------------------------------------
(* The search for sectors in that stream.                                   *)

\* What the search for sectors does after the first p words of a core's stream.

\* The words behind two sync words that the driver takes for a sector do not
\* reach the next one's: no broken sector is shorter by more than a word.
NearlyWhole == \A im \in Images : im.words >= BodyWords - 1

GoodOne(w, i) == w.images[i].syncs = 2 /\ Intact(w.images[i], w.track)
PlaceOf(w, i) == <<w.images[i].track, w.images[i].sector>>

\* In state s it has seen a sync word last; between the two sync words of an
\* intact sector it is in state 1, before them in state 0.
InSearch(w, at, p, s) ==
    /\ s = 1 /\ p >= 1 => StreamOf(w.images)[p] = Sync
    /\ \A i \in DOMAIN w.images : GoodOne(w, i) =>
          (p = at[i] + 2 => s = 1) /\ (p = at[i] + 1 => s = 0)

\* Of the intact sectors it has gone past the last ones of each place are there.
Past(w, at, p, i) == GoodOne(w, i) /\ p > at[i] + 2
Kept(w, at, p, data) ==
    \A i \in DOMAIN w.images :
        /\ Past(w, at, p, i)
        /\ \A j \in DOMAIN w.images : j > i /\ Past(w, at, p, j) => PlaceOf(w, i) # PlaceOf(w, j)
        => data[PlaceOf(w, i)] = w.images[i].data

\* Of the intact sectors but j, none begins in the words from p to r.
Apart(w, at, p, r, j) ==
    \A i \in DOMAIN w.images : GoodOne(w, i) /\ i # j => p > at[i] + 2 \/ r <= at[i] + 2
\* The sector that has its two sync words up to p and the next.
Begun(w, p, j) ==
    \A im : p + 2 <= Len(StreamOf(w.images)) /\ StreamOf(w.images)[p + 2] = <<"body", im, 1>>
              => im = w.images[j]
\* A disk on which sector j was written.
Replaced(w, j, data, new) ==
    /\ new[PlaceOf(w, j)] = w.images[j].data
    /\ \A i \in DOMAIN w.images :
          GoodOne(w, i) /\ PlaceOf(w, i) # PlaceOf(w, j) => new[PlaceOf(w, i)] = data[PlaceOf(w, i)]

LEMMA WritingFacts ==
    ASSUME NEW w \in Writings
    PROVE  /\ w.images \in Seq(Images) /\ Len(w.images) \in Nat
           /\ DOMAIN w.images = 1 .. Len(w.images)
<1>1. w.images \in Seq(Images)
  BY DEF Writings
<1> QED
  BY <1>1

\* An intact sector.
LEMMA GoodWords ==
    ASSUME NEW w \in Writings, NEW at, Laid(w.images, at), NEW i \in DOMAIN w.images, GoodOne(w, i)
    PROVE  LET s == StreamOf(w.images) IN
           /\ at[i] \in Nat /\ Len(s) \in Nat /\ BodyWords \in Nat \ {0}
           /\ (at[i] + 3) + BodyWords <= Len(s)
           /\ s[at[i] + 1] = Gap /\ s[at[i] + 2] = Sync /\ s[at[i] + 3] = Sync
           /\ \A b \in 1 .. BodyWords : s[at[i] + (3 + b)] = <<"body", w.images[i], b>>
<1> DEFINE s == StreamOf(w.images)
           im == w.images[i]
<1>1. w.images \in Seq(Images) /\ i \in 1 .. Len(w.images)
  BY WritingFacts
<1>2. /\ at[i] \in Nat /\ Len(s) \in Nat /\ im \in Images
      /\ at[i] + WordCount(im) <= Len(s) /\ s[at[i] + 1] = Gap
      /\ \A b \in 1 .. im.syncs : s[at[i] + (1 + b)] = Sync
      /\ \A b \in 1 .. im.words : s[at[i] + (1 + im.syncs + b)] = <<"body", im, b>>
  BY <1>1, SectorWords
<1>3. im.syncs = 2 /\ im.words = BodyWords /\ BodyWords \in Nat \ {0}
  BY ImageAssumption DEF GoodOne, Intact
<1> HIDE DEF s, im
<1>4. (at[i] + 3) + BodyWords <= Len(s)
  BY <1>2, <1>3 DEF WordCount
<1>5. s[at[i] + (1 + 1)] = Sync /\ s[at[i] + (1 + 2)] = Sync
  BY <1>2, <1>3
<1>6. s[at[i] + 2] = Sync /\ s[at[i] + 3] = Sync
  BY <1>5
<1>7. \A b \in 1 .. BodyWords : s[at[i] + (3 + b)] = <<"body", im, b>>
  <2>1. ASSUME NEW b \in 1 .. BodyWords PROVE s[at[i] + (3 + b)] = <<"body", im, b>>
    <3>1. b \in 1 .. im.words /\ 1 + im.syncs + b = 3 + b
      BY <1>3
    <3>2. s[at[i] + (1 + im.syncs + b)] = <<"body", im, b>>
      BY <1>2, <3>1
    <3> QED
      BY <3>1, <3>2, Zenon
  <2> QED
    BY <2>1
<1> QED
  BY <1>2, <1>3, <1>4, <1>6, <1>7 DEF s, im

\* Nothing was found before the first word.
LEMMA SearchBegins ==
    ASSUME NEW w \in Writings, NEW at, Laid(w.images, at), NEW s \in {0, 1}, NEW data
    PROVE  InSearch(w, at, 0, s) /\ Kept(w, at, 0, data)
<1>1. \A i \in DOMAIN w.images : at[i] \in Nat
  BY WritingFacts, SectorWords
<1>2. InSearch(w, at, 0, s)
  BY <1>1 DEF InSearch
<1>3. \A i \in DOMAIN w.images : ~Past(w, at, 0, i)
  BY <1>1 DEF Past
<1> QED
  BY <1>2, <1>3 DEF Kept

\* Words in which no intact sector begins.
LEMMA KeptOn ==
    ASSUME NEW w \in Writings, NEW at, Laid(w.images, at), NEW data, NEW p \in Nat, NEW r \in Nat,
           Kept(w, at, p, data), p <= r,
           \A i \in DOMAIN w.images : GoodOne(w, i) => p > at[i] + 2 \/ r <= at[i] + 2
    PROVE  Kept(w, at, r, data)
<1>1. \A i \in DOMAIN w.images : at[i] \in Nat
  BY WritingFacts, SectorWords
<1>2. \A i \in DOMAIN w.images : Past(w, at, r, i) <=> Past(w, at, p, i)
  BY <1>1 DEF Past
<1> QED
  BY <1>2 DEF Kept

\* State 0: no sync word among the next words.
LEMMA NoneFound ==
    ASSUME NEW w \in Writings, NEW at, Laid(w.images, at), NEW data, NEW p \in Nat,
           InSearch(w, at, p, 0), Kept(w, at, p, data),
           NEW r \in p .. Len(StreamOf(w.images)),
           \A q \in p + 1 .. r : StreamOf(w.images)[q] # Sync
    PROVE  InSearch(w, at, r, 0) /\ Kept(w, at, r, data)
<1>1. r \in Nat /\ p <= r
  BY DEF Laid, Places
<1>2. ASSUME NEW i \in DOMAIN w.images, GoodOne(w, i)
      PROVE  r # at[i] + 2 /\ (p > at[i] + 2 \/ r <= at[i] + 2)
  <2>1. at[i] \in Nat /\ StreamOf(w.images)[at[i] + 2] = Sync
    BY <1>2, GoodWords
  <2>2. p # at[i] + 2
    BY <1>2 DEF InSearch
  <2>3. at[i] + 2 \notin p + 1 .. r
    BY <2>1
  <2> QED
    BY <1>1, <2>1, <2>2, <2>3
<1> QED
  BY <1>1, <1>2, KeptOn DEF InSearch

\* State 0: the first sync word.
LEMMA FirstFound ==
    ASSUME NEW w \in Writings, NEW at, Laid(w.images, at), NEW data, NEW p \in Nat,
           InSearch(w, at, p, 0), Kept(w, at, p, data),
           NEW r \in p + 1 .. Len(StreamOf(w.images)),
           StreamOf(w.images)[r] = Sync,
           \A q \in p + 1 .. r - 1 : StreamOf(w.images)[q] # Sync
    PROVE  InSearch(w, at, r, 1) /\ Kept(w, at, r, data)
<1>1. r \in Nat /\ p <= r
  BY DEF Laid, Places
<1>2. ASSUME NEW i \in DOMAIN w.images, GoodOne(w, i)
      PROVE  r # at[i] + 1 /\ (p > at[i] + 2 \/ r <= at[i] + 2)
  <2>1. /\ at[i] \in Nat /\ StreamOf(w.images)[at[i] + 2] = Sync
        /\ StreamOf(w.images)[at[i] + 1] = Gap
    BY <1>2, GoodWords
  <2>2. p # at[i] + 2
    BY <1>2 DEF InSearch
  <2>3. at[i] + 2 \notin p + 1 .. r - 1
    BY <2>1
  <2>4. r # at[i] + 1
    BY <2>1, WordKinds
  <2> QED
    BY <1>1, <2>1, <2>2, <2>3, <2>4
<1> QED
  BY <1>1, <1>2, KeptOn DEF InSearch

\* State 1, and the rest is too short for a sector.
LEMMA RestTooShort ==
    ASSUME NEW w \in Writings, NEW at, Laid(w.images, at), NEW p \in Nat,
           InSearch(w, at, p, 1), Len(StreamOf(w.images)) < p + BodyWords
    PROVE  InSearch(w, at, p, 0)
<1>1. ASSUME NEW i \in DOMAIN w.images, GoodOne(w, i) PROVE p # at[i] + 2
  <2>1. /\ at[i] \in Nat /\ Len(StreamOf(w.images)) \in Nat /\ BodyWords \in Nat
        /\ (at[i] + 3) + BodyWords <= Len(StreamOf(w.images))
    BY <1>1, GoodWords
  <2> QED
    BY <2>1
<1> QED
  BY <1>1 DEF InSearch

\* State 1, and no second sync word.
LEMMA NoSecond ==
    ASSUME NEW w \in Writings, NEW at, Laid(w.images, at), NEW data, NEW p \in Nat,
           InSearch(w, at, p, 1), Kept(w, at, p, data),
           StreamOf(w.images)[p + 1] # Sync
    PROVE  InSearch(w, at, p + 1, 0) /\ Kept(w, at, p + 1, data)
<1>1. ASSUME NEW i \in DOMAIN w.images, GoodOne(w, i)
      PROVE  p + 1 # at[i] + 2 /\ (p > at[i] + 2 \/ p + 1 <= at[i] + 2)
  <2>1. /\ at[i] \in Nat /\ StreamOf(w.images)[at[i] + 2] = Sync
        /\ StreamOf(w.images)[at[i] + 3] = Sync
    BY <1>1, GoodWords
  <2>2. p # at[i] + 1 /\ p # at[i] + 2
    BY <2>1
  <2> QED
    BY <2>1, <2>2
<1>2. p + 1 \in Nat /\ p <= p + 1
  OBVIOUS
<1> QED
  BY <1>1, <1>2, KeptOn DEF InSearch

\* A sector of m words, and k words from its second sync word.
LEMMA BeforeNext ==
    ASSUME NEW a \in Nat, NEW c \in Nat, NEW m \in Nat, NEW z \in Nat, NEW k \in Nat, NEW p \in Nat,
           a + (3 + m) <= c, p = a + 2, k <= z + 1, m >= z - 1
    PROVE  p + k < c + 2
OBVIOUS

\* State 1 and the second sync word, and the words of a sector or all but one.
LEMMA BodyRead ==
    ASSUME NearlyWhole, NEW w \in Writings, NEW at, Laid(w.images, at), NEW p \in Nat,
           InSearch(w, at, p, 1), StreamOf(w.images)[p + 1] = Sync,
           NEW k \in {BodyWords, BodyWords + 1}, p + k <= Len(StreamOf(w.images))
    PROVE  \E j \in DOMAIN w.images :
              /\ p = at[j] + 2 /\ w.images[j].syncs = 2
              /\ Begun(w, p, j) /\ InSearch(w, at, p + k, 0) /\ Apart(w, at, p, p + k, j)
<1> DEFINE s == StreamOf(w.images)
<1>1. /\ w.images \in Seq(Images) /\ Len(w.images) \in Nat
      /\ DOMAIN w.images = 1 .. Len(w.images)
  BY WritingFacts
<1>2. BodyWords \in Nat \ {0} /\ k \in Nat \ {0} /\ k >= BodyWords /\ k <= BodyWords + 1
  BY ImageAssumption
<1>3. Len(s) \in Nat /\ at[1] = 0
  BY <1>1 DEF Laid, Places
<1>4. p # 0
  <2> SUFFICES ASSUME p = 0 PROVE FALSE
    OBVIOUS
  <2>1. Len(w.images) # 0
    <3>1. Len(s) # 0 /\ Len(s) = at[Len(w.images) + 1]
      BY <1>2, <1>3 DEF Laid
    <3> QED
      BY <1>3, <3>1
  <2>2. 1 \in 1 .. Len(w.images)
    BY <1>1, <2>1
  <2>3. s[at[1] + 1] = Gap
    BY <1>1, <2>2, SectorWords
  <2> QED
    BY <1>3, <2>3, WordKinds
<1>5. s[p] = Sync /\ p \in 1 .. Len(s) /\ p + 1 <= Len(s)
  BY <1>2, <1>3, <1>4 DEF InSearch
<1>6. PICK j \in 1 .. Len(w.images) :
          /\ w.images[j].syncs = 2 /\ at[j] \in Nat /\ p = at[j] + 2
          /\ \A im : p + 2 <= Len(s) /\ s[p + 2] = <<"body", im, 1>> => im = w.images[j]
  BY <1>1, <1>5, TwoSyncs
<1>7. ASSUME NEW i \in DOMAIN w.images, GoodOne(w, i), i # j
      PROVE  p > at[i] + 2 \/ p + k < at[i] + 2
  <2>1. at[i] \in Nat /\ i \in 1 .. Len(w.images)
    BY <1>1, SectorWords
  <2>2. CASE i < j
    <3>1. j \in i + 1 .. Len(w.images) + 1
      BY <1>1, <2>1, <2>2
    <3>2. at[i] + WordCount(w.images[i]) <= at[j]
      BY <1>1, <2>1, <3>1, PlacesOrdered DEF Laid
    <3>3. WordCount(w.images[i]) \in Nat \ {0}
      BY <1>1, <2>1, ElementsOf, WordsFacts
    <3> QED
      BY <1>6, <2>1, <3>2, <3>3, SMTT(30)
  <2>3. CASE j < i
    <3>1. i \in j + 1 .. Len(w.images) + 1
      BY <1>1, <2>1, <2>3
    <3>2. at[j] + WordCount(w.images[j]) <= at[i]
      BY <1>1, <3>1, PlacesOrdered DEF Laid
    <3>3. w.images[j] \in Images
      BY <1>1, ElementsOf
    <3>6. w.images[j].words \in 0 .. BodyWords
      BY <3>3, ImageFacts
    <3>7. w.images[j].words >= BodyWords - 1
      BY <3>3 DEF NearlyWhole
    <3>4. w.images[j].words \in Nat /\ w.images[j].words >= BodyWords - 1
      BY <1>2, <3>6, <3>7
    <3>8. PICK m \in Nat : m = w.images[j].words /\ m >= BodyWords - 1
      BY <3>4
    <3>9. WordCount(w.images[j]) = 3 + m
      <4>1. WordCount(w.images[j]) = 1 + 2 + m
        BY <1>6, <3>8 DEF WordCount
      <4> QED
        BY <4>1, <3>8
    <3>10. PICK a \in Nat, c \in Nat : a = at[j] /\ c = at[i]
      BY <1>6, <2>1
    <3>11. a + (3 + m) <= c /\ p = a + 2
      BY <1>6, <3>2, <3>9, <3>10
    <3>12. PICK z \in Nat, y \in Nat : z = BodyWords /\ y = k /\ y <= z + 1 /\ m >= z - 1
      BY <1>2, <3>8
    <3>13. p + y < c + 2
      BY <3>11, <3>12, BeforeNext
    <3> QED
      BY <3>10, <3>12, <3>13
  <2> QED
    BY <1>7, <2>1, <2>2, <2>3
<1>8. InSearch(w, at, p + k, 0)
  <2>1. ASSUME NEW i \in DOMAIN w.images, GoodOne(w, i) PROVE p + k # at[i] + 2
    <3>1. at[i] \in Nat
      BY <1>1, SectorWords
    <3>2. CASE i = j
      BY <1>2, <1>6, <3>1, <3>2
    <3>3. CASE i # j
      BY <1>2, <1>7, <2>1, <3>1, <3>3
    <3> QED
      BY <3>2, <3>3
  <2> QED
    BY <2>1 DEF InSearch
<1>9. \A i \in DOMAIN w.images : GoodOne(w, i) /\ i # j => p > at[i] + 2 \/ p + k <= at[i] + 2
  <2>1. ASSUME NEW i \in DOMAIN w.images, GoodOne(w, i), i # j
        PROVE  p > at[i] + 2 \/ p + k <= at[i] + 2
    <3>1. at[i] \in Nat
      BY <1>1, SectorWords
    <3> QED
      BY <1>2, <1>7, <2>1, <3>1
  <2> QED
    BY <2>1
<1>10. Apart(w, at, p, p + k, j) /\ Begun(w, p, j)
  BY <1>6, <1>9 DEF Apart, Begun
<1>11. j \in DOMAIN w.images /\ p = at[j] + 2 /\ w.images[j].syncs = 2
  BY <1>1, <1>6
<1> QED
  BY <1>8, <1>10, <1>11, Zenon

\* An intact sector that was read is on the disk.
LEMMA KeptWritten ==
    ASSUME NEW w \in Writings, NEW at, Laid(w.images, at), NEW data, NEW new,
           NEW p \in Nat, NEW r \in Nat, p < r,
           NEW j \in DOMAIN w.images, GoodOne(w, j), p = at[j] + 2,
           Apart(w, at, p, r, j), Kept(w, at, p, data), Replaced(w, j, data, new)
    PROVE  Kept(w, at, r, new)
<1>0. /\ \A i \in DOMAIN w.images : GoodOne(w, i) /\ i # j => p > at[i] + 2 \/ r <= at[i] + 2
      /\ new[PlaceOf(w, j)] = w.images[j].data
      /\ \A i \in DOMAIN w.images :
            GoodOne(w, i) /\ PlaceOf(w, i) # PlaceOf(w, j) => new[PlaceOf(w, i)] = data[PlaceOf(w, i)]
  BY DEF Apart, Replaced
<1>1. /\ w.images \in Seq(Images) /\ Len(w.images) \in Nat
      /\ DOMAIN w.images = 1 .. Len(w.images)
  BY WritingFacts
<1>2. ASSUME NEW i \in DOMAIN w.images, Past(w, at, r, i),
             \A m \in DOMAIN w.images : m > i /\ Past(w, at, r, m) => PlaceOf(w, i) # PlaceOf(w, m)
      PROVE  new[PlaceOf(w, i)] = w.images[i].data
  <2>1. CASE i = j
    BY <1>0, <2>1
  <2>2. CASE i # j
    <3>1. at[i] \in Nat /\ at[j] \in Nat
      BY <1>1, SectorWords
    <3>2. GoodOne(w, i) /\ r > at[i] + 2
      BY <1>2 DEF Past
    <3>3. p > at[i] + 2
      BY <1>0, <2>2, <3>1, <3>2
    <3>4. i < j
      <4> SUFFICES ASSUME j < i PROVE FALSE
        BY <1>1, <2>2
      <4>1. i \in j + 1 .. Len(w.images) + 1
        BY <1>1
      <4>2. at[j] + WordCount(w.images[j]) <= at[i]
        BY <1>1, <4>1, PlacesOrdered DEF Laid
      <4>3. WordCount(w.images[j]) \in Nat
        BY <1>1, ElementsOf, WordsFacts
      <4> QED
        BY <3>1, <3>3, <4>2, <4>3
    <3>5. PlaceOf(w, i) # PlaceOf(w, j)
      <4>1. Past(w, at, r, j)
        BY DEF Past
      <4> QED
        BY <1>1, <1>2, <3>4, <4>1
    <3>6. Past(w, at, p, i)
      BY <3>2, <3>3 DEF Past
    <3>7. ASSUME NEW m \in DOMAIN w.images, m > i, Past(w, at, p, m)
          PROVE  PlaceOf(w, i) # PlaceOf(w, m)
      <4>1. at[m] \in Nat
        BY <1>1, SectorWords
      <4>2. Past(w, at, r, m)
        BY <3>7, <4>1 DEF Past
      <4> QED
        BY <1>2, <3>7, <4>2
    <3>8. data[PlaceOf(w, i)] = w.images[i].data
      BY <3>6, <3>7 DEF Kept
    <3> QED
      BY <1>0, <3>2, <3>5, <3>8
  <2> QED
    BY <2>1, <2>2
<1> QED
  BY <1>2 DEF Kept

-----------------------------------------------------------------------------
(* The search and the words that the core still has.                        *)

\* What the core still has to hand over are the words of its sectors behind the
\* first p; what the driver has found in those is on the disk.
Remains(ims, rest, p) ==
    /\ p \in Nat /\ Len(StreamOf(ims)) = p + Len(rest)
    /\ \A i \in 1 .. Len(rest) : rest[i] = StreamOf(ims)[p + i]
SectorsFound(w, p, s, v) ==
    /\ w.drive \in FloppyDrive /\ v.format = "adf" /\ ~v.prot
    /\ \A at : Laid(w.images, at) => InSearch(w, at, p, s) /\ Kept(w, at, p, v.data)
Expected(w) == w.clean /\ w.images # << >>
Searched(w, rest, p, s, v) ==
    Remains(w.images, rest, p) /\ (Expected(w) => SectorsFound(w, p, s, v))
Progress(w, rest, s, v) == \E p : Searched(w, rest, p, s, v)

LEMMA RestShrinks ==
    ASSUME NEW T, NEW rest \in Seq(T), NEW ims \in Seq(Images), NEW p, Remains(ims, rest, p),
           NEW k \in 0 .. Len(rest)
    PROVE  Remains(ims, SubSeq(rest, k + 1, Len(rest)), p + k)
<1> DEFINE tail == SubSeq(rest, k + 1, Len(rest))
<1>1. Len(rest) \in Nat /\ k \in Nat /\ p \in Nat /\ k <= Len(rest)
  BY ElementsOf DEF Remains
<1>2. \A i \in k + 1 .. Len(rest) : rest[i] \in T
  BY <1>1, ElementsOf
<1>3. k + 1 \in Int /\ Len(rest) \in Int
  BY <1>1
<1>4. /\ Len(tail) = IF k + 1 <= Len(rest) THEN Len(rest) - (k + 1) + 1 ELSE 0
      /\ \A i \in 1 .. Len(rest) - (k + 1) + 1 : tail[i] = rest[(k + 1) + i - 1]
  BY <1>2, <1>3, SubSeqProperties
<1> HIDE DEF tail
<1>5. Len(tail) = Len(rest) - k
  BY <1>1, <1>4
<1>6. ASSUME NEW i \in 1 .. Len(tail) PROVE tail[i] = StreamOf(ims)[(p + k) + i]
  <2>1. /\ i \in 1 .. Len(rest) - (k + 1) + 1 /\ (k + 1) + i - 1 = k + i
        /\ k + i \in 1 .. Len(rest) /\ p + (k + i) = (p + k) + i
    BY <1>1, <1>5
  <2>2. tail[i] = rest[k + i]
    BY <1>4, <2>1
  <2>3. rest[k + i] = StreamOf(ims)[p + (k + i)]
    BY <2>1 DEF Remains
  <2> QED
    BY <2>1, <2>2, <2>3
<1>7. p + k \in Nat /\ Len(StreamOf(ims)) = (p + k) + Len(tail)
  <2>1. Len(StreamOf(ims)) = p + Len(rest)
    BY DEF Remains
  <2> QED
    BY <1>1, <1>5, <2>1
<1> QED
  BY <1>6, <1>7 DEF Remains, tail

\* The words that come next.
LEMMA NextWords ==
    ASSUME NEW T, NEW rest \in Seq(T), NEW ims \in Seq(Images), NEW p, Remains(ims, rest, p)
    PROVE  /\ p \in Nat /\ Len(rest) \in Nat /\ Len(StreamOf(ims)) \in Nat
           /\ p + Len(rest) = Len(StreamOf(ims))
           /\ \A k \in 1 .. Len(rest) : p + k <= Len(StreamOf(ims)) /\ rest[k] = StreamOf(ims)[p + k]
<1>1. Len(rest) \in Nat /\ p \in Nat /\ Len(StreamOf(ims)) = p + Len(rest)
  BY ElementsOf DEF Remains
<1> QED
  BY <1>1 DEF Remains

\* A core that begins to write.
LEMMA BeginsToWrite ==
    ASSUME NEW w \in Writings, NEW s \in {0, 1}, NEW v,
           Expected(w) => w.drive \in FloppyDrive /\ v.format = "adf" /\ ~v.prot
    PROVE  Progress(w, StreamOf(w.images), s, v)
<1>1. w.images \in Seq(Images)
  BY WritingFacts
<1>2. StreamOf(w.images) \in Seq(WordsOf(w.images))
  BY <1>1, StreamType
<1>3. Len(StreamOf(w.images)) \in Nat
  BY <1>2, ElementsOf
<1>4. Remains(w.images, StreamOf(w.images), 0)
  BY <1>3 DEF Remains
<1>5. Expected(w) => SectorsFound(w, 0, s, v)
  BY SearchBegins DEF SectorsFound
<1>6. Searched(w, StreamOf(w.images), 0, s, v)
  BY <1>4, <1>5 DEF Searched
<1> QED
  BY <1>6 DEF Progress

LEMMA NothingExpected ==
    ASSUME NEW s, NEW v
    PROVE  Progress(Nothing, << >>, s, v)
<1>1. << >> \in Seq(Images) /\ Len(<< >>) = 0
  OBVIOUS
<1>2. PICK at : Laid(<< >>, at)
  BY <1>1, StreamLaid
<1>3. Len(StreamOf(<< >>)) = 0
  BY <1>1, <1>2 DEF Laid, Places
<1>4. Remains(Nothing.images, << >>, 0)
  BY <1>1, <1>3 DEF Remains, Nothing
<1>5. ~Expected(Nothing)
  BY DEF Expected, Nothing
<1> QED
  BY <1>4, <1>5 DEF Progress, Searched

\* What is no longer expected.
LEMMA NoLongerExpected ==
    ASSUME NEW w \in Writings, NEW u \in Writings, u.images = w.images, ~u.clean, NEW rest,
           NEW s, NEW v, Progress(w, rest, s, v), NEW z, NEW x
    PROVE  Progress(u, rest, z, x)
BY DEF Progress, Searched, Expected

\* The state does not matter for the words themselves.
LEMMA WordsTaken ==
    ASSUME NEW T, NEW rest \in Seq(T), NEW w \in Writings, NEW p, NEW s, NEW v,
           Searched(w, rest, p, s, v), NEW k \in 0 .. Len(rest), NEW z, NEW x,
           Expected(w) => SectorsFound(w, p + k, z, x)
    PROVE  Progress(w, SubSeq(rest, k + 1, Len(rest)), z, x)
<1>1. w.images \in Seq(Images) /\ Remains(w.images, rest, p)
  BY WritingFacts DEF Searched
<1>2. Remains(w.images, SubSeq(rest, k + 1, Len(rest)), p + k)
  BY <1>1, RestShrinks
<1> QED
  BY <1>2 DEF Searched, Progress

\* State 0: none of the words that were announced is a sync word.
LEMMA NoSync ==
    ASSUME NEW T, NEW rest \in Seq(T), NEW w \in Writings, NEW v, Progress(w, rest, 0, v),
           NEW k \in 0 .. Len(rest), \A i \in 1 .. k : rest[i] # Sync
    PROVE  Progress(w, SubSeq(rest, k + 1, Len(rest)), 0, v)
<1>1. PICK p : Searched(w, rest, p, 0, v)
  BY DEF Progress
<1>2. w.images \in Seq(Images) /\ Remains(w.images, rest, p)
  BY <1>1, WritingFacts DEF Searched
<1> DEFINE S == StreamOf(w.images)
<1>3. /\ p \in Nat /\ Len(rest) \in Nat /\ Len(S) \in Nat /\ p + Len(rest) = Len(S)
      /\ \A i \in 1 .. Len(rest) : rest[i] = S[p + i]
  BY <1>2, NextWords
<1> HIDE DEF S
<1>4. k \in Nat /\ k <= Len(rest) /\ p + k \in p .. Len(S)
  BY <1>3
<1>5. ASSUME NEW q \in p + 1 .. p + k PROVE S[q] # Sync
  <2>1. PICK i \in 1 .. k : q = p + i
    <3>1. q - p \in 1 .. k /\ q = p + (q - p)
      BY <1>3, <1>4
    <3> QED
      BY <3>1
  <2>2. i \in 1 .. Len(rest)
    BY <1>3, <1>4
  <2> QED
    BY <1>3, <2>1, <2>2
<1>6. ASSUME SectorsFound(w, p, 0, v) PROVE SectorsFound(w, p + k, 0, v)
  <2>1. ASSUME NEW at, Laid(w.images, at)
        PROVE  InSearch(w, at, p + k, 0) /\ Kept(w, at, p + k, v.data)
    <3>1. InSearch(w, at, p, 0) /\ Kept(w, at, p, v.data)
      BY <1>6, <2>1 DEF SectorsFound
    <3> DEFINE r == p + k
    <3>2. r \in p .. Len(StreamOf(w.images)) /\ \A q \in p + 1 .. r : StreamOf(w.images)[q] # Sync
      BY <1>4, <1>5 DEF S
    <3> HIDE DEF r
    <3>3. InSearch(w, at, r, 0) /\ Kept(w, at, r, v.data)
      BY <1>3, <2>1, <3>1, <3>2, NoneFound
    <3> QED
      BY <3>3 DEF r
  <2> QED
    BY <1>6, <2>1 DEF SectorsFound
<1>7. Expected(w) => SectorsFound(w, p + k, 0, v)
  BY <1>1, <1>6 DEF Searched
<1> QED
  BY <1>1, <1>7, WordsTaken

\* State 0: the first of them that is.
LEMMA FirstSync ==
    ASSUME NEW T, NEW rest \in Seq(T), NEW w \in Writings, NEW v, Progress(w, rest, 0, v),
           NEW k \in 1 .. Len(rest), rest[k] = Sync, \A i \in 1 .. k - 1 : rest[i] # Sync
    PROVE  Progress(w, SubSeq(rest, k + 1, Len(rest)), 1, v)
<1>1. PICK p : Searched(w, rest, p, 0, v)
  BY DEF Progress
<1>2. w.images \in Seq(Images) /\ Remains(w.images, rest, p)
  BY <1>1, WritingFacts DEF Searched
<1> DEFINE S == StreamOf(w.images)
<1>3. /\ p \in Nat /\ Len(rest) \in Nat /\ Len(S) \in Nat /\ p + Len(rest) = Len(S)
      /\ \A i \in 1 .. Len(rest) : rest[i] = S[p + i]
  BY <1>2, NextWords
<1> HIDE DEF S
<1>4. k \in Nat /\ k <= Len(rest) /\ k \in 0 .. Len(rest) /\ p + k \in p + 1 .. Len(S)
  BY <1>3
<1>5. ASSUME NEW q \in p + 1 .. (p + k) - 1 PROVE S[q] # Sync
  <2>1. PICK i \in 1 .. k - 1 : q = p + i
    <3>1. q - p \in 1 .. k - 1 /\ q = p + (q - p)
      BY <1>3, <1>4
    <3> QED
      BY <3>1
  <2>2. i \in 1 .. Len(rest)
    BY <1>3, <1>4
  <2> QED
    BY <1>3, <2>1, <2>2
<1>6. ASSUME SectorsFound(w, p, 0, v) PROVE SectorsFound(w, p + k, 1, v)
  <2>1. ASSUME NEW at, Laid(w.images, at)
        PROVE  InSearch(w, at, p + k, 1) /\ Kept(w, at, p + k, v.data)
    <3>1. InSearch(w, at, p, 0) /\ Kept(w, at, p, v.data)
      BY <1>6, <2>1 DEF SectorsFound
    <3> DEFINE r == p + k
    <3>2. /\ r \in p + 1 .. Len(StreamOf(w.images)) /\ StreamOf(w.images)[r] = Sync
          /\ \A q \in p + 1 .. r - 1 : StreamOf(w.images)[q] # Sync
      BY <1>3, <1>4, <1>5 DEF S
    <3> HIDE DEF r
    <3>3. InSearch(w, at, r, 1) /\ Kept(w, at, r, v.data)
      BY <1>3, <2>1, <3>1, <3>2, FirstFound
    <3> QED
      BY <3>3 DEF r
  <2> QED
    BY <1>6, <2>1 DEF SectorsFound
<1>7. Expected(w) => SectorsFound(w, p + k, 1, v)
  BY <1>1, <1>6 DEF Searched
<1> QED
  BY <1>1, <1>4, <1>7, WordsTaken

\* State 1: too few words are left for a sector.
LEMMA TooFewLeft ==
    ASSUME NEW T, NEW rest \in Seq(T), NEW w \in Writings, NEW v, Progress(w, rest, 1, v),
           Len(rest) < BodyWords
    PROVE  Progress(w, rest, 0, v)
<1>1. PICK p : Searched(w, rest, p, 1, v)
  BY DEF Progress
<1>2. w.images \in Seq(Images) /\ Remains(w.images, rest, p) /\ BodyWords \in Nat
  BY <1>1, WritingFacts, ImageAssumption DEF Searched
<1>3. p \in Nat /\ Len(StreamOf(w.images)) < p + BodyWords
  <2>1. p \in Nat /\ Len(rest) \in Nat /\ p + Len(rest) = Len(StreamOf(w.images))
    BY <1>2, NextWords
  <2> QED
    BY <1>2, <2>1
<1>4. SectorsFound(w, p, 1, v) => SectorsFound(w, p, 0, v)
  BY <1>3, RestTooShort DEF SectorsFound
<1> QED
  BY <1>1, <1>4 DEF Progress, Searched

\* State 1: no second sync word.
LEMMA OneSync ==
    ASSUME NEW T, NEW rest \in Seq(T), NEW w \in Writings, NEW v, Progress(w, rest, 1, v),
           1 \in 1 .. Len(rest), rest[1] # Sync
    PROVE  Progress(w, SubSeq(rest, 1 + 1, Len(rest)), 0, v)
<1>1. PICK p : Searched(w, rest, p, 1, v)
  BY DEF Progress
<1>2. w.images \in Seq(Images) /\ Remains(w.images, rest, p)
  BY <1>1, WritingFacts DEF Searched
<1>3. p \in Nat /\ StreamOf(w.images)[p + 1] # Sync
  BY <1>2, NextWords
<1>4. SectorsFound(w, p, 1, v) => SectorsFound(w, p + 1, 0, v)
  BY <1>3, NoSecond DEF SectorsFound
<1>5. 1 \in 0 .. Len(rest)
  BY ElementsOf
<1>6. Expected(w) => SectorsFound(w, p + 1, 0, v)
  BY <1>1, <1>4 DEF Searched
<1> QED
  BY <1>1, <1>5, <1>6, WordsTaken

\* State 1 and two sync words: what is read as a sector's words.
BodyOf(rest, k) == SubSeq(rest, 2, k)
ReadWhole(w, j, b) == IsBody(b) /\ Intact(b[1][2], w.track) /\ b[1][2] = w.images[j]
IsSector(w, b) == IsBody(b) /\ Intact(b[1][2], w.track)

LEMMA BodyWordsOf ==
    ASSUME NEW T, NEW rest \in Seq(T), NEW ims \in Seq(Images), NEW p, Remains(ims, rest, p),
           NEW k \in 1 .. Len(rest)
    PROVE  /\ Len(BodyOf(rest, k)) = k - 1
           /\ \A i \in 1 .. k - 1 : BodyOf(rest, k)[i] = StreamOf(ims)[(p + 1) + i]
<1> DEFINE b == SubSeq(rest, 2, k)
<1>1. /\ p \in Nat /\ Len(rest) \in Nat /\ k \in Nat \ {0} /\ k <= Len(rest)
      /\ \A i \in 1 .. Len(rest) : rest[i] = StreamOf(ims)[p + i]
  BY NextWords
<1>2. \A i \in 2 .. k : rest[i] \in T
  BY <1>1, ElementsOf
<1>3. 2 \in Int /\ k \in Int
  BY <1>1
<1>4. /\ Len(b) = IF 2 <= k THEN k - 2 + 1 ELSE 0
      /\ \A i \in 1 .. k - 2 + 1 : b[i] = rest[2 + i - 1]
  BY <1>2, <1>3, SubSeqProperties
<1> HIDE DEF b
<1>5. Len(b) = k - 1
  BY <1>1, <1>4
<1>6. ASSUME NEW i \in 1 .. k - 1 PROVE b[i] = StreamOf(ims)[(p + 1) + i]
  <2>1. /\ i \in 1 .. k - 2 + 1 /\ 2 + i - 1 = 1 + i /\ 1 + i \in 1 .. Len(rest)
        /\ p + (1 + i) = (p + 1) + i
    BY <1>1
  <2>2. b[i] = rest[1 + i]
    BY <1>4, <2>1
  <2>3. rest[1 + i] = StreamOf(ims)[p + (1 + i)]
    BY <1>1, <2>1
  <2> QED
    BY <2>1, <2>2, <2>3
<1> QED
  BY <1>5, <1>6 DEF BodyOf, b

\* An intact sector that is all there is read.
LEMMA GoodRead ==
    ASSUME NEW T, NEW rest \in Seq(T), NEW w \in Writings, NEW p, Remains(w.images, rest, p),
           NEW at, Laid(w.images, at), NEW j \in DOMAIN w.images, GoodOne(w, j), p = at[j] + 2
    PROVE  /\ Len(rest) >= BodyWords + 1
           /\ BodyWords + 1 \in 1 .. Len(rest) => ReadWhole(w, j, BodyOf(rest, BodyWords + 1))
<1> DEFINE S == StreamOf(w.images)
           im == w.images[j]
<1>1. w.images \in Seq(Images) /\ im \in Images
  BY WritingFacts, ElementsOf
<1>2. p \in Nat /\ Len(rest) \in Nat /\ Len(S) \in Nat /\ p + Len(rest) = Len(S)
  BY <1>1, NextWords
<1>6. LET t == StreamOf(w.images) IN
      /\ at[j] \in Nat /\ Len(t) \in Nat /\ BodyWords \in Nat \ {0}
      /\ (at[j] + 3) + BodyWords <= Len(t)
      /\ t[at[j] + 1] = Gap /\ t[at[j] + 2] = Sync /\ t[at[j] + 3] = Sync
      /\ \A b \in 1 .. BodyWords : t[at[j] + (3 + b)] = <<"body", w.images[j], b>>
  BY GoodWords, ZenonT(40)
<1>3. /\ at[j] \in Nat /\ BodyWords \in Nat \ {0} /\ (at[j] + 3) + BodyWords <= Len(S)
      /\ \A b \in 1 .. BodyWords : S[at[j] + (3 + b)] = <<"body", im, b>>
  BY <1>6
<1> HIDE DEF S, im
<1>4. Len(rest) >= BodyWords + 1
  BY <1>2, <1>3, SMTT(30)
<1>5. ASSUME BodyWords + 1 \in 1 .. Len(rest)
      PROVE  ReadWhole(w, j, BodyOf(rest, BodyWords + 1))
  <2> DEFINE b == BodyOf(rest, BodyWords + 1)
  <2>1. PICK k \in 1 .. Len(rest) : k = BodyWords + 1 /\ k - 1 = BodyWords
    BY <1>3, <1>5
  <2>2. Len(b) = BodyWords /\ \A i \in 1 .. BodyWords : b[i] = S[(p + 1) + i]
    <3>1. Len(BodyOf(rest, k)) = k - 1 /\ \A i \in 1 .. k - 1 : BodyOf(rest, k)[i] = S[(p + 1) + i]
      BY <1>1, BodyWordsOf DEF S
    <3> QED
      BY <2>1, <3>1
  <2> HIDE DEF b
  <2>3. ASSUME NEW i \in 1 .. BodyWords PROVE b[i] = <<"body", im, i>>
    <3>1. (p + 1) + i = at[j] + (3 + i)
      <4>1. PICK a \in Nat : a = at[j]
        BY <1>3
      <4>2. p = a + 2 /\ i \in Nat
        BY <1>3, <4>1
      <4> QED
        BY <4>1, <4>2, SMTT(30)
    <3>2. b[i] = S[(p + 1) + i] /\ S[at[j] + (3 + i)] = <<"body", im, i>>
      BY <1>3, <2>2
    <3> QED
      BY <3>1, <3>2
  <2>4. b \in Seq(T)
    <3>1. \A i \in 2 .. k : rest[i] \in T
      BY <2>1, ElementsOf
    <3>2. b = SubSeq(rest, 2, k)
      BY <2>1 DEF b, BodyOf
    <3>3. 2 \in Int /\ k \in Int
      BY <2>1
    <3> QED
      BY <3>1, <3>2, <3>3, SubSeqProperties
  <2>5. b = [i \in 1 .. BodyWords |-> <<"body", im, i>>]
    <3>1. b \in [1 .. BodyWords -> T]
      BY <2>2, <2>4, LenProperties
    <3>2. b = [i \in 1 .. BodyWords |-> b[i]]
      BY <3>1
    <3> QED
      BY <2>3, <3>2
  <2>6. IsBody(b)
    BY <1>1, <2>2, <2>5 DEF IsBody, im
  <2>7. b[1][2] = im
    <3>1. 1 \in 1 .. BodyWords
      BY <1>3
    <3>2. b[1] = <<"body", im, 1>>
      BY <2>3, <3>1
    <3> QED
      BY <3>2
  <2>8. Intact(im, w.track)
    BY DEF GoodOne, im
  <2> QED
    BY <2>6, <2>7, <2>8 DEF ReadWhole, IsSector, b, im
<1> QED
  BY <1>4, <1>5

\* What is read as an intact sector behind two sync words is theirs.
LEMMA ReadIsGood ==
    ASSUME NEW T, NEW rest \in Seq(T), NEW w \in Writings, NEW p, Remains(w.images, rest, p),
           NEW k \in 1 .. Len(rest), IsSector(w, BodyOf(rest, k)),
           NEW j \in DOMAIN w.images, w.images[j].syncs = 2,
           Begun(w, p, j)
    PROVE  GoodOne(w, j) /\ BodyOf(rest, k)[1][2] = w.images[j] /\ k = BodyWords + 1
<1> DEFINE S == StreamOf(w.images)
           b == BodyOf(rest, k)
<1>1. w.images \in Seq(Images) /\ BodyWords \in Nat \ {0}
  BY WritingFacts, ImageAssumption
<1>2. /\ p \in Nat /\ Len(rest) \in Nat /\ Len(S) \in Nat /\ p + Len(rest) = Len(S)
      /\ k \in Nat /\ k <= Len(rest)
  BY <1>1, NextWords
<1>3. Len(b) = k - 1 /\ \A i \in 1 .. k - 1 : b[i] = S[(p + 1) + i]
  BY <1>1, BodyWordsOf
<1>4. /\ Len(b) = BodyWords /\ \E im \in Images : b = [i \in 1 .. BodyWords |-> <<"body", im, i>>]
      /\ Intact(b[1][2], w.track)
  BY DEF IsSector, IsBody
<1> HIDE DEF S, b
<1>5. k = BodyWords + 1 /\ 1 \in 1 .. k - 1 /\ 1 \in 1 .. BodyWords
  BY <1>1, <1>2, <1>3, <1>4
<1>6. PICK im \in Images : b = [i \in 1 .. BodyWords |-> <<"body", im, i>>]
  BY <1>4
<1>7. b[1] = <<"body", im, 1>>
  BY <1>5, <1>6
<1>8. b[1][2] = im
  BY <1>7
<1>9. S[p + 2] = <<"body", im, 1>> /\ p + 2 <= Len(S)
  <2>1. b[1] = S[(p + 1) + 1]
    BY <1>3, <1>5
  <2>2. (p + 1) + 1 = p + 2 /\ p + 2 <= Len(S)
    BY <1>1, <1>2, <1>5
  <2> QED
    BY <1>7, <2>1, <2>2
<1>10. im = w.images[j]
  BY <1>9 DEF S, Begun
<1> QED
  BY <1>4, <1>5, <1>8, <1>10 DEF GoodOne, b

\* What becomes of a disk when b is read behind two sync words.
Written(w, b, v, new) ==
    /\ new.format = v.format /\ new.prot = v.prot
    /\ \A q \in Sector :
          new.data[q] = IF IsSector(w, b) /\ q = <<b[1][2].track, b[1][2].sector>>
                        THEN b[1][2].data ELSE v.data[q]

LEMMA GoodPlace ==
    ASSUME NEW w \in Writings, NEW i \in DOMAIN w.images, GoodOne(w, i)
    PROVE  PlaceOf(w, i) \in Sector
<1>1. w.images[i] \in Images
  BY WritingFacts, ElementsOf
<1>2. /\ w.images[i].track \in Nat /\ w.images[i].sector \in Nat
      /\ w.images[i].track < Tracks /\ w.images[i].sector <= LastSector
  BY <1>1, ImageFacts DEF GoodOne, Intact
<1>3. w.images[i].track \in 0 .. Tracks - 1 /\ w.images[i].sector \in 0 .. LastSector
  BY <1>2, ImageAssumption
<1> QED
  BY <1>3 DEF PlaceOf, Sector

\* State 1 and two sync words: whatever is read, what was found is on the disk.
LEMMA SectorTaken ==
    ASSUME NearlyWhole, Level > BodyWords, NEW T, NEW rest \in Seq(T), NEW w \in Writings, NEW v,
           Progress(w, rest, 1, v), rest[1] = Sync,
           NEW size \in 1 .. Len(rest), size >= BodyWords, size >= Level \/ size = Len(rest),
           NEW there \in size .. Len(rest), NEW k \in 1 .. Len(rest),
           k = IF there > BodyWords THEN BodyWords + 1 ELSE there,
           NEW new, Written(w, BodyOf(rest, k), v, new)
    PROVE  Progress(w, SubSeq(rest, k + 1, Len(rest)), 0, new)
<1>1. PICK p : Searched(w, rest, p, 1, v)
  BY DEF Progress
<1>2. w.images \in Seq(Images) /\ Remains(w.images, rest, p)
  BY <1>1, WritingFacts DEF Searched
<1> DEFINE S == StreamOf(w.images)
           b == BodyOf(rest, k)
<1>3. /\ p \in Nat /\ Len(rest) \in Nat /\ Len(S) \in Nat /\ p + Len(rest) = Len(S)
      /\ \A i \in 1 .. Len(rest) : rest[i] = S[p + i]
  BY <1>2, NextWords
<1>4. BodyWords \in Nat \ {0} /\ Level \in Nat
  BY ImageAssumption
<1> HIDE DEF S, b
<1>5. /\ k \in {BodyWords, BodyWords + 1} /\ k \in Nat \ {0} /\ p + k <= Len(S)
      /\ S[p + 1] = Sync /\ k \in 0 .. Len(rest)
  BY <1>3, <1>4
<1>6. ASSUME Expected(w), NEW at, Laid(w.images, at)
      PROVE  InSearch(w, at, p + k, 0) /\ Kept(w, at, p + k, new.data)
  <2>1. InSearch(w, at, p, 1) /\ Kept(w, at, p, v.data)
    BY <1>1, <1>6 DEF Searched, SectorsFound
  <2>2. PICK j \in DOMAIN w.images :
          /\ p = at[j] + 2 /\ w.images[j].syncs = 2
          /\ Begun(w, p, j) /\ InSearch(w, at, p + k, 0) /\ Apart(w, at, p, p + k, j)
    BY <1>3, <1>5, <1>6, <2>1, BodyRead DEF S
  <2>7. p + k \in Nat /\ p < p + k /\ p <= p + k
    <3>1. p \in Nat /\ k \in Nat \ {0}
      BY <1>3, <1>5
    <3> QED
      BY <3>1
  <2>3. PICK r \in Nat : r = p + k /\ p < r /\ p <= r
    BY <2>7
  <2>8. p = at[j] + 2 /\ w.images[j].syncs = 2 /\ rest \in Seq(T) /\ Remains(w.images, rest, p)
    BY <1>2, <2>2
  <2>4. Apart(w, at, p, r, j)
    BY <2>2, <2>3
  <2>5. CASE GoodOne(w, j)
    <3>1. /\ Len(rest) >= BodyWords + 1
          /\ BodyWords + 1 \in 1 .. Len(rest) => ReadWhole(w, j, BodyOf(rest, BodyWords + 1))
      BY <1>6, <2>5, <2>8, GoodRead
    <3>2. k = BodyWords + 1
      BY <1>3, <1>4, <3>1
    <3>3. IsSector(w, b) /\ b[1][2] = w.images[j]
      BY <3>1, <3>2 DEF b, ReadWhole, IsSector
    <3>4. \A q \in Sector : new.data[q] = IF q = PlaceOf(w, j) THEN w.images[j].data ELSE v.data[q]
      BY <3>3 DEF Written, PlaceOf, b
    <3>5. new.data[PlaceOf(w, j)] = w.images[j].data
      BY <2>5, <3>4, GoodPlace
    <3>6. \A i \in DOMAIN w.images :
              GoodOne(w, i) /\ PlaceOf(w, i) # PlaceOf(w, j)
                 => new.data[PlaceOf(w, i)] = v.data[PlaceOf(w, i)]
      BY <3>4, GoodPlace
    <3>9. Replaced(w, j, v.data, new.data)
      BY <3>5, <3>6 DEF Replaced
    <3>7. Kept(w, at, r, new.data)
      <4>1. p \in Nat /\ r \in Nat /\ p < r /\ Kept(w, at, p, v.data) /\ p = at[j] + 2
        BY <1>3, <2>1, <2>3, <2>8
      <4> QED
        BY <1>6, <2>4, <2>5, <3>9, <4>1, KeptWritten, Zenon
    <3> QED
      BY <2>2, <2>3, <3>7
  <2>6. CASE ~GoodOne(w, j)
    <3>1. ~IsSector(w, b)
      <4> SUFFICES ASSUME IsSector(w, BodyOf(rest, k)) PROVE GoodOne(w, j)
        BY <2>6 DEF b
      <4>1. rest \in Seq(T) /\ Begun(w, p, j)
        BY <2>2
      <4> QED
        BY <2>8, <4>1, ReadIsGood, Zenon
    <3>2. \A q \in Sector : new.data[q] = v.data[q]
      BY <3>1 DEF Written, b
    <3>3. Kept(w, at, p, new.data)
      BY <2>1, <3>2, GoodPlace DEF Kept, Past
    <3>4. \A i \in DOMAIN w.images : GoodOne(w, i) => p > at[i] + 2 \/ r <= at[i] + 2
      BY <2>4, <2>6 DEF Apart
    <3>5. Kept(w, at, r, new.data)
      BY <1>3, <1>6, <2>3, <3>3, <3>4, KeptOn
    <3> QED
      BY <2>2, <2>3, <3>5
  <2> QED
    BY <2>5, <2>6
<1>7. Expected(w) => SectorsFound(w, p + k, 0, new)
  BY <1>1, <1>6 DEF SectorsFound, Searched, Written
<1> QED
  BY <1>1, <1>5, <1>7, WordsTaken

\* When all words are handed over, the last intact sector of each place is there.
LEMMA AllFound ==
    ASSUME NEW w \in Writings, NEW s, NEW v, Progress(w, << >>, s, v), Expected(w),
           NEW i \in DOMAIN w.images, GoodOne(w, i),
           \A j \in DOMAIN w.images : j > i /\ GoodOne(w, j) => PlaceOf(w, i) # PlaceOf(w, j)
    PROVE  v.data[PlaceOf(w, i)] = w.images[i].data
<1>1. PICK p : Searched(w, << >>, p, s, v)
  BY DEF Progress
<1>2. w.images \in Seq(Images) /\ Remains(w.images, << >>, p)
  BY <1>1, WritingFacts DEF Searched
<1>3. p \in Nat /\ Len(StreamOf(w.images)) = p
  BY <1>2 DEF Remains
<1>4. PICK at : Laid(w.images, at)
  BY <1>2, StreamLaid
<1>5. Kept(w, at, p, v.data)
  BY <1>1, <1>4 DEF Searched, SectorsFound
<1>6. p > at[i] + 2
  <2>1. at[i] \in Nat /\ BodyWords \in Nat /\ (at[i] + 3) + BodyWords <= p
    BY <1>3, <1>4, GoodWords
  <2> QED
    BY <1>3, <2>1
<1>7. Past(w, at, p, i)
  BY <1>6 DEF Past
<1>8. \A j \in DOMAIN w.images : j > i /\ Past(w, at, p, j) => PlaceOf(w, i) # PlaceOf(w, j)
  BY DEF Past
<1> QED
  BY <1>5, <1>7, <1>8 DEF Kept

-----------------------------------------------------------------------------
(* What the search has found, as an inductive invariant.                    *)

\* The search is for one channel: the drives of two share its state.
OneChannel == \A d, e \in FloppyDrive : d[1] = e[1]

\* In what state the driver will go on with drive d.
StateOf(d, drv, s) == IF d[2] # drv THEN 0 ELSE s
\* What every channel's core still has to hand over, and what was found before.
SearchRight ==
    \A c \in Channel :
        Progress(writing[c], stream[c], StateOf(writing[c].drive, write_drive, write_state),
                 disk[writing[c].drive])

LEMMA SearchStep ==
    ASSUME \A c \in Channel :
        Progress(writing'[c], stream'[c], StateOf(writing'[c].drive, write_drive', write_state'),
                 disk'[writing'[c].drive])
    PROVE  SearchRight'
<1>1. Channel' = Channel
  BY DEF Channel
<1> QED
  BY <1>1 DEF SearchRight
\* Nothing is expected while a core reads; a request is for enough words or for
\* the rest; the driver's state is that of the drive it is writing to.
AskedRight ==
    /\ phase # "idle" =>
          /\ req.dir = "read" => writing[channel].images = << >>
          /\ req.dir = "write" => req.size >= Level \/ req.size = Len(words)
    /\ pc = "write" => write_drive = drive[2]
    /\ pc = "adf" => req.dir = "read"
WholeInv == FloppyInv /\ SearchRight /\ (fch_driver = 1 => AskedRight)

LEMMA ChannelFacts ==
    ASSUME OneChannel, NEW c \in Channel, NEW d \in FloppyDrive
    PROVE  c = d[1]
BY DEF OneChannel, Channel

\* Only the disk of the drive matters, and only while something is expected.
LEMMA OtherDisk ==
    ASSUME NEW w, NEW rest, NEW s, NEW v, Progress(w, rest, s, v), NEW z, NEW x,
           Expected(w) => w.drive \notin FloppyDrive \/ (z = s /\ x = v)
    PROVE  Progress(w, rest, z, x)
BY DEF Progress, Searched, SectorsFound

LEMMA NoneExpected ==
    ASSUME NEW w, w.images = << >>
    PROVE  ~Expected(w)
BY DEF Expected

\* A disk that is changed by the menu.
LEMMA MenuSearch ==
    ASSUME FloppyInv, SearchRight, NEW d \in FloppyDrive, Disturbed(d),
           UNCHANGED <<stream, write_state, write_drive>>,
           \A x \in FloppyDrive : x # d => disk'[x] = disk[x]
    PROVE  SearchRight'
<1>1. writing' = [c \in Channel |->
          IF writing[c].drive # d THEN writing[c]
          ELSE IF stream[c] = << >> THEN Nothing ELSE [writing[c] EXCEPT !.clean = FALSE]]
  BY DEF Disturbed
<1>2. ASSUME NEW c \in Channel
      PROVE  Progress(writing'[c], stream'[c],
                      StateOf(writing'[c].drive, write_drive', write_state'),
                      disk'[writing'[c].drive])
  <2>1. /\ writing[c] \in Writings /\ stream'[c] = stream[c]
        /\ Progress(writing[c], stream[c], StateOf(writing[c].drive, write_drive, write_state),
                    disk[writing[c].drive])
    BY DEF FloppyInv, WritingRight, SearchRight
  <2> DEFINE u == [writing[c] EXCEPT !.clean = FALSE]
             z == StateOf(writing'[c].drive, write_drive', write_state')
             x == disk'[writing'[c].drive]
             s == StateOf(writing[c].drive, write_drive, write_state)
             v == disk[writing[c].drive]
  <2>2. u \in Writings /\ u.images = writing[c].images /\ ~u.clean
    BY <2>1 DEF Writings
  <2>3. writing'[c] = IF writing[c].drive # d THEN writing[c]
                      ELSE IF stream[c] = << >> THEN Nothing ELSE u
    BY <1>1
  <2> HIDE DEF u
  <2>4. CASE writing[c].drive # d
    <3>1. writing'[c] = writing[c]
      BY <2>3, <2>4
    <3>2. z = s /\ (writing[c].drive \in FloppyDrive => x = v)
      BY <2>4, <3>1
    <3> HIDE DEF z, x, s, v
    <3>3. Progress(writing[c], stream[c], s, v)
      BY <2>1 DEF s, v
    <3>4. Progress(writing[c], stream[c], z, x)
      BY <3>2, <3>3, OtherDisk
    <3> QED
      BY <2>1, <3>1, <3>4 DEF z, x
  <2>5. CASE writing[c].drive = d /\ stream[c] = << >>
    BY <2>1, <2>3, <2>5, NothingExpected
  <2>6. CASE writing[c].drive = d /\ stream[c] # << >>
    <3>1. writing'[c] = u
      BY <2>3, <2>6
    <3> HIDE DEF z, x, s, v
    <3>3. Progress(writing[c], stream[c], s, v)
      BY <2>1 DEF s, v
    <3>4. Progress(u, stream[c], z, x)
      BY <2>1, <2>2, <3>3, NoLongerExpected
    <3> QED
      BY <2>1, <3>1, <3>4 DEF z, x
  <2> QED
    BY <2>4, <2>5, <2>6
<1> QED
  BY <1>2, SearchStep

\* A request that was raised, and what the core was expected to write.
LEMMA AskedStays ==
    ASSUME FloppyInv, AskedRight, fch_driver = 1, pc # "write", NEW d, Disturbed(d),
           UNCHANGED <<phase, req, pc, stream>>
    PROVE  AskedRight'
<1>1. /\ channel' = channel /\ drive' = drive
      /\ writing' = [c \in Channel |->
          IF writing[c].drive # d THEN writing[c]
          ELSE IF stream[c] = << >> THEN Nothing ELSE [writing[c] EXCEPT !.clean = FALSE]]
  BY DEF Disturbed, channel, drive
<1>2. ASSUME phase # "idle" PROVE channel \in Channel
  BY <1>2, DriveFacts DEF FloppyInv, LineRight, Asked, channel
<1>3. ASSUME NEW c \in Channel, writing[c].images = << >>
      PROVE  writing'[c].images = << >>
  <2>1. writing[c] \in Writings
    BY DEF FloppyInv, WritingRight
  <2>2. [writing[c] EXCEPT !.clean = FALSE].images = << >>
    BY <1>3, <2>1 DEF Writings
  <2>3. Nothing.images = << >>
    BY DEF Nothing
  <2> DEFINE u == [writing[c] EXCEPT !.clean = FALSE]
  <2>4. writing'[c] = IF writing[c].drive # d THEN writing[c]
                      ELSE IF stream[c] = << >> THEN Nothing ELSE u
    BY <1>1
  <2> HIDE DEF u
  <2>5. u.images = << >>
    BY <2>2 DEF u
  <2> QED
    BY <1>3, <2>3, <2>4, <2>5
<1>4. words' = words
  BY <1>1 DEF words
<1>5. ASSUME phase # "idle", req.dir = "read" PROVE writing'[channel].images = << >>
  BY <1>2, <1>3, <1>5 DEF AskedRight
<1> QED
  BY <1>1, <1>4, <1>5 DEF AskedRight

\* The menu.
LEMMA MenuKeeps ==
    ASSUME WholeInv, fch_driver = 1, NEW d \in FloppyDrive,
           InsertDisk(d) \/ EjectDisk(d) \/ ProtectDisk(d)
    PROVE  SearchRight' /\ AskedRight'
<1>1. /\ pc = "idle" /\ Disturbed(d)
      /\ UNCHANGED <<phase, req, pc, stream, write_state, write_drive>>
  BY DEF InsertDisk, EjectDisk, ProtectDisk, lineVars, writeState
<1>2. disk = [x \in FloppyDrive |-> disk[x]]
  BY DEF WholeInv, FloppyInv, DisksRight
<1>3. \E v : disk' = [disk EXCEPT ![d] = v]
  BY DEF InsertDisk, EjectDisk, ProtectDisk
<1>4. \A x \in FloppyDrive : x # d => disk'[x] = disk[x]
  BY <1>2, <1>3
<1>5. pc # "write"
  BY <1>1
<1> QED
  BY <1>1, <1>4, <1>5, MenuSearch, AskedStays DEF WholeInv

\* The core begins to write.
LEMMA WritesSearch ==
    ASSUME WholeInv, fch_driver = 1, NEW d \in FloppyDrive, CoreWrites(d)
    PROVE  SearchRight' /\ AskedRight'
<1>1. phase = "idle" /\ UNCHANGED <<phase, pc, disk, write_state, write_drive>>
  BY DEF CoreWrites, lineVars, writeState
<1>2. PICK w \in Streams :
          /\ writing' = [writing EXCEPT ![d[1]] =
                            [drive |-> d, track |-> w.track, images |-> w.images,
                             clean |-> disk[d].format = "adf" /\ ~disk[d].prot]]
          /\ stream' = [stream EXCEPT ![d[1]] = StreamOf(w.images)]
  BY DEF CoreWrites
<1>3. d[1] \in Channel /\ d \in Nat \X Nat
  BY DriveFacts
<1>4. w.track \in Nat /\ w.images \in Seq(Images)
  BY ImageAssumption
<1> DEFINE new == [drive |-> d, track |-> w.track, images |-> w.images,
                   clean |-> disk[d].format = "adf" /\ ~disk[d].prot]
<1>5. /\ new \in Writings /\ new.drive = d /\ new.images = w.images
      /\ new.clean => disk[d].format = "adf" /\ ~disk[d].prot
  <2>1. (disk[d].format = "adf" /\ ~disk[d].prot) \in BOOLEAN
    OBVIOUS
  <2> QED
    BY <1>3, <1>4, <2>1 DEF Writings
<1> HIDE DEF new
<1>6. writing = [c \in Channel |-> writing[c]] /\ stream = [c \in Channel |-> stream[c]]
  BY DEF WholeInv, FloppyInv, WritingRight
<1>7. writing' = [writing EXCEPT ![d[1]] = new]
  BY <1>2 DEF new
<1>8. /\ writing'[d[1]] = new /\ stream'[d[1]] = StreamOf(new.images)
      /\ \A c \in Channel : c # d[1] => writing'[c] = writing[c] /\ stream'[c] = stream[c]
  BY <1>2, <1>3, <1>5, <1>6, <1>7
<1>9. ASSUME NEW c \in Channel
      PROVE  Progress(writing'[c], stream'[c],
                      StateOf(writing'[c].drive, write_drive', write_state'),
                      disk'[writing'[c].drive])
  <2>1. CASE c = d[1]
    <3>1. StateOf(d, write_drive, write_state) \in {0, 1}
      BY DEF StateOf, WholeInv, FloppyInv
    <3>2. Expected(new) => new.drive \in FloppyDrive /\ disk[d].format = "adf" /\ ~disk[d].prot
      BY <1>5 DEF Expected
    <3>3. Progress(new, StreamOf(new.images), StateOf(d, write_drive, write_state), disk[d])
      BY <1>5, <3>1, <3>2, BeginsToWrite
    <3> QED
      BY <1>1, <1>5, <1>8, <2>1, <3>3
  <2>2. CASE c # d[1]
    <3>1. Progress(writing[c], stream[c], StateOf(writing[c].drive, write_drive, write_state),
                   disk[writing[c].drive])
      BY DEF WholeInv, SearchRight
    <3> QED
      BY <1>1, <1>8, <2>2, <3>1
  <2> QED
    BY <2>1, <2>2
<1>10. AskedRight'
  BY <1>1 DEF AskedRight, WholeInv, FloppyInv, LineRight
<1> QED
  BY <1>9, <1>10, SearchStep

\* Nothing is expected any more on a channel.
LEMMA NothingSearched ==
    ASSUME SearchRight, WritingRight, NEW c \in Channel, UNCHANGED <<disk, write_state, write_drive>>,
           writing' = [writing EXCEPT ![c] = Nothing], stream' = [stream EXCEPT ![c] = << >>]
    PROVE  SearchRight'
<1>1. writing = [x \in Channel |-> writing[x]] /\ stream = [x \in Channel |-> stream[x]]
  BY DEF WritingRight
<1>2. /\ writing'[c] = Nothing /\ stream'[c] = << >>
      /\ \A x \in Channel : x # c => writing'[x] = writing[x] /\ stream'[x] = stream[x]
  BY <1>1
<1>3. ASSUME NEW x \in Channel
      PROVE  Progress(writing'[x], stream'[x],
                      StateOf(writing'[x].drive, write_drive', write_state'),
                      disk'[writing'[x].drive])
  <2>1. CASE x = c
    BY <1>2, <2>1, NothingExpected
  <2>2. CASE x # c
    <3>1. Progress(writing[x], stream[x], StateOf(writing[x].drive, write_drive, write_state),
                   disk[writing[x].drive])
      BY DEF SearchRight
    <3> QED
      BY <1>2, <2>2, <3>1
  <2> QED
    BY <2>1, <2>2
<1> QED
  BY <1>3, SearchStep

LEMMA StopsSearch ==
    ASSUME WholeInv, fch_driver = 1, NEW c \in Channel, CoreStops(c)
    PROVE  SearchRight' /\ AskedRight'
<1>1. /\ phase = "idle" /\ UNCHANGED <<phase, pc, disk, write_state, write_drive>>
      /\ writing' = [writing EXCEPT ![c] = Nothing] /\ stream' = [stream EXCEPT ![c] = << >>]
  BY DEF CoreStops, lineVars, writeState
<1>2. AskedRight'
  BY <1>1 DEF AskedRight, WholeInv, FloppyInv, LineRight
<1> QED
  BY <1>1, <1>2, NothingSearched DEF WholeInv, FloppyInv

\* Nothing that the search depends on changes.
LEMMA SearchStays ==
    ASSUME SearchRight, UNCHANGED <<stream, writing, disk, write_state, write_drive>>
    PROVE  SearchRight'
BY SearchStep DEF SearchRight

LEMMA WriteAskedSearch ==
    ASSUME WholeInv, fch_driver = 1, NEW c \in Channel, AskWrite(c)
    PROVE  SearchRight' /\ AskedRight'
<1>1. /\ phase = "idle" /\ stream[c] # << >>
      /\ UNCHANGED <<pc, disk, stream, writing, write_state, write_drive>>
  BY DEF AskWrite, Raise, floppyVars
<1>2. PICK k \in 1 .. Len(stream[c]) :
          /\ k >= Level \/ k = Len(stream[c])
          /\ req' = [dir |-> "write", drive |-> writing[c].drive,
                     track |-> writing[c].track, size |-> k]
  BY DEF AskWrite, Raise
<1>3. writing[c].drive[1] = c
  BY <1>1 DEF WholeInv, FloppyInv, WritingRight
<1>4. words' = stream[c] /\ req'.size = k /\ req'.dir = "write"
  BY <1>1, <1>2, <1>3 DEF drive, channel, words
<1>5. pc' = "idle"
  BY <1>1 DEF WholeInv, FloppyInv, LineRight
<1>6. AskedRight'
  BY <1>2, <1>4, <1>5 DEF AskedRight
<1> QED
  BY <1>1, <1>6, SearchStays DEF WholeInv

LEMMA ReadAskedSearch ==
    ASSUME WholeInv, fch_driver = 1, NEW d \in FloppyDrive, AskRead(d)
    PROVE  SearchRight' /\ AskedRight'
<1>1. /\ phase = "idle" /\ stream[d[1]] = << >> /\ writing' = [writing EXCEPT ![d[1]] = Nothing]
      /\ UNCHANGED <<pc, disk, stream, write_state, write_drive>>
  BY DEF AskRead, Raise, writeState
<1>2. PICK t \in HeadTracks : req' = [dir |-> "read", drive |-> d, track |-> t, size |-> 0]
  BY DEF AskRead, Raise
<1>3. d[1] \in Channel
  BY DriveFacts
<1>4. /\ writing = [x \in Channel |-> writing[x]] /\ stream = [x \in Channel |-> stream[x]]
  BY DEF WholeInv, FloppyInv, WritingRight
<1>5. stream' = [stream EXCEPT ![d[1]] = << >>]
  BY <1>1, <1>3, <1>4
<1>6. SearchRight'
  BY <1>1, <1>3, <1>5, NothingSearched DEF WholeInv, FloppyInv
<1>7. writing'[d[1]].images = << >>
  BY <1>1, <1>3, <1>4 DEF Nothing
<1>8. pc' = "idle"
  BY <1>1 DEF WholeInv, FloppyInv, LineRight
<1>9. req'.dir = "read" /\ channel' = d[1]
  BY <1>2 DEF channel, drive
<1>10. AskedRight'
  BY <1>7, <1>8, <1>9 DEF AskedRight
<1> QED
  BY <1>6, <1>10

-----------------------------------------------------------------------------
(* The driver.                                                              *)

LEMMA AnsweredRight ==
    ASSUME pc' = "idle", phase' = "idle"
    PROVE  AskedRight'
BY DEF AskedRight

\* There is only one channel to look at.
LEMMA OneSearch ==
    ASSUME OneChannel, drive \in FloppyDrive,
           Progress(writing'[channel], stream'[channel],
                    StateOf(writing'[channel].drive, write_drive', write_state'),
                    disk'[writing'[channel].drive])
    PROVE  SearchRight'
<1>1. \A c \in Channel : c = channel
  BY ChannelFacts DEF channel
<1> QED
  BY <1>1, SearchStep

\* A request is taken: what the driver remembers of the drive stays.
LEMMA TakenSearch ==
    ASSUME WholeInv, OneChannel, fch_driver = 1, FloppyTakes \/ WriteToScp
    PROVE  SearchRight' /\ AskedRight'
<1>1. /\ phase = "req" /\ pc = "idle" /\ UNCHANGED <<req, disk, stream, writing>>
  BY DEF FloppyTakes, DiskMissing, DiskBegin, Accept, floppyVars, WriteToScp, lineVars
<1>2. Asked /\ drive \in FloppyDrive /\ channel \in Channel
  BY <1>1, DriveFacts DEF WholeInv, FloppyInv, LineRight, Asked, channel
<1>3. \/ UNCHANGED <<write_state, write_drive>> /\ pc' # "write"
      \/ req.dir = "write" /\ write_state' = Selected /\ write_drive' = drive[2]
  BY <1>1 DEF FloppyTakes, DiskMissing, DiskBegin, Accept, floppyVars, WriteToScp, lineVars, writeState
<1>4. req.dir = "write" => writing[channel].drive = drive
  BY <1>2 DEF Asked, AskedToWrite
<1>5. StateOf(writing[channel].drive, write_drive', write_state')
         = StateOf(writing[channel].drive, write_drive, write_state)
  BY <1>3, <1>4 DEF StateOf, Selected
<1>6. Progress(writing[channel], stream[channel],
               StateOf(writing[channel].drive, write_drive, write_state),
               disk[writing[channel].drive])
  BY <1>2 DEF WholeInv, SearchRight
<1>7. Progress(writing'[channel], stream'[channel],
               StateOf(writing'[channel].drive, write_drive', write_state'),
               disk'[writing'[channel].drive])
  BY <1>1, <1>5, <1>6
<1>8. SearchRight'
  BY <1>2, <1>7, OneSearch
<1>9. drive' = drive /\ channel' = channel /\ words' = words
  BY <1>1 DEF drive, channel, words
<1>10. pc' = "adf" => req.dir = "read"
  BY <1>1 DEF FloppyTakes, DiskMissing, DiskBegin, Accept, WriteToScp, lineVars
<1>11. AskedRight'
  BY <1>1, <1>3, <1>9, <1>10 DEF AskedRight, WholeInv
<1> QED
  BY <1>8, <1>11

LEMMA AbortSearch ==
    ASSUME WholeInv, fch_driver = 1, DiskAbort
    PROVE  SearchRight' /\ AskedRight'
<1>1. pc' = "idle" /\ phase' = "idle" /\ UNCHANGED <<disk, stream, writing, write_state, write_drive>>
  BY DEF DiskAbort, Return, floppyVars
<1> QED
  BY <1>1, AnsweredRight, SearchStays DEF WholeInv

\* Nothing is expected while the driver reads.
LEMMA ReadsSearch ==
    ASSUME WholeInv, OneChannel, fch_driver = 1, AdfRead \/ ScpStep \/ ScpRead
    PROVE  SearchRight' /\ AskedRight'
<1>1. pc \in {"adf", "scp", "flux"} /\ UNCHANGED <<req, stream, writing>>
  BY DEF AdfRead, ScpStep, ScpRead, Return
<1>2. phase = "busy" /\ Asked /\ drive \in FloppyDrive /\ channel \in Channel
  BY <1>1, DriveFacts DEF WholeInv, FloppyInv, LineRight, Asked, channel
<1>3. ASSUME req.dir = "read" PROVE SearchRight'
  <2>1. writing[channel].images = << >>
    BY <1>2, <1>3 DEF WholeInv, AskedRight
  <2>2. ~Expected(writing[channel])
    BY <2>1, NoneExpected
  <2>3. Progress(writing[channel], stream[channel],
                 StateOf(writing[channel].drive, write_drive, write_state),
                 disk[writing[channel].drive])
    BY <1>2 DEF WholeInv, SearchRight
  <2>4. \A z, x : Progress(writing[channel], stream[channel], z, x)
    BY <2>2, <2>3, OtherDisk
  <2>5. Progress(writing'[channel], stream'[channel],
                 StateOf(writing'[channel].drive, write_drive', write_state'),
                 disk'[writing'[channel].drive])
    BY <1>1, <2>4
  <2> QED
    BY <1>2, <2>5, OneSearch
<1>4. ASSUME req.dir = "read" PROVE AskedRight'
  <2>1. drive' = drive /\ channel' = channel /\ req'.dir # "write"
    BY <1>1, <1>4 DEF drive, channel
  <2>2. pc' # "write"
    BY DEF AdfRead, ScpStep, ScpRead, Return
  <2>4. req' = req
    BY <1>1
  <2>3. writing'[channel].images = << >>
    BY <1>1, <1>2, <1>4 DEF WholeInv, AskedRight
  <2> QED
    BY <1>4, <2>1, <2>2, <2>3, <2>4 DEF AskedRight
<1>5. req.dir = "read"
  BY <1>1 DEF WholeInv, FloppyInv, LineRight, AskedRight
<1> QED
  BY <1>3, <1>4, <1>5

LEMMA WriteSearch ==
    ASSUME WholeInv, fch_driver = 1, pc = "write"
    PROVE  /\ drive \in FloppyDrive /\ channel \in Channel /\ writing[channel] \in Writings
           /\ writing[channel].drive = drive /\ req.track = writing[channel].track
           /\ words \in Seq(WordsOf(writing[channel].images)) /\ words = stream[channel]
           /\ Len(words) \in Nat /\ req.size \in 1 .. Len(words)
           /\ Progress(writing[channel], words, write_state, this)
           /\ write_drive = drive[2]
           /\ req.size >= Level \/ req.size = Len(words)
           /\ stream = [c \in Channel |-> stream[c]]
<1>1. /\ drive \in FloppyDrive /\ channel \in Channel
      /\ writing[channel].drive = drive /\ req.track = writing[channel].track
      /\ words \in Seq(WordsOf(writing[channel].images))
      /\ Len(words) \in Nat /\ req.size \in 1 .. Len(words)
  BY WriteFacts DEF WholeInv
<1>2. req.dir = "write" /\ phase # "idle"
  BY DEF WholeInv, FloppyInv, LineRight
<1>3. write_drive = drive[2] /\ (req.size >= Level \/ req.size = Len(words))
  BY <1>2 DEF WholeInv, AskedRight
<1>4. writing[channel] \in Writings /\ stream = [c \in Channel |-> stream[c]]
  BY <1>1 DEF WholeInv, FloppyInv, WritingRight
<1>5. Progress(writing[channel], stream[channel],
               StateOf(writing[channel].drive, write_drive, write_state),
               disk[writing[channel].drive])
  BY <1>1 DEF WholeInv, SearchRight
<1>6. Progress(writing[channel], words, write_state, this)
  BY <1>1, <1>3, <1>5 DEF StateOf, words, this
<1> QED
  BY <1>1, <1>3, <1>4, <1>6 DEF words

\* The driver has taken words from the stream.
LEMMA ConsumedSearch ==
    ASSUME OneChannel, drive \in FloppyDrive, channel \in Channel,
           stream = [c \in Channel |-> stream[c]], NEW k, Consume(k), UNCHANGED write_drive,
           writing'[channel].drive = drive, write_drive = drive[2],
           Progress(writing'[channel], SubSeq(words, k + 1, Len(words)), write_state', disk'[drive])
    PROVE  SearchRight'
<1>1. stream'[channel] = SubSeq(words, k + 1, Len(words))
  BY DEF Consume
<1>2. Progress(writing'[channel], stream'[channel],
               StateOf(writing'[channel].drive, write_drive', write_state'),
               disk'[writing'[channel].drive])
  BY <1>1 DEF StateOf
<1> QED
  BY <1>2, OneSearch

LEMMA FindSyncSearch ==
    ASSUME WholeInv, OneChannel, fch_driver = 1, FindSync
    PROVE  SearchRight' /\ AskedRight'
<1>1. /\ pc = "write" /\ write_state = 0 /\ Return("ok") /\ UNCHANGED <<disk, writing, write_drive>>
  BY DEF FindSync
<1> DEFINE found == {k \in 1 .. req.size : words[k] = Sync}
<1>2. IF found = {} THEN Consume(req.size) /\ UNCHANGED write_state
      ELSE /\ write_state' = 1
           /\ Consume(CHOOSE k \in found : \A j \in found : k <= j)
  BY DEF FindSync
<1> DEFINE w == writing[channel]
           S == WordsOf(writing[channel].images)
<1>3. /\ drive \in FloppyDrive /\ channel \in Channel /\ w \in Writings /\ w.drive = drive
      /\ words \in Seq(S) /\ Len(words) \in Nat /\ req.size \in 1 .. Len(words)
      /\ Progress(w, words, 0, this) /\ write_drive = drive[2]
      /\ stream = [c \in Channel |-> stream[c]]
  BY <1>1, WriteSearch
<1>4. w = writing'[channel] /\ this = disk'[drive]
  BY <1>1 DEF this
<1> HIDE DEF w, S
<1>5. CASE found = {}
  <2>1. Consume(req.size) /\ write_state' = 0 /\ req.size \in 0 .. Len(words)
    BY <1>1, <1>2, <1>3, <1>5
  <2>2. \A i \in 1 .. req.size : words[i] # Sync
    BY <1>5
  <2>3. Progress(w, SubSeq(words, req.size + 1, Len(words)), 0, this)
    BY <1>3, <2>1, <2>2, NoSync
  <2> QED
    BY <1>1, <1>3, <1>4, <2>1, <2>3, ConsumedSearch, AnsweredRight DEF Return
<1>6. CASE found # {}
  <2>1. found \subseteq Nat /\ found \subseteq 1 .. Len(words)
    BY <1>3
  <2> DEFINE k == CHOOSE k \in found : \A j \in found : k <= j
  <2>2. \E x \in found : \A j \in found : x <= j
    <3> HIDE DEF found
    <3> QED
      BY <1>6, <2>1, SmallestFound
  <2>3. k \in found /\ \A j \in found : k <= j
    BY <2>2
  <2>4. Consume(k) /\ write_state' = 1
    BY <1>2, <1>6
  <2> HIDE DEF k
  <2>5. k \in 1 .. Len(words) /\ words[k] = Sync /\ k \in 1 .. req.size
    BY <2>1, <2>3
  <2>6. ASSUME NEW i \in 1 .. k - 1 PROVE words[i] # Sync
    <3>1. i \in 1 .. req.size /\ ~(k <= i)
      BY <1>3, <2>5
    <3>2. i \notin found
      BY <2>3, <3>1
    <3> QED
      BY <3>1, <3>2
  <2>7. Progress(w, SubSeq(words, k + 1, Len(words)), 1, this)
    <3> HIDE DEF found
    <3> QED
      BY <1>3, <2>5, <2>6, FirstSync
  <2> HIDE DEF found
  <2> QED
    BY <1>1, <1>3, <1>4, <2>4, <2>7, ConsumedSearch, AnsweredRight DEF Return
<1> QED
  BY <1>5, <1>6

LEMMA UnderrunSearch ==
    ASSUME WholeInv, OneChannel, Level > BodyWords, fch_driver = 1, Underrun
    PROVE  SearchRight' /\ AskedRight'
<1>1. /\ pc = "write" /\ write_state = 1 /\ req.size < BodyWords /\ Return("ok") /\ write_state' = 0
      /\ UNCHANGED <<disk, stream, writing, write_drive>>
  BY DEF Underrun
<1> DEFINE w == writing[channel]
           S == WordsOf(writing[channel].images)
<1>2. /\ drive \in FloppyDrive /\ channel \in Channel /\ w \in Writings /\ w.drive = drive
      /\ words \in Seq(S) /\ Len(words) \in Nat /\ req.size \in 1 .. Len(words)
      /\ Progress(w, words, 1, this) /\ write_drive = drive[2] /\ words = stream[channel]
      /\ req.size >= Level \/ req.size = Len(words)
  BY <1>1, WriteSearch
<1> HIDE DEF w, S
<1>3. Len(words) < BodyWords
  BY <1>1, <1>2, ImageAssumption
<1>4. Progress(w, words, 0, this)
  BY <1>2, <1>3, TooFewLeft
<1>5. Progress(writing'[channel], stream'[channel],
               StateOf(writing'[channel].drive, write_drive', write_state'),
               disk'[writing'[channel].drive])
  BY <1>1, <1>2, <1>4 DEF StateOf, w, this
<1> QED
  BY <1>1, <1>2, <1>5, OneSearch, AnsweredRight DEF Return

LEMMA NoSecondSyncSearch ==
    ASSUME WholeInv, OneChannel, fch_driver = 1, NoSecondSync
    PROVE  SearchRight' /\ AskedRight'
<1>1. /\ pc = "write" /\ write_state = 1 /\ words[1] # Sync /\ Return("ok") /\ write_state' = 0
      /\ Consume(1) /\ UNCHANGED <<disk, writing, write_drive>>
  BY DEF NoSecondSync
<1> DEFINE w == writing[channel]
           S == WordsOf(writing[channel].images)
<1>2. /\ drive \in FloppyDrive /\ channel \in Channel /\ w \in Writings /\ w.drive = drive
      /\ words \in Seq(S) /\ Len(words) \in Nat /\ req.size \in 1 .. Len(words)
      /\ Progress(w, words, 1, this) /\ write_drive = drive[2]
      /\ stream = [c \in Channel |-> stream[c]]
  BY <1>1, WriteSearch
<1>3. w = writing'[channel] /\ this = disk'[drive]
  BY <1>1 DEF this
<1> HIDE DEF w, S
<1>4. 1 \in 1 .. Len(words)
  BY <1>2
<1>5. Progress(w, SubSeq(words, 1 + 1, Len(words)), 0, this)
  BY <1>1, <1>2, <1>4, OneSync
<1> QED
  BY <1>1, <1>2, <1>3, <1>5, ConsumedSearch, AnsweredRight DEF Return

LEMMA ReadBodySearch ==
    ASSUME WholeInv, OneChannel, Level > BodyWords, NearlyWhole, fch_driver = 1, ReadBody
    PROVE  SearchRight' /\ AskedRight'
<1>1. /\ pc = "write" /\ write_state = 1 /\ req.size >= BodyWords /\ words[1] = Sync
      /\ Return("ok") /\ write_state' = 0 /\ UNCHANGED write_drive
  BY DEF ReadBody
<1>2. PICK there \in req.size .. Len(words) :
          LET k == IF there > BodyWords THEN BodyWords + 1 ELSE there
              b == SubSeq(words, 2, k)
          IN /\ Consume(k)
             /\ IF IsBody(b) /\ Intact(b[1][2], req.track) /\ ~this.prot
                THEN WriteSector(b[1][2]) ELSE UNCHANGED <<disk, writing>>
  BY DEF ReadBody
<1> DEFINE w == writing[channel]
           S == WordsOf(writing[channel].images)
           k == IF there > BodyWords THEN BodyWords + 1 ELSE there
           b == BodyOf(words, k)
<1>3. /\ drive \in FloppyDrive /\ channel \in Channel /\ w \in Writings /\ w.drive = drive
      /\ words \in Seq(S) /\ Len(words) \in Nat /\ req.size \in 1 .. Len(words)
      /\ Progress(w, words, 1, this) /\ write_drive = drive[2] /\ req.track = w.track
      /\ req.size >= Level \/ req.size = Len(words)
      /\ stream = [c \in Channel |-> stream[c]]
  BY <1>1, WriteSearch
<1>4. /\ Consume(k)
      /\ IF IsBody(b) /\ Intact(b[1][2], req.track) /\ ~this.prot
         THEN WriteSector(b[1][2]) ELSE UNCHANGED <<disk, writing>>
  BY <1>2 DEF BodyOf
<1>5. this \in AdfDisks /\ DisksRight /\ WritingRight
  BY <1>1, WriteFacts DEF WholeInv, FloppyInv
<1>6. k = IF there > BodyWords THEN BodyWords + 1 ELSE there
  OBVIOUS
<1>7. BodyWords \in Nat \ {0}
  BY ImageAssumption
<1>8. k \in 1 .. Len(words) /\ k \in 0 .. Len(words)
  BY <1>3, <1>6, <1>7
<1> HIDE DEF S, k, b
\* What becomes of the disk is as it is said of a sector that was read.
<1>9. ASSUME NEW new, Written(w, b, this, new)
      PROVE  Progress(w, SubSeq(words, k + 1, Len(words)), 0, new)
  <2>1. Written(w, BodyOf(words, k), this, new)
    BY <1>9 DEF b
  <2> HIDE DEF w
  <2> QED
    BY <1>1, <1>3, <1>6, <1>8, <2>1, SectorTaken
\* What is not expected any more.
<1>10. ASSUME NEW u \in Writings, u.images = w.images, ~u.clean, NEW new
       PROVE  Progress(u, SubSeq(words, k + 1, Len(words)), 0, new)
  <2>1. PICK p : Searched(w, words, p, 1, this)
    BY <1>3 DEF Progress
  <2>2. Searched(u, words, p, 1, this) /\ ~Expected(u)
    BY <1>10, <2>1 DEF Searched, Expected
  <2> QED
    BY <1>3, <1>8, <1>10, <2>2, WordsTaken
<1>11. IsSector(w, b) <=> IsBody(b) /\ Intact(b[1][2], req.track)
  BY <1>3 DEF IsSector
<1>12. CASE IsSector(w, b) /\ ~this.prot
  <2>1. WriteSector(b[1][2])
    BY <1>4, <1>11, <1>12
  <2>2. PICK im : im = b[1][2]
    OBVIOUS
  <2>3. im \in Images /\ Intact(im, req.track)
    <3>1. PICK x \in Images : b = [i \in 1 .. BodyWords |-> <<"body", x, i>>]
      BY <1>12 DEF IsSector, IsBody
    <3>2. 1 \in 1 .. BodyWords
      BY <1>7
    <3>3. b[1] = <<"body", x, 1>>
      BY <3>1, <3>2
    <3>4. b[1][2] = x
      BY <3>3
    <3> QED
      BY <1>11, <1>12, <2>2, <3>4
  <2> DEFINE place == <<im.track, im.sector>>
  <2>4. place \in Sector
    <3>1. im.track \in Nat /\ im.sector \in Nat /\ im.track < Tracks /\ im.sector <= LastSector
      BY <2>3, ImageFacts DEF Intact
    <3>2. im.track \in 0 .. Tracks - 1 /\ im.sector \in 0 .. LastSector
      BY <3>1, ImageAssumption
    <3> QED
      BY <3>2 DEF Sector
  <2> HIDE DEF place
  <2>5. CASE disk' = [disk EXCEPT ![drive].data[place] = im.data] /\ UNCHANGED writing
    <3>1. im.data \in Contents
      BY <2>3 DEF Contents
    <3>2. /\ \A q \in Sector : q # place => disk'[drive].data[q] = this.data[q]
          /\ disk'[drive].data[place] = im.data
      BY <1>3, <1>5, <2>4, <2>5, <3>1, SectorChanged
    <3>3. disk'[drive].format = this.format /\ disk'[drive].prot = this.prot
      <4> DEFINE data == [this.data EXCEPT ![place] = im.data]
                 v == [this EXCEPT !.data = data]
      <4>1. disk = [x \in FloppyDrive |-> disk[x]]
        BY <1>5 DEF DisksRight
      <4>2. disk' = [disk EXCEPT ![drive] = v]
        BY <2>5 DEF this
      <4> HIDE DEF data
      <4>3. v.format = this.format /\ v.prot = this.prot
        BY <1>5 DEF AdfDisks
      <4> HIDE DEF v
      <4>4. disk'[drive] = v
        BY <1>3, <4>1, <4>2
      <4> QED
        BY <4>3, <4>4
    <3>4. \A q \in Sector :
             disk'[drive].data[q] = IF q = place THEN im.data ELSE this.data[q]
      BY <3>2
    <3>5. Written(w, b, this, disk'[drive])
      BY <1>12, <2>2, <3>3, <3>4 DEF Written, place
    <3>6. Progress(writing'[channel], SubSeq(words, k + 1, Len(words)), write_state', disk'[drive])
      BY <1>1, <1>9, <2>5, <3>5
    <3> QED
      BY <1>1, <1>3, <1>4, <2>5, <3>6, ConsumedSearch, AnsweredRight DEF Return
  <2>6. CASE Disturbed(drive)
    <3> DEFINE u == [w EXCEPT !.clean = FALSE]
    <3>1. u \in Writings /\ u.images = w.images /\ ~u.clean /\ u.drive = drive
      BY <1>3 DEF Writings
    <3>2. stream[channel] # << >>
      BY <1>3 DEF words
    <3>3. writing'[channel] = u
      BY <1>3, <2>6, <3>2 DEF Disturbed
    <3> HIDE DEF u
    <3>4. Progress(writing'[channel], SubSeq(words, k + 1, Len(words)), write_state', disk'[drive])
      BY <1>1, <1>10, <3>1, <3>3
    <3> QED
      BY <1>1, <1>3, <1>4, <3>1, <3>3, <3>4, ConsumedSearch, AnsweredRight DEF Return
  <2> QED
    BY <2>1, <2>2, <2>5, <2>6 DEF WriteSector, place
<1>13. CASE ~(IsSector(w, b) /\ ~this.prot)
  <2>1. UNCHANGED <<disk, writing>>
    BY <1>4, <1>11, <1>13
  <2>2. disk'[drive] = this
    BY <2>1 DEF this
  <2>3. Progress(w, SubSeq(words, k + 1, Len(words)), 0, this)
    <3>1. CASE ~IsSector(w, b)
      <4>1. Written(w, b, this, this)
        BY <3>1 DEF Written
      <4> QED
        BY <1>9, <4>1
    <3>2. CASE this.prot
      <4>1. PICK p : Searched(w, words, p, 1, this)
        BY <1>3 DEF Progress
      <4>2. ~Expected(w)
        BY <3>2, <4>1 DEF Searched, SectorsFound
      <4> QED
        BY <1>3, <1>8, <4>1, <4>2, WordsTaken
    <3> QED
      BY <1>13, <3>1, <3>2
  <2>4. Progress(writing'[channel], SubSeq(words, k + 1, Len(words)), write_state', disk'[drive])
    BY <1>1, <2>1, <2>2, <2>3
  <2> QED
    BY <1>1, <1>3, <1>4, <2>1, <2>4, ConsumedSearch, AnsweredRight DEF Return
<1> QED
  BY <1>12, <1>13

\* Every step of the driver, of the core and of the menu.
LEMMA WholeFloppyStep ==
    ASSUME WholeInv, OneChannel, Level > BodyWords, NearlyWhole, fch_driver = 1, FloppyNext
    PROVE  SearchRight' /\ AskedRight'
<1>1. ASSUME NEW x \in FloppyDrive,
             InsertDisk(x) \/ EjectDisk(x) \/ ProtectDisk(x) \/ CoreWrites(x) \/ AskRead(x)
      PROVE  SearchRight' /\ AskedRight'
  BY <1>1, MenuKeeps, WritesSearch, ReadAskedSearch
<1>2. ASSUME NEW x \in Channel, CoreStops(x) \/ AskWrite(x)
      PROVE  SearchRight' /\ AskedRight'
  BY <1>2, StopsSearch, WriteAskedSearch
<1>3. CASE FloppyTakes \/ WriteToScp \/ DiskAbort
  BY <1>3, TakenSearch, AbortSearch
<1>4. CASE AdfRead \/ ScpStep \/ ScpRead
  BY <1>4, ReadsSearch
<1>5. CASE FindSync \/ Underrun \/ NoSecondSync \/ ReadBody
  BY <1>5, FindSyncSearch, UnderrunSearch, NoSecondSyncSearch, ReadBodySearch
<1> QED
  BY <1>1, <1>2, <1>3, <1>4, <1>5 DEF FloppyNext, FloppyDriver

LEMMA WholeStep ==
    ASSUME WholeInv, OneChannel, Level > BodyWords, NearlyWhole, [Next]_vars
    PROVE  WholeInv'
<1>1. FloppyInv'
  BY FloppyChannelStep DEF WholeInv
<1>2. CASE FloppyStep
  BY <1>1, <1>2, WholeFloppyStep DEF FloppyStep, WholeInv
<1>3. CASE TapeStep
  <2>1. fch_driver' = 2 /\ UNCHANGED <<disk, stream, writing, write_state, write_drive>>
    BY <1>3 DEF TapeStep, floppyVars
  <2> QED
    BY <1>1, <2>1, SearchStays DEF WholeInv
<1>4. CASE SetDriver
  <2>1. /\ pc' = "idle" /\ phase' = "idle"
        /\ stream' = [c \in Channel |-> << >>] /\ writing' = [c \in Channel |-> Nothing]
    BY <1>4 DEF SetDriver
  <2>2. SearchRight'
    BY <2>1, SearchStep, NothingExpected
  <2> QED
    BY <1>1, <2>1, <2>2, AnsweredRight DEF WholeInv
<1>5. CASE UNCHANGED vars
  <2>1. UNCHANGED <<phase, req, pc, fch_driver, disk, stream, writing, write_state, write_drive>>
    BY <1>5 DEF vars, lineVars, floppyVars
  <2>2. AskedRight' <=> AskedRight
    BY <2>1 DEF AskedRight, channel, drive, words
  <2> QED
    BY <1>1, <2>1, <2>2, SearchStays DEF WholeInv
<1> QED
  BY <1>2, <1>3, <1>4, <1>5 DEF Next

LEMMA WholeBegins == Init => WholeInv
<1> SUFFICES ASSUME Init PROVE WholeInv
  OBVIOUS
<1>1. /\ stream = [c \in Channel |-> << >>] /\ writing = [c \in Channel |-> Nothing]
      /\ pc = "idle" /\ phase = "idle"
  BY DEF Init, FloppyInit, LineInit
<1>2. SearchRight
  BY <1>1, NothingExpected DEF SearchRight
<1>3. AskedRight
  BY <1>1 DEF AskedRight
<1> QED
  BY <1>2, <1>3, FloppyBegins DEF WholeInv

LEMMA WholeIsRight == WholeInv => WholeSectors
<1> SUFFICES ASSUME WholeInv, NEW x \in Channel, stream[x] = << >>, writing[x].clean
             PROVE  LET w == writing[x]
                        Good(i) == w.images[i].syncs = 2 /\ Intact(w.images[i], w.track)
                        At(i) == <<w.images[i].track, w.images[i].sector>>
                    IN \A i \in DOMAIN w.images :
                          Good(i) /\ (\A j \in DOMAIN w.images : j > i /\ Good(j) => At(i) # At(j))
                              => disk[w.drive].data[At(i)] = w.images[i].data
  BY DEF WholeSectors
<1>1. PICK w \in Writings : w = writing[x]
  BY DEF WholeInv, FloppyInv, WritingRight
<1>2. Progress(w, << >>, StateOf(w.drive, write_drive, write_state), disk[w.drive])
  BY <1>1 DEF WholeInv, SearchRight
<1>3. ASSUME NEW i \in DOMAIN w.images, GoodOne(w, i),
             \A j \in DOMAIN w.images : j > i /\ GoodOne(w, j) => PlaceOf(w, i) # PlaceOf(w, j)
      PROVE  disk[w.drive].data[PlaceOf(w, i)] = w.images[i].data
  <2>1. Expected(w)
    <3>1. w.images # << >>
      BY <1>3
    <3> QED
      BY <1>1, <3>1 DEF Expected
  <2> QED
    BY <1>2, <1>3, <2>1, AllFound
<1> QED
  BY <1>1, <1>3 DEF GoodOne, PlaceOf

\* When a core has handed over all the words of a track, every intact sector among
\* them is on the disk, however the driver's state machine came upon it between
\* gaps, lone sync words, broken sectors and requests of any sizes, and whatever
\* it remembered of earlier writes (FileIO_Drv01_ADF_Write, fileio_drv01_floppy.c:236).
\* One channel holds the drives, since the state is shared by all; the core
\* announces a sector's words and one more, or the rest; and no broken sector is
\* shorter by more than a word, since it takes the next one's words with it.
THEOREM SectorsWhole ==
    ASSUME OneChannel, Level > BodyWords, NearlyWhole
    PROVE  Spec => []WholeSectors
<1>1. Init => WholeInv
  BY WholeBegins
<1>2. WholeInv /\ [Next]_vars => WholeInv'
  BY WholeStep
<1>3. WholeInv => WholeSectors
  BY WholeIsRight
<1> QED
  BY <1>1, <1>2, <1>3, PTL DEF Spec
=============================================================================
