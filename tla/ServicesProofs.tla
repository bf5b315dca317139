--------------------------- MODULE ServicesProofs ---------------------------
(***************************************************************************)
(* Services every component uses.  The serial port, for any buffer and    *)
(* lines of any length: the buffer, the two areas of the DMA controller    *)
(* and what was printed agree, wherever the controller is when USART_Putc  *)
(* looks at it, until characters overfill the buffer.  The allocator, for  *)
(* any heap and any users: memory is in order, and callers see malloc and  *)
(* free.  The key decoder, for any receive ring and any mixture of users:  *)
(* the keys are returned, once and in order, until the first slip.         *)
(***************************************************************************)
EXTENDS Terminal, FreeList, Integers, FiniteSetTheorems, SequenceTheorems,
        WellFoundedInduction, TLAPS

-----------------------------------------------------------------------------
(* Places in the ring.                                                      *)

LEMMA Wrap ==
    ASSUME NEW b \in Nat \ {0}, NEW x \in 0 .. 2 * b - 1
    PROVE  x % b = IF x < b THEN x ELSE x - b
<1>1. CASE x < b
  BY <1>1
<1>2. CASE x >= b
  <2>1. x - b \in 0 .. b - 1 /\ x = 1 * b + (x - b)
    BY <1>2
  <2> QED BY <2>1
<1> QED BY <1>1, <1>2

LEMMA WrapNext ==
    ASSUME NEW b \in Nat \ {0}, NEW x \in 0 .. b - 1
    PROVE  (x + 1) % b = IF x + 1 < b THEN x + 1 ELSE 0
<1>1. CASE x + 1 < b
  BY <1>1
<1>2. CASE x + 1 = b
  BY <1>2
<1> QED BY <1>1, <1>2

LEMMA Element ==
    ASSUME NEW S, NEW s \in Seq(S), NEW i \in 1 .. Len(s)
    PROVE  s[i] \in S
OBVIOUS

\* The place j characters before the next to be written.
Back(j) == IF wrptr >= j THEN wrptr - j ELSE BufLen + wrptr - j

\* The number of characters that are written and not handed over.
Fill == IF txptr <= wrptr THEN wrptr - txptr ELSE BufLen + wrptr - txptr

LEMMA FilledIs ==
    ASSUME TypeOK
    PROVE  Filled = [ptr |-> txptr, count |-> Fill] /\ Fill \in 0 .. BufLen - 1
<1>1. txptr \in 0 .. BufLen - 1 /\ wrptr \in 0 .. BufLen - 1 /\ BufLen \in Nat \ {0}
  BY LengthAssumption DEF TypeOK
<1> DEFINE x == BufLen + wrptr - txptr
<1>2. x \in 0 .. 2 * BufLen - 1
  BY <1>1
<1>3. x % BufLen = IF x < BufLen THEN x ELSE x - BufLen
  BY <1>1, <1>2, Wrap
<1>4. x % BufLen = Fill
  BY <1>1, <1>3 DEF Fill
<1> QED BY <1>1, <1>4 DEF Filled, Fill

-----------------------------------------------------------------------------
(* The invariant.                                                           *)

\* What was printed and not sent lies in the ring before the place of the next
\* character, in order.
Content == \A k \in 1 .. Len(owed) : txbuf[Back(Len(owed) + 1 - k)] = owed[k]

\* It is split into the current area, the next, and what is not handed over.
Parts ==
    /\ Len(owed) = cur.count + nxt.count + Fill /\ Len(owed) <= BufLen
    /\ cur.count > 0 => cur.ptr = Back(Len(owed))
    /\ nxt.count > 0 => nxt.ptr = Back(Fill + nxt.count)

\* A barrier where the current area began has not been passed by the next
\* character, after the end of the ring or before.
Barred ==
    ~stale /\ cur.count > 0 =>
        /\ barrier <= cur.ptr
        /\ pc = "ready" /\ nxt.count = 0 => wrptr < barrier \/ cur.ptr < wrptr

\* What holds until the ring is overfilled.
Whole == ~garbled /\ Content /\ Parts /\ Barred

\* Of lines of any length: what is not handed over does not go over the end of
\* the ring, and the next area is free when there is something to hand over.
Shape ==
    /\ TypeOK
    /\ pc = "ready" => txptr <= wrptr
    /\ pc # "ready" => nxt.count = 0 /\ (txptr <= wrptr \/ wrptr = 0)
    /\ nxt.count > 0 => Fill = 0
    /\ ~full /\ pc # "ready" => Fill > 0

PrintInv == Shape /\ (full \/ Whole)

\* The types of what the arithmetic is about.
LEMMA Numbers ==
    ASSUME TypeOK
    PROVE  /\ BufLen \in Nat \ {0} /\ MaxLine \in Nat \ {0} /\ Ids \in Nat
           /\ txptr \in 0 .. BufLen - 1 /\ wrptr \in 0 .. BufLen - 1
           /\ barrier \in 0 .. BufLen - 1
           /\ cur.ptr \in 0 .. BufLen /\ cur.count \in 0 .. BufLen - 1
           /\ nxt.ptr \in 0 .. BufLen /\ nxt.count \in 0 .. BufLen - 1
           /\ cur.ptr + cur.count <= BufLen /\ nxt.ptr + nxt.count <= BufLen
           /\ cur = [ptr |-> cur.ptr, count |-> cur.count]
           /\ nxt = [ptr |-> nxt.ptr, count |-> nxt.count]
           /\ line \in 0 .. MaxLine - 1
           /\ Len(owed) \in Nat /\ Fill \in 0 .. BufLen - 1
<1>1. Len(owed) \in Nat
  BY DEF TypeOK
<1>2. Fill \in 0 .. BufLen - 1
  BY FilledIs
<1> QED BY <1>1, <1>2, LengthAssumption DEF TypeOK, Area

LEMMA PrintInit == Init => PrintInv
<1> SUFFICES ASSUME Init PROVE PrintInv
  OBVIOUS
<1>1. TypeOK
  <2>1. {garbled, stale, full} \subseteq BOOLEAN
    BY DEF Init
  <2>2. /\ cur \in Area /\ nxt \in Area
        /\ cur.ptr + cur.count <= BufLen /\ nxt.ptr + nxt.count <= BufLen
    BY LengthAssumption DEF Init, Area
  <2> QED BY <2>1, <2>2, LengthAssumption DEF Init, TypeOK
<1>2. Len(owed) = 0 /\ Fill = 0
  BY DEF Init, Fill
<1>3. Shape
  BY <1>1, <1>2 DEF Init, Shape
<1>4. Whole
  BY <1>2, LengthAssumption DEF Init, Whole, Content, Parts, Barred
<1> QED BY <1>3, <1>4 DEF PrintInv

-----------------------------------------------------------------------------
(* The steps.                                                               *)

\* The number of the next character.
LEMMA IdIs == TypeOK => Id \in 0 .. Ids - 1
<1> SUFFICES ASSUME TypeOK PROVE Id \in 0 .. Ids - 1
  OBVIOUS
<1>1. Ids \in Nat \ {0} /\ owed \in Seq(0 .. Ids - 1)
  BY LengthAssumption DEF TypeOK
<1>2. CASE owed = << >>
  BY <1>1, <1>2 DEF Id
<1>3. CASE owed # << >>
  <2>1. Len(owed) \in 1 .. Len(owed)
    BY <1>1, <1>3
  <2> DEFINE last == owed[Len(owed)]
  <2>2. last \in 0 .. Ids - 1
    BY <1>1, <2>1, Element
  <2>3. Id = (last + 1) % Ids
    BY <1>3 DEF Id
  <2> HIDE DEF last
  <2>4. (last + 1) % Ids = IF last + 1 < Ids THEN last + 1 ELSE 0
    BY <1>1, <2>2, WrapNext
  <2> QED BY <1>1, <2>2, <2>3, <2>4
<1> QED BY <1>2, <1>3

\* What a character changes but the history.
LEMMA PutcIs ==
    ASSUME Shape, NEW newline \in BOOLEAN, Putc(newline)
    PROVE  /\ pc = "ready" /\ nxt.count = 0 /\ line + 1 <= MaxLine
           /\ newline \/ line + 1 < MaxLine
           /\ txbuf' = [txbuf EXCEPT ![wrptr] = Id]
           /\ wrptr' = IF wrptr + 1 < BufLen THEN wrptr + 1 ELSE 0
           /\ pc' \in {"ready", "flush"}
           /\ pc' = "ready" => wrptr' # 0 /\ wrptr' # barrier
           /\ line' = IF newline THEN 0 ELSE line + 1
           /\ full' = (full \/ Overfills)
           /\ UNCHANGED <<txptr, barrier, cur, nxt, garbled, stale>>
           /\ Fill' = IF wrptr' = 0 /\ txptr = 0 THEN 0 ELSE Fill + 1
<1>n. /\ BufLen \in Nat \ {0} /\ wrptr \in 0 .. BufLen - 1 /\ line \in 0 .. MaxLine - 1
      /\ txptr \in 0 .. BufLen - 1 /\ MaxLine \in Nat
  BY Numbers DEF Shape
<1>1. (wrptr + 1) % BufLen = IF wrptr + 1 < BufLen THEN wrptr + 1 ELSE 0
  BY <1>n, WrapNext
<1>2. wrptr' = IF wrptr + 1 < BufLen THEN wrptr + 1 ELSE 0
  BY <1>1 DEF Putc
<1>3. /\ pc' \in {"ready", "flush"}
      /\ pc' = "ready" => wrptr' # 0 /\ wrptr' # barrier
  BY DEF Putc, MustFlush
<1>4. txptr <= wrptr /\ txptr' = txptr
  BY DEF Putc, Shape
<1>5. Fill' = IF wrptr' = 0 /\ txptr = 0 THEN 0 ELSE Fill + 1
  BY <1>n, <1>2, <1>4 DEF Fill
<1> QED BY <1>n, <1>2, <1>3, <1>5 DEF Putc

\* Every length of a line keeps the shape.
LEMMA PutcShape ==
    ASSUME Shape, full \/ Whole, NEW newline \in BOOLEAN, Putc(newline)
    PROVE  Shape'
<1>1. /\ pc = "ready" /\ nxt.count = 0 /\ line + 1 <= MaxLine
      /\ newline \/ line + 1 < MaxLine
      /\ txbuf' = [txbuf EXCEPT ![wrptr] = Id]
      /\ wrptr' = IF wrptr + 1 < BufLen THEN wrptr + 1 ELSE 0
      /\ pc' \in {"ready", "flush"}
      /\ pc' = "ready" => wrptr' # 0
      /\ line' = IF newline THEN 0 ELSE line + 1
      /\ full' = (full \/ Overfills)
      /\ UNCHANGED <<txptr, barrier, cur, nxt, garbled, stale>>
      /\ Fill' = IF wrptr' = 0 /\ txptr = 0 THEN 0 ELSE Fill + 1
  BY PutcIs
<1>t. TypeOK /\ txptr <= wrptr
  BY <1>1 DEF Shape
<1>n. /\ BufLen \in Nat \ {0} /\ MaxLine \in Nat \ {0} /\ Ids \in Nat \ {0}
      /\ txptr \in 0 .. BufLen - 1 /\ wrptr \in 0 .. BufLen - 1
      /\ line \in 0 .. MaxLine - 1 /\ Fill \in 0 .. BufLen - 1
      /\ cur.ptr \in 0 .. BufLen /\ cur.count \in 0 .. BufLen - 1 /\ Len(owed) \in Nat
      /\ barrier \in 0 .. BufLen - 1
  BY <1>t, Numbers, LengthAssumption
<1>2. Id \in 0 .. Ids - 1
  BY <1>t, IdIs
<1>3. TypeOK'
  <2>1. txbuf' \in [0 .. BufLen - 1 -> 0 .. Ids]
    BY <1>1, <1>2, <1>n, <1>t DEF TypeOK
  <2>2. owed' \in Seq(0 .. Ids - 1)
    <3>1. owed \in Seq(0 .. Ids - 1) /\ << >> \in Seq(0 .. Ids - 1)
      BY <1>t DEF TypeOK
    <3>2. Append(owed, Id) \in Seq(0 .. Ids - 1)
      BY <1>2, <3>1
    <3>3. owed' = IF full' THEN << >> ELSE Append(owed, Id)
      BY DEF Putc
    <3> QED BY <3>1, <3>2, <3>3
  <2>3. wrptr' \in 0 .. BufLen - 1 /\ line' \in 0 .. MaxLine - 1
    BY <1>1, <1>n
  <2>4. {garbled', stale'} \subseteq BOOLEAN
    BY <1>1, <1>t DEF TypeOK
  <2>5. full' \in BOOLEAN
    BY Zenon, <1>1
  <2> QED BY <1>1, <2>1, <2>2, <2>3, <2>4, <2>5, <1>t DEF TypeOK
<1>4. txptr' <= wrptr' \/ wrptr' = 0
  BY <1>1, <1>n, <1>t
\* A ring that one line takes whole is overfilled.
<1>5. ASSUME ~full' PROVE Fill' > 0
  <2>1. ~full /\ ~Overfills
    BY <1>1, <1>5
  <2>2. CASE wrptr' = 0 /\ txptr = 0
    <3>1. Fill = BufLen - 1
      BY <1>1, <1>n, <2>2 DEF Fill
    <3>2. Len(owed) = cur.count + Fill /\ Len(owed) <= BufLen
      BY <1>1, <1>n, <2>1 DEF Whole, Parts
    <3>3. cur.count # 0 \/ Len(owed) < BufLen - 1
      BY <1>n, <2>1 DEF Overfills
    <3>4. cur.count = 1
      BY <1>n, <3>1, <3>2, <3>3
    <3>5. cur.ptr = Back(Len(owed)) /\ Len(owed) = BufLen
      BY <1>n, <2>1, <3>1, <3>2, <3>4 DEF Whole, Parts
    <3>6. wrptr = BufLen - 1 /\ cur.ptr = wrptr
      BY <1>1, <1>n, <2>2, <3>5 DEF Back
    <3>7. ~stale
      BY <1>n, <2>1, <3>4, <3>5 DEF Overfills
    <3> QED BY <1>1, <1>n, <2>1, <3>4, <3>6, <3>7 DEF Whole, Barred
  <2>3. CASE ~(wrptr' = 0 /\ txptr = 0)
    BY <1>1, <1>n, <2>3
  <2> QED BY <2>2, <2>3
<1>6. nxt'.count = 0
  BY <1>1
<1> QED BY <1>1, <1>3, <1>4, <1>5, <1>6 DEF Shape

\* A character that does not overfill the ring is stored behind the others.
LEMMA PutcKeeps ==
    ASSUME Shape, Whole, NEW newline \in BOOLEAN, Putc(newline), ~full'
    PROVE  Whole'
<1> DEFINE n == Len(owed)
<1>t. TypeOK /\ Content /\ Parts /\ Barred /\ ~garbled
  BY DEF Shape, Whole
<1>n. /\ BufLen \in Nat \ {0} /\ Ids \in Nat
      /\ txptr \in 0 .. BufLen - 1 /\ wrptr \in 0 .. BufLen - 1
      /\ barrier \in 0 .. BufLen - 1 /\ cur.ptr \in 0 .. BufLen
      /\ cur.count \in 0 .. BufLen - 1 /\ n \in Nat /\ Fill \in 0 .. BufLen - 1
  BY <1>t, Numbers
<1>1. /\ pc = "ready" /\ nxt.count = 0 /\ txptr <= wrptr
      /\ txbuf' = [txbuf EXCEPT ![wrptr] = Id]
      /\ wrptr' = IF wrptr + 1 < BufLen THEN wrptr + 1 ELSE 0
      /\ pc' = "ready" => wrptr' # 0 /\ wrptr' # barrier
      /\ full' = (full \/ Overfills)
      /\ UNCHANGED <<txptr, barrier, cur, nxt, garbled, stale>>
      /\ Fill' = IF wrptr' = 0 /\ txptr = 0 THEN 0 ELSE Fill + 1
  BY PutcIs DEF Shape
<1>2. owed' = Append(owed, Id)
  BY DEF Putc
<1>4. Id \in 0 .. Ids - 1
  BY <1>t, IdIs
<1>5. Len(owed') = n + 1
  BY <1>2, <1>4, <1>t DEF TypeOK
<1>o. ~Overfills
  BY <1>1
<1>3. n = cur.count + Fill /\ n <= BufLen /\ (cur.count > 0 => cur.ptr = Back(n))
  BY <1>1, <1>n, <1>t DEF Parts
\* There is room: behind a fresh barrier as the next character is not past it,
\* and otherwise as it overfills nothing.
<1>6. n < BufLen /\ (cur.count = 0 => n < BufLen - 1)
  <2>1. CASE cur.count = 0
    BY <1>3, <1>n, <1>o, <2>1 DEF Overfills
  <2>2. CASE cur.count > 0 /\ stale
    BY <1>3, <1>n, <1>o, <2>2 DEF Overfills
  <2>3. CASE cur.count > 0 /\ ~stale
    <3>1. wrptr # cur.ptr
      BY <1>1, <1>n, <1>t, <2>3 DEF Barred
    <3>2. cur.ptr = Back(n) /\ n <= BufLen /\ n \in Nat
      BY <1>3, <1>n, <2>3
    <3> HIDE DEF n
    <3>3. n # BufLen
      BY <1>n, <3>1, <3>2 DEF Back
    <3> QED BY <1>n, <2>3, <3>2, <3>3
  <2> QED BY <1>n, <2>1, <2>2, <2>3
<1>7. Fill' = Fill + 1
  <2>1. SUFFICES ASSUME wrptr' = 0, txptr = 0 PROVE FALSE
    BY <1>1
  <2>2. Fill = BufLen - 1
    BY <1>1, <1>n, <2>1 DEF Fill
  <2>3. n >= BufLen - 1 /\ (cur.count > 0 => n >= BufLen)
    BY <1>3, <1>n, <2>2
  <2> QED BY <1>6, <1>n, <2>3
<1> DEFINE NewBack(j) == IF wrptr' >= j THEN wrptr' - j ELSE BufLen + wrptr' - j
\* Every place is one further back.
<1>9. ASSUME NEW j \in 1 .. n
      PROVE  NewBack(j + 1) = Back(j) /\ Back(j) # wrptr /\ Back(j) \in 0 .. BufLen - 1
  <2>1. n < BufLen /\ n \in Nat
    BY <1>6, <1>n
  <2> HIDE DEF n
  <2> QED BY <1>1, <2>1, <1>n DEF Back
<1>10. NewBack(1) = wrptr
  BY <1>1, <1>n
<1>12. Content'
  <2> SUFFICES ASSUME NEW k \in 1 .. n + 1
               PROVE  txbuf'[NewBack(n + 2 - k)] = owed'[k]
    BY <1>5, <1>n DEF Content, Back
  <2> HIDE DEF NewBack
  <2>1. CASE k = n + 1
    <3>1. owed'[k] = Id
      BY <1>2, <1>4, <2>1, <1>t DEF TypeOK
    <3>2. txbuf'[wrptr] = Id
      BY <1>1, <1>n, <1>t DEF TypeOK
    <3>3. n + 2 - k = 1
      BY <1>n, <2>1
    <3> QED BY <1>10, <3>1, <3>2, <3>3
  <2>2. CASE k # n + 1
    <3> DEFINE j == n + 1 - k
    <3>1. k \in 1 .. n /\ j \in 1 .. n /\ n + 2 - k = j + 1
      BY <1>n, <2>2
    <3>2. owed'[k] = owed[k]
      BY <1>2, <1>4, <3>1, <1>t DEF TypeOK
    <3>3. txbuf'[Back(j)] = txbuf[Back(j)]
      BY <1>1, <1>9, <3>1, <1>t DEF TypeOK
    <3>4. txbuf[Back(j)] = owed[k]
      BY <3>1, <1>t DEF Content
    <3> HIDE DEF j
    <3> QED BY <1>9, <3>1, <3>2, <3>3, <3>4
  <2> QED BY <2>1, <2>2
<1>13. Parts'
  <2>1. cur.count > 0 => cur.ptr = NewBack(n + 1)
    <3>1. cur.count > 0 => n \in 1 .. n
      BY <1>3, <1>n
    <3> QED BY <1>3, <1>9, <3>1
  <2>2. n + 1 = cur.count + nxt.count + (Fill + 1) /\ n + 1 <= BufLen
    <3>1. n = cur.count + Fill /\ n < BufLen /\ n \in Nat
      BY <1>3, <1>6, <1>n
    <3> HIDE DEF n
    <3> QED BY <1>1, <1>n, <3>1
  <2>3. /\ Len(owed)' = n + 1 /\ cur' = cur /\ nxt' = nxt /\ nxt.count = 0
        /\ cur.count > 0 => cur.ptr = IF wrptr' >= n + 1 THEN wrptr' - (n + 1)
                                      ELSE BufLen + wrptr' - (n + 1)
    BY <1>1, <1>5, <2>1
  <2> HIDE DEF n
  <2> QED BY <1>7, <2>2, <2>3 DEF Parts, Back
<1>14. Barred'
  BY <1>1, <1>n, <1>t DEF Barred
<1> QED BY <1>1, <1>12, <1>13, <1>14, <1>t DEF Whole

\* What is handed over lies in the ring, before the next character.
LEMMA HandedOver ==
    ASSUME Shape, pc # "ready"
    PROVE  /\ Filled = [ptr |-> txptr, count |-> Fill] /\ Filled \in Area
           /\ txptr + Fill <= BufLen
           /\ Fill > 0 => txptr = Back(Fill) /\ wrptr # txptr
<1>1. Filled = [ptr |-> txptr, count |-> Fill]
  BY FilledIs DEF Shape
<1>2. /\ BufLen \in Nat \ {0} /\ txptr \in 0 .. BufLen - 1 /\ wrptr \in 0 .. BufLen - 1
      /\ Fill \in 0 .. BufLen - 1
  BY Numbers DEF Shape
<1>3. txptr <= wrptr \/ wrptr = 0
  BY DEF Shape
<1>4. txptr + Fill <= BufLen /\ (Fill > 0 => txptr = Back(Fill) /\ wrptr # txptr)
  BY <1>2, <1>3 DEF Fill, Back
<1> QED BY <1>1, <1>2, <1>4 DEF Area

LEMMA FlushKeepsAll ==
    ASSUME PrintInv, Flush
    PROVE  PrintInv'
<1> DEFINE n == Len(owed)
<1>t. Shape /\ TypeOK /\ pc = "flush" /\ nxt.count = 0 /\ (full \/ Whole)
  BY DEF PrintInv, Flush, Shape
<1>n. /\ BufLen \in Nat \ {0} /\ txptr \in 0 .. BufLen - 1 /\ wrptr \in 0 .. BufLen - 1
      /\ cur.count \in 0 .. BufLen - 1 /\ n \in Nat /\ Fill \in 0 .. BufLen - 1
  BY <1>t, Numbers
<1>f. /\ Filled = [ptr |-> txptr, count |-> Fill] /\ Filled \in Area
      /\ txptr + Fill <= BufLen /\ (Fill > 0 => txptr = Back(Fill) /\ wrptr # txptr)
  BY <1>t, HandedOver
<1>1. CASE cur.count = 0
  <2>1. /\ cur' = Filled /\ txptr' = wrptr /\ barrier' = txptr /\ pc' = "ready"
        /\ stale' = FALSE /\ UNCHANGED <<txbuf, wrptr, nxt, line, owed, garbled, full>>
    BY <1>1, <1>t DEF Flush
  <2>2. cur'.ptr = txptr /\ cur'.count = Fill /\ Fill' = 0
    BY <1>n, <1>f, <2>1 DEF Fill
  <2>3. Shape'
    <3>1. cur' \in Area /\ cur'.ptr + cur'.count <= BufLen
      BY <1>f, <2>1, <2>2
    <3>2. TypeOK'
      BY <1>t, <1>n, <2>1, <3>1 DEF TypeOK
    <3> QED BY <1>n, <1>t, <2>1, <2>2, <3>2 DEF Shape
  <2>4. ASSUME ~full PROVE Whole'
    <3>1. Whole /\ Fill > 0
      BY <1>t, <2>4 DEF Shape
    <3>2. Content'
      BY <2>1, <3>1 DEF Whole, Content, Back
    <3>3. Parts'
      <4>1. n = Fill /\ n <= BufLen
        BY <1>1, <1>n, <1>t, <3>1 DEF Whole, Parts
      <4>2. Len(owed)' = n /\ \A j : Back(j)' = IF wrptr >= j THEN wrptr - j ELSE BufLen + wrptr - j
        BY <2>1 DEF Back
      <4> HIDE DEF n
      <4> QED BY <1>n, <1>t, <1>f, <2>1, <2>2, <3>1, <4>1, <4>2 DEF Parts, Back
    <3>4. Barred'
      BY <1>n, <1>f, <2>1, <2>2, <3>1 DEF Barred
    <3> QED BY <2>1, <3>1, <3>2, <3>3, <3>4 DEF Whole
  <2> QED BY <1>t, <2>1, <2>3, <2>4 DEF PrintInv
<1>2. CASE cur.count # 0
  <2>1. /\ pc' = "queue"
        /\ UNCHANGED <<txbuf, txptr, wrptr, barrier, cur, nxt, line, owed, garbled, stale, full>>
    BY <1>2 DEF Flush
  <2>2. Fill' = Fill
    BY <2>1 DEF Fill
  <2>3. TypeOK'
    BY <1>t, <2>1 DEF TypeOK
  <2>4. Shape'
    BY <1>t, <2>1, <2>2, <2>3 DEF Shape
  <2>5. Whole => Whole'
    BY <1>t, <2>1, <2>2 DEF Whole, Content, Parts, Barred, Back
  <2> QED BY <1>t, <2>1, <2>4, <2>5 DEF PrintInv
<1> QED BY <1>1, <1>2

LEMMA QueueKeeps ==
    ASSUME PrintInv, Queue
    PROVE  PrintInv'
<1> DEFINE n == Len(owed)
<1>t. Shape /\ TypeOK /\ pc = "queue" /\ nxt.count = 0 /\ (full \/ Whole)
  BY DEF PrintInv, Queue, Shape
<1>n. /\ BufLen \in Nat \ {0} /\ txptr \in 0 .. BufLen - 1 /\ wrptr \in 0 .. BufLen - 1
      /\ cur.count \in 0 .. BufLen - 1 /\ n \in Nat /\ Fill \in 0 .. BufLen - 1
  BY <1>t, Numbers
<1>f. /\ Filled = [ptr |-> txptr, count |-> Fill] /\ Filled \in Area
      /\ txptr + Fill <= BufLen /\ (Fill > 0 => txptr = Back(Fill) /\ wrptr # txptr)
  BY <1>t, HandedOver
<1>1. /\ nxt' = Filled /\ txptr' = wrptr /\ pc' = "ready"
      /\ UNCHANGED <<txbuf, wrptr, barrier, cur, line, owed, garbled, stale, full>>
  BY <1>t DEF Queue
<1>2. nxt'.ptr = txptr /\ nxt'.count = Fill /\ Fill' = 0
  BY <1>n, <1>f, <1>1 DEF Fill
<1>3. Shape'
  <2>1. nxt' \in Area /\ nxt'.ptr + nxt'.count <= BufLen
    BY <1>f, <1>1, <1>2
  <2>2. TypeOK'
    BY <1>t, <1>n, <1>1, <2>1 DEF TypeOK
  <2> QED BY <1>n, <1>1, <1>2, <2>2 DEF Shape
<1>4. ASSUME ~full PROVE Whole'
  <2>1. Whole /\ Fill > 0
    BY <1>t, <1>4 DEF Shape
  <2>2. Content'
    BY <1>1, <2>1 DEF Whole, Content, Back
  <2>3. Parts'
    <3>1. n = cur.count + Fill /\ n <= BufLen /\ (cur.count > 0 => cur.ptr = Back(n))
      BY <1>n, <1>t, <2>1 DEF Whole, Parts
    <3>2. Len(owed)' = n /\ \A j : Back(j)' = IF wrptr >= j THEN wrptr - j ELSE BufLen + wrptr - j
      BY <1>1 DEF Back
    <3> HIDE DEF n
    <3> QED BY <1>n, <1>f, <1>1, <1>2, <2>1, <3>1, <3>2 DEF Parts, Back
  <2>4. Barred'
    BY <1>1, <1>2, <2>1 DEF Whole, Barred
  <2> QED BY <1>1, <2>1, <2>2, <2>3, <2>4 DEF Whole
<1> QED BY <1>t, <1>1, <1>3, <1>4 DEF PrintInv

LEMMA ReloadKeeps ==
    ASSUME PrintInv, Reload
    PROVE  PrintInv'
<1>1. /\ cur.count = 0 /\ nxt.count > 0 /\ cur' = nxt /\ nxt' = [nxt EXCEPT !.count = 0]
      /\ stale' = (barrier # nxt.ptr)
      /\ UNCHANGED <<txbuf, txptr, wrptr, barrier, pc, line, owed, garbled, full>>
  BY DEF Reload, buffer
<1>n. /\ BufLen \in Nat \ {0} /\ nxt.ptr \in 0 .. BufLen /\ nxt.count \in 0 .. BufLen - 1
      /\ wrptr \in 0 .. BufLen - 1 /\ barrier \in 0 .. BufLen - 1
      /\ Len(owed) \in Nat /\ Fill \in Nat
      /\ nxt = [ptr |-> nxt.ptr, count |-> nxt.count] /\ nxt.ptr + nxt.count <= BufLen
  BY Numbers DEF PrintInv, Shape
<1>t. Shape /\ TypeOK /\ pc = "ready" /\ Fill = 0 /\ (full \/ Whole)
  BY <1>1, <1>n DEF PrintInv, Shape
<1>2. /\ nxt'.ptr = nxt.ptr /\ nxt'.count = 0 /\ nxt' \in Area /\ cur' \in Area
      /\ cur'.ptr + cur'.count <= BufLen /\ nxt'.ptr + nxt'.count <= BufLen
  <2>1. nxt' = [ptr |-> nxt.ptr, count |-> 0]
    BY <1>1, <1>n
  <2> QED BY <1>1, <1>n, <2>1 DEF Area
<1>f. Fill' = Fill
  BY <1>1 DEF Fill
<1>3. Shape'
  <2>1. stale' \in BOOLEAN
    BY Zenon, <1>1
  <2>2. TypeOK'
    BY <1>t, <1>1, <1>2, <2>1 DEF TypeOK
  <2> QED BY <1>t, <1>1, <1>2, <1>f, <2>2 DEF Shape
<1>4. ASSUME ~full PROVE Whole'
  <2>1. ~garbled /\ Content /\ Parts
    BY <1>t, <1>4 DEF Whole
  <2>2. Content'
    BY <1>1, <2>1 DEF Content, Back
  <2>3. Len(owed) = nxt.count /\ nxt.ptr = Back(Len(owed)) /\ Len(owed) <= BufLen
    BY <1>t, <1>n, <1>1, <2>1 DEF Parts
  <2>4. Parts'
    BY <1>t, <1>n, <1>1, <1>2, <1>f, <2>3 DEF Parts, Back
  <2>5. wrptr # nxt.ptr
    BY <1>n, <1>1, <2>3 DEF Back
  <2>6. Barred'
    <3>1. ~stale' => barrier = nxt.ptr
      BY <1>1
    <3> QED BY <1>n, <1>1, <2>5, <3>1 DEF Barred
  <2> QED BY <1>1, <2>1, <2>2, <2>4, <2>6 DEF Whole
<1> QED BY <1>1, <1>3, <1>4 DEF PrintInv

\* What becomes of a sequence whose first element is taken.
LEMMA TailIs ==
    ASSUME NEW S, NEW s \in Seq(S), s # << >>
    PROVE  /\ Len(s) \in Nat \ {0} /\ Tail(s) \in Seq(S) /\ Len(Tail(s)) = Len(s) - 1
           /\ Head(s) = s[1] /\ \A k \in 1 .. Len(s) - 1 : Tail(s)[k] = s[k + 1]
OBVIOUS
\* The DMA controller sends the next character of its area.
LEMMA SendShape ==
    ASSUME Shape, Send
    PROVE  Shape' /\ cur'.ptr = cur.ptr + 1 /\ cur'.count = cur.count - 1
<1>t. TypeOK
  BY DEF Shape
<1>n. /\ BufLen \in Nat \ {0} /\ cur.ptr \in 0 .. BufLen
      /\ cur.count \in 1 .. BufLen - 1 /\ cur.ptr + cur.count <= BufLen
  <2>1. /\ BufLen \in Nat \ {0} /\ cur.ptr \in 0 .. BufLen
        /\ cur.count \in 0 .. BufLen - 1 /\ cur.ptr + cur.count <= BufLen
    BY <1>t, Numbers
  <2> QED BY <2>1 DEF Send
<1>1. /\ UNCHANGED <<txbuf, txptr, wrptr, barrier, nxt, pc, line, stale, full>>
      /\ cur' = [ptr |-> cur.ptr + 1, count |-> cur.count - 1]
  BY DEF Send, buffer
<1>2. /\ cur' \in Area /\ cur'.ptr = cur.ptr + 1 /\ cur'.count = cur.count - 1
      /\ cur'.ptr + cur'.count <= BufLen
  BY <1>n, <1>1 DEF Area
<1>3. owed' \in Seq(0 .. Ids - 1)
  <2>1. owed \in Seq(0 .. Ids - 1) /\ owed' = IF owed = << >> THEN owed ELSE Tail(owed)
    BY <1>t DEF TypeOK, Send
  <2>2. owed # << >> => Tail(owed) \in Seq(0 .. Ids - 1)
    BY <2>1, TailIs
  <2> QED BY <2>1, <2>2
<1>4. garbled' \in BOOLEAN
  BY Zenon DEF Send
<1>5. TypeOK'
  BY <1>t, <1>1, <1>2, <1>3, <1>4 DEF TypeOK
<1>6. Fill' = Fill
  BY <1>1 DEF Fill
<1> QED BY <1>1, <1>2, <1>5, <1>6 DEF Shape

\* Until the ring is overfilled that is the first that is owed.
LEMMA SendKeeps ==
    ASSUME Shape, Whole, ~full, Send
    PROVE  Whole'
<1> DEFINE n == Len(owed)
<1>t. TypeOK /\ Content /\ Parts /\ Barred /\ ~garbled
  BY DEF Shape, Whole
<1>n. /\ BufLen \in Nat \ {0} /\ n \in Nat /\ Fill \in 0 .. BufLen - 1
      /\ wrptr \in 0 .. BufLen - 1 /\ cur.ptr \in 0 .. BufLen
      /\ cur.count \in 1 .. BufLen - 1 /\ nxt.count \in Nat
      /\ cur.ptr + cur.count <= BufLen
  <2>1. cur.ptr + cur.count <= BufLen
    BY <1>t DEF TypeOK
  <2> QED BY <1>t, <2>1, Numbers DEF Send
<1>1. /\ UNCHANGED <<txbuf, txptr, wrptr, barrier, nxt, pc, line, stale, full>>
      /\ cur' = [ptr |-> cur.ptr + 1, count |-> cur.count - 1]
  BY DEF Send, buffer
<1>2. /\ n = cur.count + nxt.count + Fill /\ n \in 1 .. BufLen /\ cur.ptr = Back(n)
      /\ owed # << >> /\ owed \in Seq(0 .. Ids - 1)
  <2>1. n = cur.count + nxt.count + Fill /\ n <= BufLen /\ cur.ptr = Back(n)
    BY <1>t, <1>n DEF Parts
  <2>2. n >= 1
    <3> DEFINE c == cur.count
               m == nxt.count
               fill == Fill
    <3>1. n = c + m + fill /\ c >= 1 /\ c \in Nat /\ m \in Nat /\ fill \in Nat
      BY <1>n, <2>1
    <3> HIDE DEF n, c, m, fill
    <3> QED BY <3>1
  <2>3. owed \in Seq(0 .. Ids - 1)
    BY <1>t DEF TypeOK
  <2>4. owed # << >>
    BY <2>2
  <2> QED BY <1>n, <2>1, <2>2, <2>3, <2>4
\* The place after the one that is sent, without the ring's end in between.
<1>p. /\ cur.ptr + 1 \in 0 .. BufLen /\ cur.count - 1 \in 0 .. BufLen - 1
      /\ (cur.ptr + 1) + (cur.count - 1) <= BufLen
      /\ cur.count - 1 > 0 => cur.ptr + 1 = Back(n - 1)
      /\ n - 1 = (cur.count - 1) + nxt.count + Fill /\ n - 1 <= BufLen
  <2> DEFINE a == cur.ptr
             c == cur.count
             m == nxt.count
             fill == Fill
  <2>1. /\ BufLen \in Nat \ {0} /\ n \in 1 .. BufLen /\ wrptr \in 0 .. BufLen - 1
        /\ a \in 0 .. BufLen /\ c \in 1 .. BufLen - 1 /\ m \in Nat /\ fill \in Nat
        /\ a + c <= BufLen /\ n = c + m + fill
        /\ a = IF wrptr >= n THEN wrptr - n ELSE BufLen + wrptr - n
    BY <1>n, <1>2 DEF Back
  <2> HIDE DEF n, a, c, m, fill
  <2>2. /\ a + 1 \in 0 .. BufLen /\ c - 1 \in 0 .. BufLen - 1
        /\ (a + 1) + (c - 1) <= BufLen
        /\ n - 1 = (c - 1) + m + fill /\ n - 1 <= BufLen
    BY <2>1
  <2>3. c - 1 > 0 => a + 1 = IF wrptr >= n - 1 THEN wrptr - (n - 1)
                            ELSE BufLen + wrptr - (n - 1)
    BY <2>1
  <2> QED BY <2>2, <2>3 DEF a, c, m, fill, Back
<1>c. cur'.ptr = cur.ptr + 1 /\ cur'.count = cur.count - 1
  BY SendShape
<1>3. owed' = Tail(owed)
  BY <1>2 DEF Send
<1>4. /\ owed' \in Seq(0 .. Ids - 1) /\ Len(owed') = n - 1 /\ Head(owed) = owed[1]
      /\ \A k \in 1 .. n - 1 : owed'[k] = owed[k + 1]
  BY <1>2, <1>3, TailIs
<1>5. ~garbled'
  <2>1. 1 \in 1 .. n /\ n + 1 - 1 = n
    BY <1>2
  <2>2. txbuf[Back(n)] = owed[1]
    BY <1>t, <2>1 DEF Content
  <2> QED BY <1>t, <1>2, <1>4, <2>2 DEF Send
<1>7. Content'
  <2> SUFFICES ASSUME NEW k \in 1 .. n - 1
               PROVE  txbuf[Back(n - k)] = owed'[k]
    BY <1>1, <1>2, <1>4 DEF Content, Back
  <2>1. k + 1 \in 1 .. n /\ n + 1 - (k + 1) = n - k
    BY <1>2
  <2>2. txbuf[Back(n - k)] = owed[k + 1]
    BY <1>t, <2>1 DEF Content
  <2> QED BY <1>4, <2>2
<1>8. Parts'
  <2>1. Len(owed)' = n - 1 /\ Fill' = Fill
    BY <1>1, <1>4 DEF Fill
  <2>2. \A j : Back(j)' = Back(j)
    BY <1>1 DEF Back
  <2>3. nxt.count > 0 => nxt.ptr = Back(Fill + nxt.count)
    BY <1>t DEF Parts
  <2> HIDE DEF n
  <2> QED BY <1>1, <1>c, <1>p, <2>1, <2>2, <2>3 DEF Parts, Back
\* The next character is not the one that is sent next.
<1>9. Barred'
  <2>1. SUFFICES ASSUME ~stale, cur.count - 1 > 0
                 PROVE  /\ barrier <= cur.ptr + 1
                        /\ pc = "ready" /\ nxt.count = 0 => wrptr < barrier \/ cur.ptr + 1 < wrptr
    BY <1>1, <1>c DEF Barred
  <2>n. barrier \in 0 .. BufLen - 1 /\ cur.count > 0
    <3>1. barrier \in 0 .. BufLen - 1
      BY <1>t, Numbers
    <3>2. cur.count > 0
      BY <1>n
    <3> QED BY <3>1, <3>2
  <2>2. /\ barrier <= cur.ptr
        /\ pc = "ready" /\ nxt.count = 0 => wrptr < barrier \/ cur.ptr < wrptr
    BY <1>t, <2>1, <2>n DEF Barred
  <2>3. wrptr # cur.ptr + 1
    <3> DEFINE a == cur.ptr
    <3>1. /\ a = IF wrptr >= n THEN wrptr - n ELSE BufLen + wrptr - n
          /\ n >= 2 /\ n \in Nat /\ n <= BufLen /\ wrptr \in 0 .. BufLen - 1 /\ BufLen \in Nat
      <4> DEFINE c == cur.count
                 m == nxt.count
                 fill == Fill
      <4>1. /\ n = c + m + fill /\ c - 1 > 0 /\ c \in Nat /\ m \in Nat /\ fill \in Nat
        BY <1>n, <1>2, <2>1
      <4> HIDE DEF c, m, fill
      <4>2. a = Back(n) /\ wrptr \in 0 .. BufLen - 1 /\ BufLen \in Nat /\ n \in 1 .. BufLen
        BY <1>n, <1>2
      <4> HIDE DEF n, a
      <4>3. n >= 2 /\ n \in Nat /\ n <= BufLen
        BY <4>1, <4>2
      <4> QED BY <4>2, <4>3 DEF Back
    <3> HIDE DEF n, a
    <3>2. wrptr # a + 1
      BY <3>1
    <3> QED BY <3>2 DEF a
  <2> QED BY <1>n, <2>n, <2>2, <2>3
<1> QED BY <1>5, <1>7, <1>8, <1>9 DEF Whole

-----------------------------------------------------------------------------
(* The theorem.                                                             *)

LEMMA PrintStep == PrintInv /\ [Next]_vars => PrintInv'
<1> SUFFICES ASSUME PrintInv, [Next]_vars PROVE PrintInv'
  OBVIOUS
<1>1. CASE \E newline \in BOOLEAN : Putc(newline)
  <2>1. PICK newline \in BOOLEAN : Putc(newline)
    BY <1>1
  <2>2. Shape /\ (full \/ Whole)
    BY DEF PrintInv
  <2>3. Shape'
    BY <2>1, <2>2, PutcShape
  <2>4. full => full'
    BY <2>1 DEF Putc
  <2>5. ~full' => Whole'
    BY <2>1, <2>2, <2>4, PutcKeeps
  <2> QED BY <2>3, <2>5 DEF PrintInv
<1>2. CASE Flush
  BY <1>2, FlushKeepsAll
<1>3. CASE Queue
  BY <1>3, QueueKeeps
<1>4. CASE Send
  <2>1. Shape /\ (full \/ Whole) /\ full' = full
    BY <1>4 DEF PrintInv, Send
  <2> QED BY <1>4, <2>1, SendShape, SendKeeps DEF PrintInv
<1>5. CASE Reload
  BY <1>5, ReloadKeeps
<1>6. CASE UNCHANGED vars
  BY <1>6 DEF vars, buffer, PrintInv, Shape, Whole, TypeOK, Content, Parts, Barred, Back, Fill
<1> QED BY <1>1, <1>2, <1>3, <1>4, <1>5, <1>6 DEF Next, Work

\* USART_Putc and the DMA controller, with the keys read in between, for a ring and
\* lines of any length: the controller reads nothing outside the ring, and what it
\* sends is what was printed, whole and in order, unless a character was put over
\* what an area that was queued has not sent, or a line took the whole ring.
THEOREM PrintedCorrect == TerminalSpec => []Inv
<1>1. TerminalInit => PrintInv
  BY PrintInit DEF TerminalInit
<1>2. PrintInv /\ [TerminalNext]_allVars => PrintInv'
  <2>1. [TerminalNext]_allVars => [Next]_vars
    BY DEF TerminalNext, Prints, TypesAndReads, allVars
  <2> QED BY <2>1, PrintStep
<1>3. PrintInv => Inv
  <2> SUFFICES ASSUME PrintInv PROVE Inv
    OBVIOUS
  <2>1. TypeOK /\ Filled.count = Fill
    BY FilledIs DEF PrintInv, Shape
  <2> QED BY <2>1 DEF PrintInv, Whole, Parts, Inv, InOrder, NothingLost
<1> QED BY <1>1, <1>2, <1>3, PTL DEF TerminalSpec

-----------------------------------------------------------------------------
(* The allocator: its invariant.  A list nx and sizes nm are arguments, as   *)
(* FreeList_Free changes both in several steps.                             *)

\* The places of free blocks: the root, and the units of the heap.
Place == {Root} \cup Base .. Limit - 1

\* The places L form a ring in address order: each leads to the next above it,
\* the last to the root.
Ring(nx, L) ==
    /\ L \subseteq Place /\ Root \in L
    /\ \A p \in L :
          /\ nx[p] \in L
          /\ IF nx[p] = Root THEN \A q \in L : q <= p
             ELSE p < nx[p] /\ \A q \in L : q <= p \/ nx[p] <= q

\* The blocks B lie in the heap below top, end where the next one starts, and
\* every unit of the heap is in one.
Tiles(B, nm, top) ==
    /\ B \subseteq Base .. top - 1
    /\ \A b \in B : nm[b] >= 1 /\ b + nm[b] <= top
    /\ \A a, b \in B : a < b => a + nm[a] <= b
    /\ \A u \in Base .. top - 1 : \E b \in B : b <= u /\ u < b + nm[b]

\* No free block touches the next one, but perhaps those of X.
Joined(nx, nm, L, X) == \A p \in L : p \in X \/ p = Root \/ p + nm[p] # nx[p]

\* Where the user's heap ends.
Room == Base + user.units

\* A call on the C heap, which never refuses, was bounded to what is there.
Served ==
    request # 0 /\ ~user.once =>
        \/ \E p \in Listed : num[p] >= request
        \/ brk + Wanted <= Room

-----------------------------------------------------------------------------
(* Numbers.                                                                 *)

\* A set of numbers that is not empty has a smallest one.
LEMMA SmallestFound ==
    ASSUME NEW T, T \subseteq Nat, T # {}
    PROVE  \E x \in T : \A y \in T : x <= y
<1>1. PICK x \in T : \A y \in T : ~(<<y, x>> \in OpToRel(<, Nat))
  BY NatLessThanWellFounded, WFMin
<1>2. ASSUME NEW y \in T PROVE x <= y
  <2>1. ~(y < x) BY <1>1 DEF OpToRel
  <2> QED BY <2>1
<1> QED BY <1>2

\* More steps than any walk along the list has.
Turns == HeapUnits + 1

LEMMA UnitsAre == HeapUnits \in Nat /\ Turns \in Nat \ {0} /\ Base = 2 /\ Root = 0 /\ Limit = HeapUnits + 2
BY SizeAssumption DEF Turns, Base, Root, Limit

-----------------------------------------------------------------------------
(* The walk along a list nx from place fl.                                  *)

WalkOf(nx, fl) ==
    CHOOSE w : w = [k \in 0 .. HeapUnits + 1 |-> IF k = 0 THEN fl ELSE nx[w[k - 1]]]

LEMMA WalkIs == Walk = WalkOf(next, freeList)
BY DEF Walk, WalkOf

\* There is such a walk, of any length.
WalkExists(nx, fl, n) == \E w : w = [k \in 0 .. n |-> IF k = 0 THEN fl ELSE nx[w[k - 1]]]

\* By a smallest length that has none.
LEMMA WalkTo ==
    ASSUME NEW nx, NEW fl, NEW n \in Nat
    PROVE  WalkExists(nx, fl, n)
<1> DEFINE T == {m \in Nat : ~WalkExists(nx, fl, m)}
<1> SUFFICES ASSUME T # {} PROVE FALSE OBVIOUS
<1>1. PICK x \in T : \A y \in T : x <= y
  <2>1. T \subseteq Nat OBVIOUS
  <2> HIDE DEF T
  <2> QED BY <2>1, SmallestFound
<1>2. x \in Nat OBVIOUS
<1>3. x # 0
  <2> SUFFICES WalkExists(nx, fl, 0) OBVIOUS
  <2> DEFINE w == [k \in 0 .. 0 |-> fl]
  <2>1. w = [k \in 0 .. 0 |-> IF k = 0 THEN fl ELSE nx[w[k - 1]]] OBVIOUS
  <2> QED BY <2>1 DEF WalkExists
<1>4. x - 1 \in Nat BY <1>2, <1>3
<1>5. WalkExists(nx, fl, x - 1)
  <2>1. x - 1 \notin T
    <3> HIDE DEF T
    <3>1. ~(x <= x - 1) BY <1>2, <1>3
    <3> QED BY <1>1, <3>1
  <2> QED BY <2>1, <1>4 DEF T
<1>6. PICK w : w = [k \in 0 .. x - 1 |-> IF k = 0 THEN fl ELSE nx[w[k - 1]]] BY <1>5 DEF WalkExists
<1> DEFINE v == [k \in 0 .. x |-> IF k = x THEN nx[w[x - 1]] ELSE w[k]]
<1>7. \A k \in 0 .. x - 1 : w[k] = IF k = 0 THEN fl ELSE nx[w[k - 1]] BY <1>6
<1>8. ASSUME NEW k \in 0 .. x PROVE v[k] = IF k = 0 THEN fl ELSE nx[v[k - 1]]
  <2>1. CASE k = x
    <3>1. v[k] = nx[w[x - 1]] BY <2>1
    <3>2. k - 1 \in 0 .. x /\ k - 1 # x BY <2>1, <1>2, <1>3
    <3>3. v[k - 1] = w[x - 1] BY <3>2, <2>1
    <3> QED BY <3>1, <3>3, <2>1, <1>3
  <2>2. CASE k # x
    <3>1. k \in 0 .. x - 1 BY <2>2, <1>2
    <3>2. v[k] = w[k] BY <2>2
    <3>3. CASE k = 0 BY <3>1, <3>2, <3>3, <1>7
    <3>4. CASE k # 0
      <4>1. k - 1 \in 0 .. x /\ k - 1 # x BY <3>1, <3>4, <1>2
      <4>2. v[k - 1] = w[k - 1] BY <4>1
      <4>3. w[k] = nx[w[k - 1]] BY <3>1, <3>4, <1>7
      <4> QED BY <3>2, <3>4, <4>2, <4>3
    <3> QED BY <3>3, <3>4
  <2> QED BY <2>1, <2>2
<1>9. v = [k \in 0 .. x |-> v[k]] OBVIOUS
<1>10. v = [k \in 0 .. x |-> IF k = 0 THEN fl ELSE nx[v[k - 1]]]
  <2> HIDE DEF v
  <2> QED BY <1>8, <1>9
<1>11. WalkExists(nx, fl, x)
  <2> HIDE DEF v
  <2> QED BY <1>10 DEF WalkExists
<1> QED BY <1>11

LEMMA WalkSteps ==
    ASSUME NEW nx, NEW fl
    PROVE  /\ WalkOf(nx, fl)[0] = fl
           /\ \A k \in 1 .. Turns : WalkOf(nx, fl)[k] = nx[WalkOf(nx, fl)[k - 1]]
<1> DEFINE W == WalkOf(nx, fl)
<1>1. W = [k \in 0 .. HeapUnits + 1 |-> IF k = 0 THEN fl ELSE nx[W[k - 1]]]
  <2>1. HeapUnits + 1 \in Nat BY UnitsAre
  <2>2. WalkExists(nx, fl, HeapUnits + 1) BY <2>1, WalkTo
  <2> QED BY <2>2 DEF WalkOf, WalkExists
<1> HIDE DEF W
<1>2. 0 \in 0 .. HeapUnits + 1 BY UnitsAre
<1>3. W[0] = fl BY <1>1, <1>2
<1>4. \A k \in 1 .. Turns : k \in 0 .. HeapUnits + 1 /\ k # 0 BY UnitsAre DEF Turns
<1>5. \A k \in 1 .. Turns : W[k] = nx[W[k - 1]] BY <1>1, <1>4
<1> QED BY <1>3, <1>5 DEF W

LEMMA WalkInside ==
    ASSUME NEW nx, NEW L, NEW fl \in L, Ring(nx, L)
    PROVE  \A k \in 0 .. Turns : WalkOf(nx, fl)[k] \in L
<1> DEFINE T == {k \in 0 .. Turns : WalkOf(nx, fl)[k] \notin L}
<1> SUFFICES ASSUME T # {} PROVE FALSE OBVIOUS
<1>0. T \subseteq Nat BY UnitsAre
<1>1. PICK x \in T : \A y \in T : x <= y
  <2> HIDE DEF T
  <2> QED BY <1>0, SmallestFound
<1>2. x # 0 BY WalkSteps
<1>3. x \in 1 .. Turns /\ x - 1 \in 0 .. Turns /\ x - 1 < x BY <1>2, UnitsAre
<1>4. WalkOf(nx, fl)[x - 1] \in L
  <2>1. x - 1 \notin T BY <1>1, <1>3
  <2> QED BY <2>1, <1>3
<1>5. WalkOf(nx, fl)[x] = nx[WalkOf(nx, fl)[x - 1]] BY <1>3, WalkSteps
<1>6. WalkOf(nx, fl)[x] \in L BY <1>4, <1>5 DEF Ring
<1> QED BY <1>6

-----------------------------------------------------------------------------
(* How far a place is behind fl, around the ring.                           *)

Rank(a) == IF a = 0 THEN 0 ELSE a - 1
Dist(fl, a) == IF Rank(fl) <= Rank(a) THEN Rank(a) - Rank(fl) ELSE Rank(a) + Turns - Rank(fl)

LEMMA RankIs ==
    ASSUME NEW a \in Place
    PROVE  Rank(a) \in 0 .. Turns - 1 /\ a \in Nat /\ (a = 0 \/ a \in 2 .. Turns)
BY UnitsAre DEF Place, Rank, Turns

LEMMA RankOrder ==
    ASSUME NEW a \in Place, NEW b \in Place
    PROVE  (a < b <=> Rank(a) < Rank(b)) /\ (Rank(a) = Rank(b) => a = b)
BY RankIs DEF Rank

LEMMA DistIs ==
    ASSUME NEW fl \in Place, NEW a \in Place
    PROVE  Dist(fl, a) \in 0 .. Turns - 1 /\ (Dist(fl, a) = 0 <=> a = fl)
<1>1. Rank(fl) \in 0 .. Turns - 1 /\ Rank(a) \in 0 .. Turns - 1 BY RankIs
<1>2. Rank(a) = Rank(fl) => a = fl BY RankOrder
<1>3. Turns \in Nat BY UnitsAre
<1> QED BY <1>1, <1>2, <1>3 DEF Dist

LEMMA DistSame ==
    ASSUME NEW fl \in Place, NEW a \in Place, NEW b \in Place, Dist(fl, a) = Dist(fl, b)
    PROVE  a = b
<1>1. Rank(fl) \in 0 .. Turns - 1 /\ Rank(a) \in 0 .. Turns - 1 /\ Rank(b) \in 0 .. Turns - 1 BY RankIs
<1>3. Turns \in Nat BY UnitsAre
<1>4. Rank(a) = Rank(b) BY <1>1, <1>3 DEF Dist
<1> QED BY <1>4, RankOrder

\* Of the places of the ring none lies between a place and the next.
LEMMA DistNext ==
    ASSUME NEW nx, NEW L, NEW fl \in L, Ring(nx, L), NEW p \in L
    PROVE  /\ nx[p] # fl => Dist(fl, p) < Dist(fl, nx[p])
           /\ \A q \in L : Dist(fl, p) < Dist(fl, q) => nx[p] # fl /\ Dist(fl, nx[p]) <= Dist(fl, q)
<1> DEFINE r == nx[p]
<1>1. L \subseteq Place /\ r \in L BY DEF Ring
<1>2. CASE r = Root
  <2>1. \A q \in L : q <= p BY <1>2 DEF Ring
  <2>2. Rank(r) = 0 BY <1>2, UnitsAre DEF Rank
  <2>3. ASSUME NEW q \in L PROVE Rank(q) <= Rank(p)
    <3>1. ~(p < q) BY <2>1, <1>1, RankIs
    <3>2. ~(Rank(p) < Rank(q)) BY <3>1, <1>1, RankOrder
    <3> QED BY <3>2, <1>1, RankIs
  <2>4. Rank(fl) \in 0 .. Turns - 1 /\ Rank(p) \in 0 .. Turns - 1 /\ Turns \in Nat BY <1>1, RankIs, UnitsAre
  <2>5. Rank(fl) <= Rank(p) BY <2>3
  <2>6. r # fl => Rank(fl) # 0 BY <1>1, <2>2, RankOrder
  <2>7. r # fl => Dist(fl, p) < Dist(fl, r) BY <2>2, <2>4, <2>5, <2>6 DEF Dist
  <2>8. ASSUME NEW q \in L, Dist(fl, p) < Dist(fl, q) PROVE r # fl /\ Dist(fl, r) <= Dist(fl, q)
    <3>1. Rank(q) \in 0 .. Turns - 1 /\ Rank(q) <= Rank(p) BY <1>1, <2>3, RankIs
    <3>2. Rank(q) < Rank(fl) BY <3>1, <2>4, <2>5, <2>8 DEF Dist
    <3>3. Rank(fl) # 0 BY <3>1, <3>2
    <3>4. r # fl BY <3>3, <2>2
    <3> QED BY <3>1, <3>2, <3>3, <3>4, <2>2, <2>4 DEF Dist
  <2> QED BY <2>7, <2>8
<1>3. CASE r # Root
  <2>1. p < r /\ \A q \in L : q <= p \/ r <= q BY <1>3 DEF Ring
  <2>2. Rank(p) < Rank(r) BY <2>1, <1>1, RankOrder
  <2>3. ASSUME NEW q \in L PROVE Rank(q) <= Rank(p) \/ Rank(r) <= Rank(q)
    <3>1. ~(p < q) \/ ~(q < r) BY <2>1, <1>1, RankIs
    <3>2. ~(Rank(p) < Rank(q)) \/ ~(Rank(q) < Rank(r)) BY <3>1, <1>1, RankOrder
    <3> QED BY <3>2, <1>1, RankIs
  <2>4. Rank(fl) \in 0 .. Turns - 1 /\ Rank(p) \in 0 .. Turns - 1 /\ Rank(r) \in 0 .. Turns - 1 /\ Turns \in Nat
    BY <1>1, RankIs, UnitsAre
  <2>5. Rank(fl) <= Rank(p) \/ Rank(r) <= Rank(fl) BY <2>3
  <2>6. r # fl => Rank(fl) # Rank(r) BY <1>1, RankOrder
  <2>7. r # fl => Dist(fl, p) < Dist(fl, r) BY <2>2, <2>4, <2>5, <2>6 DEF Dist
  <2>8. ASSUME NEW q \in L, Dist(fl, p) < Dist(fl, q) PROVE r # fl /\ Dist(fl, r) <= Dist(fl, q)
    <3>1. Rank(q) \in 0 .. Turns - 1 BY <1>1, RankIs
    <3>2. Rank(q) <= Rank(p) \/ Rank(r) <= Rank(q) BY <2>3
    <3>3. Rank(r) # Rank(fl)
      <4> SUFFICES ASSUME Rank(r) = Rank(fl) PROVE FALSE OBVIOUS
      <4> QED BY <3>1, <3>2, <2>2, <2>4, <2>8 DEF Dist
    <3> QED BY <3>1, <3>2, <3>3, <2>2, <2>4, <2>5, <2>8 DEF Dist
  <2> QED BY <2>7, <2>8
<1> QED BY <1>2, <1>3

-----------------------------------------------------------------------------
(* The walk ends, and sees every place of the ring.                         *)

RoundsOf(nx, fl) == {k \in 1 .. HeapUnits + 1 : WalkOf(nx, fl)[k] = fl}
LengthOf(nx, fl) == CHOOSE k \in RoundsOf(nx, fl) : \A j \in RoundsOf(nx, fl) : k <= j
ListedOf(nx, fl) == {WalkOf(nx, fl)[k] : k \in 1 .. LengthOf(nx, fl)}

LEMMA ListedIs ==
    /\ Listed = ListedOf(next, freeList) /\ Listed' = ListedOf(next', freeList')
    /\ Length = LengthOf(next, freeList)
BY DEF Listed, ListedOf, Length, LengthOf, Rounds, RoundsOf, Walk, WalkOf

\* Each step that does not reach fl goes farther from it.
LEMMA WalkReturns ==
    ASSUME NEW nx, NEW L, NEW fl \in L, Ring(nx, L)
    PROVE  RoundsOf(nx, fl) # {}
<1> SUFFICES ASSUME RoundsOf(nx, fl) = {} PROVE FALSE OBVIOUS
<1> DEFINE W == WalkOf(nx, fl)
<1>0. Turns \in Nat \ {0} BY UnitsAre
<1>1. L \subseteq Place /\ fl \in Place BY DEF Ring
<1>2. \A k \in 0 .. Turns : W[k] \in L BY WalkInside
<1>3. \A k \in 1 .. Turns : W[k] = nx[W[k - 1]] /\ W[k] # fl BY WalkSteps DEF RoundsOf, Turns
<1>4. W[0] = fl BY WalkSteps
<1> HIDE DEF W
<1> DEFINE T == {k \in 0 .. Turns : Dist(fl, W[k]) < k}
<1>5. \A k \in 0 .. Turns : Dist(fl, W[k]) \in 0 .. Turns - 1 BY <1>1, <1>2, DistIs
<1>6. T \subseteq Nat BY <1>0
<1>7. Turns \in T BY <1>0, <1>5
<1>8. PICK x \in T : \A y \in T : x <= y
  <2> HIDE DEF T
  <2> QED BY <1>6, <1>7, SmallestFound
<1>9. x \in 0 .. Turns /\ Dist(fl, W[x]) < x OBVIOUS
<1>10. x # 0 BY <1>0, <1>5, <1>9
<1>11. x \in 1 .. Turns /\ x - 1 \in 0 .. Turns /\ ~(x <= x - 1) BY <1>0, <1>9, <1>10
<1>12. ~(Dist(fl, W[x - 1]) < x - 1)
  <2>1. x - 1 \notin T
    <3> HIDE DEF T
    <3> QED BY <1>8, <1>11
  <2> QED BY <2>1, <1>11
<1>13. Dist(fl, W[x - 1]) < Dist(fl, W[x])
  <2>1. W[x - 1] \in L /\ W[x] = nx[W[x - 1]] /\ W[x] # fl BY <1>2, <1>3, <1>11
  <2> QED BY <2>1, DistNext
<1> QED BY <1>0, <1>5, <1>9, <1>11, <1>12, <1>13

LEMMA LengthIs ==
    ASSUME NEW nx, NEW L, NEW fl \in L, Ring(nx, L)
    PROVE  /\ LengthOf(nx, fl) \in 1 .. Turns
           /\ WalkOf(nx, fl)[LengthOf(nx, fl)] = fl
<1>1. RoundsOf(nx, fl) # {} /\ RoundsOf(nx, fl) \subseteq Nat /\ RoundsOf(nx, fl) \subseteq 1 .. Turns
  BY WalkReturns, UnitsAre DEF RoundsOf, Turns
<1>2. \E k \in RoundsOf(nx, fl) : \A j \in RoundsOf(nx, fl) : k <= j BY <1>1, SmallestFound
<1>3. LengthOf(nx, fl) \in RoundsOf(nx, fl) BY <1>2 DEF LengthOf
<1> QED BY <1>1, <1>3 DEF RoundsOf

\* The first step of the walk that is not before q is at q.
LEMMA WalkSees ==
    ASSUME NEW nx, NEW L, NEW fl \in L, Ring(nx, L), NEW q \in L
    PROVE  \E k \in 1 .. LengthOf(nx, fl) : WalkOf(nx, fl)[k] = q
<1> DEFINE W == WalkOf(nx, fl)
<1>0. Turns \in Nat \ {0} BY UnitsAre
<1>1. L \subseteq Place /\ fl \in Place BY DEF Ring
<1>2. PICK l : l = LengthOf(nx, fl) OBVIOUS
<1>3. l \in 1 .. Turns /\ W[l] = fl BY <1>2, LengthIs
<1>4. \A k \in 0 .. Turns : W[k] \in L BY WalkInside
<1>5. \A k \in 1 .. Turns : W[k] = nx[W[k - 1]] BY WalkSteps
<1>6. W[0] = fl BY WalkSteps
<1> HIDE DEF W
<1> SUFFICES \E k \in 1 .. l : W[k] = q BY <1>2 DEF W
<1>7. CASE q = fl BY <1>0, <1>3, <1>7
<1>8. CASE q # fl
  <2> DEFINE T == {k \in 1 .. l : k = l \/ ~(Dist(fl, W[k]) < Dist(fl, q))}
  <2>1. T \subseteq Nat /\ l \in T BY <1>0, <1>3
  <2>2. PICK x \in T : \A y \in T : x <= y
    <3> HIDE DEF T
    <3> QED BY <2>1, SmallestFound
  <2>3. x \in 1 .. l /\ (x = l \/ ~(Dist(fl, W[x]) < Dist(fl, q))) OBVIOUS
  <2>4. x \in 1 .. Turns /\ x - 1 \in 0 .. Turns /\ ~(x <= x - 1) BY <2>3, <1>0, <1>3
  <2>5. Dist(fl, q) \in 0 .. Turns - 1 /\ Dist(fl, q) # 0 /\ Dist(fl, fl) = 0 BY <1>1, <1>8, DistIs
  <2>6. Dist(fl, W[x - 1]) < Dist(fl, q)
    <3>1. CASE x = 1 BY <3>1, <1>6, <2>5, <1>0
    <3>2. CASE x # 1
      <4>1. x - 1 \in 1 .. l /\ x - 1 # l BY <3>2, <2>3, <1>0, <1>3
      <4>2. x - 1 \notin T
        <5> HIDE DEF T
        <5> QED BY <2>2, <2>4
      <4> QED BY <4>1, <4>2
    <3> QED BY <3>1, <3>2
  <2>7. W[x - 1] \in L /\ W[x] = nx[W[x - 1]] /\ W[x] \in L BY <1>4, <1>5, <2>4, <1>0
  <2>8. W[x] # fl /\ Dist(fl, W[x]) <= Dist(fl, q) BY <2>6, <2>7, DistNext
  <2>9. x # l BY <2>8, <1>3
  <2>10. Dist(fl, W[x]) \in 0 .. Turns - 1 BY <2>7, <1>1, DistIs
  <2>11. Dist(fl, W[x]) = Dist(fl, q) BY <2>3, <2>5, <2>8, <2>9, <2>10, <1>0
  <2>12. W[x] = q BY <2>7, <2>11, <1>1, DistSame
  <2> QED BY <2>3, <2>12
<1> QED BY <1>7, <1>8

\* What is linked in a ring is what a walk along the list sees.
LEMMA RingListed ==
    ASSUME NEW nx, NEW L, NEW fl \in L, Ring(nx, L)
    PROVE  ListedOf(nx, fl) = L
<1>1. \A k \in 1 .. LengthOf(nx, fl) : k \in 0 .. Turns BY LengthIs, UnitsAre
<1>2. \A k \in 1 .. LengthOf(nx, fl) : WalkOf(nx, fl)[k] \in L BY <1>1, WalkInside
<1> QED BY <1>2, WalkSees DEF ListedOf

\* A place the walk reaches has the one before it in front of it.
LEMMA Behind ==
    ASSUME NEW nx, NEW L, NEW fl \in L, Ring(nx, L), NEW k \in 1 .. LengthOf(nx, fl)
    PROVE  /\ WalkOf(nx, fl)[k] \in L /\ WalkOf(nx, fl)[k - 1] \in L
           /\ nx[WalkOf(nx, fl)[k - 1]] = WalkOf(nx, fl)[k]
<1>1. k \in 1 .. Turns /\ k \in 0 .. Turns /\ k - 1 \in 0 .. Turns BY LengthIs, UnitsAre
<1> QED BY <1>1, WalkInside, WalkSteps

-----------------------------------------------------------------------------
(* Changes of the list and of the blocks.                                   *)

\* The list nx of the places L, the blocks o in use, and the sizes nm.

Sound(nx, nm, L, o, top, X) ==
    /\ nx \in [Addr -> Addr] /\ nm \in [Addr -> Nat] /\ top \in Base .. Limit
    /\ Ring(nx, L)
    /\ Tiles((L \ {Root}) \cup o, nm, top) /\ L \cap o = {} /\ nm[Root] = 0
    /\ Joined(nx, nm, L, X)

LEMMA Places ==
    ASSUME NEW a \in Place
    PROVE  a \in Nat /\ a \in Addr /\ a >= 0 /\ Root = 0
BY UnitsAre DEF Place, Addr

\* The block behind p is taken out.
LEMMA RingUnlink ==
    ASSUME NEW nx \in [Addr -> Addr], NEW L, Ring(nx, L), NEW p \in L, nx[p] # Root
    PROVE  /\ Ring([nx EXCEPT ![nx[p]] = 0, ![p] = nx[nx[p]]], L \ {nx[p]})
           /\ nx[p] # p /\ nx[p] > p
           /\ \A r \in L : nx[r] = nx[p] => r = p
<1> DEFINE s == nx[p]
<1>1. L \subseteq Place /\ s \in L /\ nx[s] \in L BY DEF Ring
<1>2. p < s /\ s # p /\ \A q \in L : q <= p \/ s <= q BY <1>1, Places DEF Ring
<1>3. \A r \in L : r \in Nat /\ r \in Addr /\ r >= 0 BY <1>1, Places
<1>4. ASSUME NEW r \in L, nx[r] = s PROVE r = p
  <2>1. r < s /\ \A q \in L : q <= r \/ s <= q BY <1>4 DEF Ring
  <2>2. p <= r \/ s <= p BY <2>1
  <2>3. r <= p \/ s <= r BY <1>2
  <2>4. p <= r /\ r <= p BY <1>1, <1>2, <1>3, <2>1, <2>2, <2>3
  <2> QED BY <2>4, <1>3
<1> DEFINE n2 == [nx EXCEPT ![s] = 0, ![p] = nx[s]]
<1>5. n2[p] = nx[s] BY <1>3
<1>6. \A r \in L \ {s, p} : n2[r] = nx[r] BY <1>3
<1>7. nx[s] # s
  <2>1. nx[s] = Root \/ s < nx[s] BY <1>1 DEF Ring
  <2> QED BY <2>1, <1>1, <1>3
<1> HIDE DEF n2
<1>8. ASSUME NEW r \in L \ {s}
      PROVE  /\ n2[r] \in L \ {s}
             /\ IF n2[r] = Root THEN \A q \in L \ {s} : q <= r
                ELSE r < n2[r] /\ \A q \in L \ {s} : q <= r \/ n2[r] <= q
  <2>1. CASE r = p
    <3>1. n2[r] = nx[s] BY <2>1, <1>5
    <3>2. IF nx[s] = Root THEN \A q \in L : q <= s ELSE s < nx[s] /\ \A q \in L : q <= s \/ nx[s] <= q
      BY <1>1 DEF Ring
    <3> QED BY <2>1, <3>1, <3>2, <1>1, <1>2, <1>3, <1>7
  <2>2. CASE r # p
    <3>1. n2[r] = nx[r] /\ nx[r] # s BY <2>2, <1>4, <1>6
    <3> QED BY <3>1 DEF Ring
  <2> QED BY <2>1, <2>2
<1>9. Root \in L \ {s} BY DEF Ring
<1>10. Ring(n2, L \ {s}) BY <1>1, <1>8, <1>9 DEF Ring
<1> QED BY <1>2, <1>4, <1>10 DEF n2

\* A block is put in behind the place where the loop of FreeList_Free stops.
LEMMA RingInsert ==
    ASSUME NEW nx \in [Addr -> Addr], NEW L, Ring(nx, L), NEW p \in L, NEW b \in Place \ L,
           \/ p < b /\ b < nx[p]
           \/ p >= nx[p] /\ (p < b \/ b < nx[p])
    PROVE  /\ Ring([nx EXCEPT ![b] = nx[p], ![p] = b], L \cup {b})
           /\ p < b /\ (nx[p] = Root \/ b < nx[p])
<1>1. L \subseteq Place /\ nx[p] \in L /\ Root \in L BY DEF Ring
<1>3. \A r \in L \cup {b} : r \in Nat /\ r \in Addr /\ r >= 0 BY <1>1, Places
<1>4. b # Root /\ Root = 0 BY <1>1, Places
<1>5. p >= nx[p] => nx[p] = Root BY <1>1, <1>3 DEF Ring
<1>6. p < b /\ (nx[p] = Root \/ b < nx[p]) BY <1>1, <1>3, <1>4, <1>5
<1>7. IF nx[p] = Root THEN \A q \in L : q <= p ELSE p < nx[p] /\ \A q \in L : q <= p \/ nx[p] <= q
  BY DEF Ring
<1> DEFINE n2 == [nx EXCEPT ![b] = nx[p], ![p] = b]
<1>8. n2[p] = b /\ n2[b] = nx[p] BY <1>3
<1>9. \A r \in L \ {p} : n2[r] = nx[r] BY <1>3
<1> HIDE DEF n2
<1>10. ASSUME NEW r \in L \cup {b}
      PROVE  /\ n2[r] \in L \cup {b}
             /\ IF n2[r] = Root THEN \A q \in L \cup {b} : q <= r
                ELSE r < n2[r] /\ \A q \in L \cup {b} : q <= r \/ n2[r] <= q
  <2>1. CASE r = p
    <3>1. n2[r] = b /\ b # Root /\ r < b BY <2>1, <1>4, <1>6, <1>8
    <3>2. ASSUME NEW q \in L \cup {b} PROVE q <= r \/ b <= q
      <4>1. CASE q = b BY <4>1, <1>3
      <4>2. CASE q \in L BY <4>2, <2>1, <1>1, <1>3, <1>6, <1>7
      <4> QED BY <4>1, <4>2
    <3> QED BY <3>1, <3>2
  <2>2. CASE r = b BY <2>2, <1>1, <1>3, <1>4, <1>6, <1>7, <1>8
  <2>3. CASE r # p /\ r # b
    <3>1. r \in L /\ n2[r] = nx[r] /\ nx[r] \in L BY <2>3, <1>9 DEF Ring
    <3>2. IF nx[r] = Root THEN \A q \in L : q <= r ELSE r < nx[r] /\ \A q \in L : q <= r \/ nx[r] <= q
      BY <3>1 DEF Ring
    <3>3. CASE nx[r] = Root
      <4>1. p <= r BY <3>2, <3>3
      <4>2. nx[p] # Root BY <4>1, <2>3, <3>1, <1>3, <1>7
      <4>3. nx[p] <= r BY <3>2, <3>3, <1>1
      <4>4. b <= r BY <4>2, <4>3, <1>1, <1>3, <1>6, <3>1
      <4> QED BY <3>1, <3>2, <3>3, <4>4
    <3>4. CASE nx[r] # Root
      <4>1. b <= r \/ nx[r] <= b
        <5>1. CASE nx[p] = Root
          <6>1. nx[r] <= p BY <5>1, <1>7, <3>1
          <6> QED BY <6>1, <1>3, <1>6, <3>1
        <5>2. CASE nx[p] # Root
          <6>1. r <= p \/ nx[p] <= r BY <5>2, <1>7, <3>1
          <6>2. p <= r \/ nx[r] <= p BY <3>2, <3>4
          <6> QED BY <6>1, <6>2, <5>2, <2>3, <1>1, <1>3, <1>6, <3>1
        <5> QED BY <5>1, <5>2
      <4> QED BY <3>1, <3>2, <3>4, <4>1
    <3> QED BY <3>3, <3>4
  <2> QED BY <2>1, <2>2, <2>3
<1>11. Ring(n2, L \cup {b}) BY <1>1, <1>10 DEF Ring
<1> QED BY <1>6, <1>11 DEF n2

\* A block and the one it touches become one.
LEMMA TilesJoin ==
    ASSUME NEW B, NEW nm \in [Addr -> Nat], NEW top \in Base .. Limit, Tiles(B, nm, top),
           NEW p \in B, NEW s \in B, p + nm[p] = s
    PROVE  Tiles(B \ {s}, [nm EXCEPT ![s] = 0, ![p] = nm[p] + nm[s]], top)
<1>0. top \in Nat /\ Base \in Nat /\ Limit \in Nat /\ Base >= 0 /\ Root = 0 BY UnitsAre
<1>1. B \subseteq Base .. top - 1 /\ \A b \in B : nm[b] >= 1 /\ b + nm[b] <= top BY DEF Tiles
<1>2. \A b \in B : b \in Addr /\ b \in Nat /\ nm[b] \in Nat
  <2>1. \A b \in B : b \in Nat /\ b \in Addr BY <1>0, <1>1 DEF Addr
  <2> QED BY <2>1
<1>3. \A a, b \in B : a < b => a + nm[a] <= b BY DEF Tiles
<1>4. p < s /\ p # s BY <1>1, <1>2
<1> DEFINE m2 == [nm EXCEPT ![s] = 0, ![p] = nm[p] + nm[s]]
<1>5. m2[p] = nm[p] + nm[s] BY <1>2
<1>6. \A b \in B \ {s, p} : m2[b] = nm[b] BY <1>2
<1> HIDE DEF m2
<1>7. \A b \in B \ {s} : m2[b] >= 1 /\ b + m2[b] <= top
  <2>1. p + m2[p] = s + nm[s] BY <1>2, <1>5
  <2> QED BY <2>1, <1>1, <1>2, <1>5, <1>6
<1>8. ASSUME NEW a \in B \ {s}, NEW b \in B \ {s}, a < b PROVE a + m2[a] <= b
  <2>1. CASE a = p
    <3>1. p + nm[p] <= b BY <2>1, <1>3, <1>8
    <3>2. s < b BY <3>1, <1>2
    <3>3. s + nm[s] <= b BY <3>2, <1>3
    <3> QED BY <3>3, <2>1, <1>2, <1>5
  <2>2. CASE a # p
    <3>1. m2[a] = nm[a] BY <2>2, <1>6
    <3> QED BY <3>1, <1>3, <1>8
  <2> QED BY <2>1, <2>2
<1>9. ASSUME NEW u \in Base .. top - 1 PROVE \E b \in B \ {s} : b <= u /\ u < b + m2[b]
  <2>1. PICK b \in B : b <= u /\ u < b + nm[b] BY DEF Tiles
  <2>2. CASE b = s
    <3>1. p <= u /\ u < p + m2[p] BY <2>1, <2>2, <1>2, <1>4, <1>5, <1>0
    <3> QED BY <3>1, <1>4
  <2>3. CASE b = p
    <3>1. p <= u /\ u < p + m2[p] BY <2>1, <2>3, <1>2, <1>5, <1>0
    <3> QED BY <3>1, <1>4
  <2>4. CASE b # s /\ b # p BY <2>1, <2>4, <1>6
  <2> QED BY <2>2, <2>3, <2>4
<1>10. Tiles(B \ {s}, m2, top) BY <1>1, <1>7, <1>8, <1>9 DEF Tiles
<1> QED BY <1>10 DEF m2

\* The same of two free blocks: none gets smaller.
LEMMA JoinSound ==
    ASSUME NEW nx, NEW nm, NEW L, NEW o, NEW top, NEW X, Sound(nx, nm, L, o, top, X),
           NEW p \in L \ {Root}, p + nm[p] = nx[p], nx[p] \notin X
    PROVE  /\ Sound([nx EXCEPT ![nx[p]] = 0, ![p] = nx[nx[p]]],
                    [nm EXCEPT ![nx[p]] = 0, ![p] = nm[p] + nm[nx[p]]],
                    L \ {nx[p]}, o, top, X \ {p})
           /\ nx[p] # Root
           /\ \A x \in L \ {nx[p]} : [nm EXCEPT ![nx[p]] = 0, ![p] = nm[p] + nm[nx[p]]][x] >= nm[x]
           /\ [nm EXCEPT ![nx[p]] = 0, ![p] = nm[p] + nm[nx[p]]][p] >= nm[nx[p]]
<1> DEFINE s == nx[p]
           n2 == [nx EXCEPT ![s] = 0, ![p] = nx[s]]
           m2 == [nm EXCEPT ![s] = 0, ![p] = nm[p] + nm[s]]
           B == (L \ {Root}) \cup o
<1>1. /\ nx \in [Addr -> Addr] /\ nm \in [Addr -> Nat] /\ top \in Base .. Limit
      /\ Ring(nx, L) /\ Tiles(B, nm, top) /\ L \cap o = {} /\ nm[Root] = 0 /\ Joined(nx, nm, L, X)
  BY DEF Sound
<1>2. L \subseteq Place /\ s \in L /\ Root \in L /\ nx[s] \in L BY <1>1 DEF Ring
<1>3. \A r \in L : r \in Nat /\ r \in Addr /\ r >= 0 /\ nm[r] \in Nat
  <2>1. \A r \in L : r \in Nat /\ r \in Addr /\ r >= 0 BY <1>2, Places
  <2> QED BY <2>1, <1>1
<1>4. Root = 0 /\ Root \in Addr BY <1>2, Places
<1>5. s # Root BY <1>3, <1>4
<1>6. Ring(n2, L \ {s}) /\ s # p /\ \A r \in L : nx[r] = s => r = p BY <1>1, <1>5, RingUnlink
<1>7. p \in B /\ s \in B BY <1>2, <1>5
<1>8. Tiles(B \ {s}, m2, top) BY <1>1, <1>7, TilesJoin
<1>9. B \ {s} = ((L \ {s}) \ {Root}) \cup o BY <1>1, <1>2
<1>10. n2 \in [Addr -> Addr] /\ m2 \in [Addr -> Nat]
  <2>0. nm[p] \in Nat /\ nm[s] \in Nat BY <1>2, <1>3
  <2>1. 0 \in Addr /\ nx[s] \in Addr BY <1>2, <1>3, <1>4
  <2>2. nm[p] + nm[s] \in Nat /\ 0 \in Nat BY <2>0
  <2> QED BY <2>1, <2>2, <1>1
<1>11. m2[p] = nm[p] + nm[s] /\ n2[p] = nx[s] BY <1>1, <1>3
<1>12. \A r \in L \ {s, p} : m2[r] = nm[r] /\ n2[r] = nx[r] BY <1>1, <1>3
<1>13. m2[Root] = 0 BY <1>1, <1>2, <1>5, <1>12
<1> HIDE DEF m2, n2
<1>14. ASSUME NEW r \in L \ {s} PROVE r \in X \ {p} \/ r = Root \/ r + m2[r] # n2[r]
  <2>1. CASE r = p
    <3>1. s + nm[s] # nx[s] BY <1>1, <1>2, <1>5 DEF Joined
    <3> QED BY <3>1, <2>1, <1>2, <1>3, <1>11
  <2>2. CASE r # p BY <2>2, <1>1, <1>12 DEF Joined
  <2> QED BY <2>1, <2>2
<1>15. Sound(n2, m2, L \ {s}, o, top, X \ {p})
  BY <1>1, <1>6, <1>8, <1>9, <1>10, <1>13, <1>14 DEF Sound, Joined
<1>16. \A x \in L \ {s} : m2[x] >= nm[x] BY <1>2, <1>3, <1>11, <1>12
<1>17. m2[p] >= nm[s] BY <1>2, <1>3, <1>11
<1> QED BY <1>5, <1>15, <1>16, <1>17 DEF m2, n2

\* A block that was in use is free; it may touch its neighbours.
LEMMA InsertSound ==
    ASSUME NEW nx, NEW nm, NEW L, NEW o, NEW top, NEW b, b \notin L \cup o,
           Sound(nx, nm, L, o \cup {b}, top, {}), NEW p \in L,
           \/ p < b /\ b < nx[p]
           \/ p >= nx[p] /\ (p < b \/ b < nx[p])
    PROVE  /\ Sound([nx EXCEPT ![b] = nx[p], ![p] = b], nm, L \cup {b}, o, top, {p, b})
           /\ b # Root /\ p < b /\ (nx[p] = Root \/ b < nx[p])
           /\ nx[p] \in L /\ p \in Nat /\ b \in Nat /\ p \in Addr /\ b \in Addr
<1> DEFINE n2 == [nx EXCEPT ![b] = nx[p], ![p] = b]
           B == (L \ {Root}) \cup (o \cup {b})
<1>1. /\ nx \in [Addr -> Addr] /\ nm \in [Addr -> Nat] /\ top \in Base .. Limit
      /\ Ring(nx, L) /\ Tiles(B, nm, top) /\ L \cap (o \cup {b}) = {} /\ nm[Root] = 0
      /\ Joined(nx, nm, L, {})
  BY DEF Sound
<1>2. b \in Base .. top - 1 BY <1>1 DEF Tiles
<1>3. b \in Place \ L /\ b # Root BY <1>1, <1>2, UnitsAre DEF Place
<1>4. Ring(n2, L \cup {b}) /\ p < b /\ (nx[p] = Root \/ b < nx[p]) BY <1>1, <1>3, RingInsert
<1>5. L \subseteq Place /\ nx[p] \in L BY <1>1 DEF Ring
<1>6. p \in Nat /\ b \in Nat /\ p \in Addr /\ b \in Addr BY <1>3, <1>5, Places
<1>7. n2 \in [Addr -> Addr] BY <1>1, <1>6
<1>8. B = ((L \cup {b}) \ {Root}) \cup o BY <1>3
<1>9. \A r \in L \ {p} : n2[r] = nx[r]
  <2>1. \A r \in L : r \in Addr BY <1>5, Places
  <2> QED BY <2>1, <1>1
<1>10. Joined(n2, nm, L \cup {b}, {p, b}) BY <1>1, <1>9 DEF Joined
<1>11. (L \cup {b}) \cap o = {} BY <1>1
<1>12. Sound(n2, nm, L \cup {b}, o, top, {p, b})
  BY <1>1, <1>4, <1>7, <1>8, <1>10, <1>11 DEF Sound
<1> QED BY <1>3, <1>4, <1>5, <1>6, <1>12

\* What FreeList_Free makes of the header fields.
NextLinked(p, b, nx, nm) ==
    LET s == nx[p]
        up == b + nm[b] = s
        bx == IF up THEN nx[s] ELSE s
        fx == IF up THEN [nx EXCEPT ![s] = 0] ELSE nx
    IN IF p + nm[p] = b THEN [fx EXCEPT ![b] = 0, ![p] = bx] ELSE [fx EXCEPT ![b] = bx, ![p] = b]

NumLinked(p, b, nx, nm) ==
    LET s == nx[p]
        up == b + nm[b] = s
        bn == IF up THEN nm[b] + nm[s] ELSE nm[b]
        fm == IF up THEN [nm EXCEPT ![s] = 0] ELSE nm
    IN IF p + nm[p] = b THEN [fm EXCEPT ![b] = 0, ![p] = nm[p] + bn] ELSE [fm EXCEPT ![b] = bn]

LEMMA LinkIs ==
    ASSUME NEW p, NEW b, NEW nm, Link(p, b, next, nm)
    PROVE  next' = NextLinked(p, b, next, nm) /\ num' = NumLinked(p, b, next, nm)
BY DEF Link, NextLinked, NumLinked

\* The block given back is in the list, joined with the one after it.
UpLinked(nx, nm, L, o, top, b, p, n2, m2, L2) ==
    /\ Sound(n2, m2, L2, o, top, {p})
    /\ p \in L2 /\ b \in L2
    /\ n2[p] = b /\ m2[p] = nm[p]
    /\ n2[b] = IF b + nm[b] = nx[p] THEN nx[nx[p]] ELSE nx[p]
    /\ m2[b] = IF b + nm[b] = nx[p] THEN nm[b] + nm[nx[p]] ELSE nm[b]
    /\ \A r \in Addr \ {p, b} :
          /\ n2[r] = IF b + nm[b] = nx[p] /\ r = nx[p] THEN 0 ELSE nx[r]
          /\ m2[r] = IF b + nm[b] = nx[p] /\ r = nx[p] THEN 0 ELSE nm[r]
    /\ \A x \in L : \E y \in L2 : m2[y] >= nm[x]

LEMMA LinkUp ==
    ASSUME NEW nx, NEW nm, NEW L, NEW o, NEW top, NEW b, b \notin L \cup o,
           Sound(nx, nm, L, o \cup {b}, top, {}), NEW p \in L,
           \/ p < b /\ b < nx[p]
           \/ p >= nx[p] /\ (p < b \/ b < nx[p])
    PROVE  \E n2, m2, L2 : UpLinked(nx, nm, L, o, top, b, p, n2, m2, L2)
<1> DEFINE s == nx[p]
           n1 == [nx EXCEPT ![b] = s, ![p] = b]
<1>1. /\ nx \in [Addr -> Addr] /\ nm \in [Addr -> Nat] /\ Ring(nx, L)
  BY DEF Sound
<1>2. /\ Sound(n1, nm, L \cup {b}, o, top, {p, b})
      /\ b # Root /\ p < b /\ (s = Root \/ b < s)
      /\ s \in L /\ p \in Nat /\ b \in Nat /\ p \in Addr /\ b \in Addr
  BY InsertSound
<1>3. L \subseteq Place BY <1>1 DEF Ring
<1>4. s \in Nat /\ s \in Addr /\ s >= 0 /\ Root = 0 BY <1>2, <1>3, Places
<1>5. \A r \in L : r \in Addr /\ nm[r] \in Nat
  <2>1. \A r \in L : r \in Addr BY <1>3, Places
  <2> QED BY <2>1, <1>1
<1>6. nm[b] \in Nat /\ nm[s] \in Nat /\ nm[p] \in Nat BY <1>1, <1>2, <1>4
<1>7. n1[p] = b /\ n1[b] = s BY <1>1, <1>2
<1>8. \A r \in Addr \ {p, b} : n1[r] = nx[r] BY <1>1
<1>9. n1 \in [Addr -> Addr] BY <1>2 DEF Sound
<1> HIDE DEF n1
<1>10. CASE b + nm[b] = s
  <2>1. s # p /\ s # b /\ b < s BY <1>10, <1>2, <1>4, <1>6
  <2>2. b + nm[b] = n1[b] /\ n1[b] \notin {p, b} /\ b \in (L \cup {b}) \ {Root}
    BY <2>1, <1>2, <1>7, <1>10
  <2> DEFINE n2 == [n1 EXCEPT ![n1[b]] = 0, ![b] = n1[n1[b]]]
             m2 == [nm EXCEPT ![n1[b]] = 0, ![b] = nm[b] + nm[n1[b]]]
             L2 == (L \cup {b}) \ {n1[b]}
  <2>3. /\ Sound(n2, m2, L2, o, top, {p, b} \ {b})
        /\ \A x \in L2 : m2[x] >= nm[x]
        /\ m2[b] >= nm[n1[b]]
    <3> HIDE DEF s
    <3> QED BY <2>2, <1>2, JoinSound
  <2>4. n1[n1[b]] = nx[s] BY <2>1, <1>4, <1>7, <1>8
  <2>5. n2[b] = nx[s] /\ m2[b] = nm[b] + nm[s] BY <2>4, <1>1, <1>2, <1>7, <1>9
  <2>6. n2[p] = b /\ m2[p] = nm[p] BY <2>1, <1>1, <1>2, <1>7, <1>9
  <2>7. ASSUME NEW r \in Addr \ {p, b}
        PROVE  /\ n2[r] = IF r = s THEN 0 ELSE nx[r]
               /\ m2[r] = IF r = s THEN 0 ELSE nm[r]
    BY <2>1, <1>1, <1>7, <1>8, <1>9
  <2>8. p \in L2 /\ b \in L2 BY <2>1, <1>7
  <2>9. {p, b} \ {b} = {p} BY <1>2
  <2>10. ASSUME NEW x \in L PROVE \E y \in L2 : m2[y] >= nm[x]
    <3>1. CASE x = s BY <3>1, <2>3, <2>8, <1>7
    <3>2. CASE x # s
      <4>1. x \in L2 BY <3>2, <1>7
      <4> QED BY <4>1, <2>3
    <3> QED BY <3>1, <3>2
  <2>11. Sound(n2, m2, L2, o, top, {p}) BY <2>3, <2>9
  <2> HIDE DEF n2, m2, L2
  <2>12. UpLinked(nx, nm, L, o, top, b, p, n2, m2, L2)
    BY <2>5, <2>6, <2>7, <2>8, <2>10, <2>11, <1>10 DEF UpLinked
  <2> QED BY <2>12
<1>11. CASE b + nm[b] # s
  <2>1. Joined(n1, nm, L \cup {b}, {p}) BY <1>2, <1>7, <1>11 DEF Sound, Joined
  <2>2. Sound(n1, nm, L \cup {b}, o, top, {p}) BY <2>1, <1>2 DEF Sound
  <2>3. \A x \in L : \E y \in L \cup {b} : nm[y] >= nm[x] BY <1>5
  <2>4. p \in L \cup {b} /\ b \in L \cup {b} OBVIOUS
  <2>5. UpLinked(nx, nm, L, o, top, b, p, n1, nm, L \cup {b})
    BY <2>2, <2>3, <2>4, <1>7, <1>8, <1>11 DEF UpLinked
  <2> QED BY <2>5
<1> QED BY <1>10, <1>11

\* FreeList_Free keeps the list and the blocks in order; the block it stopped
\* at is still in the list, and no free block became smaller.
LEMMA LinkSound ==
    ASSUME NEW nx, NEW nm, NEW L, NEW o, NEW top, NEW b, b \notin L \cup o,
           Sound(nx, nm, L, o \cup {b}, top, {}), NEW p \in L,
           \/ p < b /\ b < nx[p]
           \/ p >= nx[p] /\ (p < b \/ b < nx[p])
    PROVE  \E L2 :
              /\ Sound(NextLinked(p, b, nx, nm), NumLinked(p, b, nx, nm), L2, o, top, {})
              /\ p \in L2
              /\ \A x \in L \cup {b} : \E y \in L2 : NumLinked(p, b, nx, nm)[y] >= nm[x]
              /\ \A a \in o : NumLinked(p, b, nx, nm)[a] = nm[a]
<1> DEFINE s == nx[p]
           up == b + nm[b] = s
           n3 == NextLinked(p, b, nx, nm)
           m3 == NumLinked(p, b, nx, nm)
<1>1. /\ nx \in [Addr -> Addr] /\ nm \in [Addr -> Nat] /\ Ring(nx, L) /\ nm[Root] = 0
      /\ L \cap (o \cup {b}) = {} /\ Tiles((L \ {Root}) \cup (o \cup {b}), nm, top)
      /\ top \in Base .. Limit
  BY DEF Sound
<1>2. b # Root /\ p < b /\ s \in L /\ p \in Nat /\ b \in Nat /\ p \in Addr /\ b \in Addr
  BY InsertSound
<1>3. L \subseteq Place BY <1>1 DEF Ring
<1>4. s \in Nat /\ s \in Addr /\ s >= 0 /\ Root = 0 BY <1>2, <1>3, Places
<1>5. nm[b] \in Nat /\ nm[s] \in Nat /\ nm[p] \in Nat /\ nx[s] \in Addr BY <1>1, <1>2, <1>4
<1>5a. PICK n2, m2, L2 : UpLinked(nx, nm, L, o, top, b, p, n2, m2, L2) BY LinkUp
<1>6. /\ Sound(n2, m2, L2, o, top, {p})
      /\ p \in L2 /\ b \in L2
      /\ n2[p] = b /\ m2[p] = nm[p]
      /\ n2[b] = IF b + nm[b] = nx[p] THEN nx[nx[p]] ELSE nx[p]
      /\ m2[b] = IF b + nm[b] = nx[p] THEN nm[b] + nm[nx[p]] ELSE nm[b]
      /\ \A r \in Addr \ {p, b} :
            /\ n2[r] = IF b + nm[b] = nx[p] /\ r = nx[p] THEN 0 ELSE nx[r]
            /\ m2[r] = IF b + nm[b] = nx[p] /\ r = nx[p] THEN 0 ELSE nm[r]
      /\ \A x \in L : \E y \in L2 : m2[y] >= nm[x]
  BY <1>5a DEF UpLinked
<1>7. n2 \in [Addr -> Addr] /\ m2 \in [Addr -> Nat] /\ m2[Root] = 0 BY <1>6 DEF Sound
<1>8. m2[b] \in Nat /\ m2[p] \in Nat /\ m2[b] >= nm[b] BY <1>2, <1>5, <1>6, <1>7
<1>9. L2 \subseteq Addr
  <2>1. L2 \subseteq Place BY <1>6 DEF Sound, Ring
  <2> QED BY <2>1, Places
<1>10. o \subseteq Addr
  <2>1. o \subseteq Base .. top - 1 BY <1>1 DEF Tiles
  <2> QED BY <2>1, <1>1, UnitsAre DEF Addr
<1>11. \A a \in o : a \notin {p, b, s} BY <1>1, <1>2
<1>12. up => s # p /\ s # b
  <2>1. up => b < s
    <3>1. nm[b] >= 1 BY <1>1 DEF Tiles
    <3> QED BY <3>1, <1>2, <1>4, <1>5
  <2> QED BY <2>1, <1>2, <1>4
<1>13. DOMAIN n3 = Addr /\ DOMAIN m3 = Addr BY <1>1 DEF NextLinked, NumLinked
<1>14. ASSUME NEW r \in Addr \ {p, b} PROVE n3[r] = n2[r] /\ m3[r] = m2[r]
  BY <1>1, <1>2, <1>4, <1>6 DEF NextLinked, NumLinked
<1>15. CASE p + nm[p] = b
  <2> DEFINE n4 == [n2 EXCEPT ![n2[p]] = 0, ![p] = n2[n2[p]]]
             m4 == [m2 EXCEPT ![n2[p]] = 0, ![p] = m2[p] + m2[n2[p]]]
             L4 == L2 \ {n2[p]}
  <2>1. p # Root BY <1>1, <1>2, <1>4, <1>15
  <2>2. p \in L2 \ {Root} /\ p + m2[p] = n2[p] /\ n2[p] \notin {p} BY <2>1, <1>2, <1>6, <1>15
  <2>3. /\ Sound(n4, m4, L4, o, top, {p} \ {p})
        /\ \A x \in L4 : m4[x] >= m2[x]
        /\ m4[p] >= m2[n2[p]]
    BY <2>2, <1>6, JoinSound
  <2>4. n3 = n4
    <3>1. n3[p] = n2[b] /\ n3[b] = 0
      <4>1. n3[b] = 0 BY <1>1, <1>2, <1>15 DEF NextLinked
      <4>2. n3[p] = IF up THEN nx[s] ELSE s BY <1>1, <1>2, <1>15 DEF NextLinked
      <4> QED BY <4>1, <4>2, <1>6
    <3>2. n4[p] = n2[b] /\ n4[b] = 0 BY <1>2, <1>6, <1>7
    <3>3. \A r \in Addr \ {p, b} : n4[r] = n2[r] BY <1>6, <1>7
    <3>4. n4 = [r \in Addr |-> n4[r]] /\ n3 = [r \in Addr |-> n3[r]]
      <4>1. n4 = [r \in Addr |-> n4[r]] BY <1>7
      <4>2. n3 = [r \in Addr |-> n3[r]] BY <1>1 DEF NextLinked
      <4> QED BY <4>1, <4>2
    <3> HIDE DEF n4, n3
    <3> QED BY <3>1, <3>2, <3>3, <3>4, <1>14
  <2>5. m3 = m4
    <3>1. m3[p] = m2[p] + m2[b] /\ m3[b] = 0
      <4>1. m3[b] = 0 BY <1>1, <1>2, <1>15 DEF NumLinked
      <4>2. m3[p] = nm[p] + IF up THEN nm[b] + nm[s] ELSE nm[b]
        BY <1>1, <1>2, <1>15 DEF NumLinked
      <4> QED BY <4>1, <4>2, <1>6
    <3>2. m4[p] = m2[p] + m2[b] /\ m4[b] = 0 BY <1>2, <1>6, <1>7
    <3>3. \A r \in Addr \ {p, b} : m4[r] = m2[r] BY <1>6, <1>7
    <3>4. m4 = [r \in Addr |-> m4[r]] /\ m3 = [r \in Addr |-> m3[r]]
      <4>1. m4 = [r \in Addr |-> m4[r]] BY <1>7
      <4>2. m3 = [r \in Addr |-> m3[r]] BY <1>1 DEF NumLinked
      <4> QED BY <4>1, <4>2
    <3> HIDE DEF m4, m3
    <3> QED BY <3>1, <3>2, <3>3, <3>4, <1>14
  <2>6. Sound(n3, m3, L4, o, top, {})
    <3>1. {p} \ {p} = {} OBVIOUS
    <3> QED BY <3>1, <2>3, <2>4, <2>5
  <2>7. p \in L4 BY <1>2, <1>6
  <2>8. m3[p] >= m2[b] /\ \A x \in L4 : m3[x] >= m2[x] BY <2>3, <2>5, <1>6
  <2>9. m3 \in [Addr -> Nat] /\ L4 \subseteq Addr BY <2>6, <1>9 DEF Sound
  <2>10. ASSUME NEW y \in L2 PROVE \E z \in L4 : m3[z] >= m2[y]
    <3>1. CASE y = b BY <3>1, <2>7, <2>8
    <3>2. CASE y # b
      <4>1. y \in L4 BY <3>2, <1>6
      <4> QED BY <4>1, <2>8
    <3> QED BY <3>1, <3>2
  <2> HIDE DEF m3, n3, L4
  <2>11. ASSUME NEW x \in L \cup {b} PROVE \E z \in L4 : m3[z] >= nm[x]
    <3>1. PICK y \in L2 : m2[y] >= nm[x] BY <1>6, <1>8
    <3>2. PICK z \in L4 : m3[z] >= m2[y] BY <2>10
    <3>3. x \in Addr BY <1>2, <1>3, Places
    <3>4. m3[z] \in Nat /\ m2[y] \in Nat /\ nm[x] \in Nat BY <3>3, <2>9, <1>1, <1>7, <1>9
    <3> QED BY <3>1, <3>2, <3>4
  <2>12. \A a \in o : m3[a] = nm[a] BY <1>6, <1>10, <1>11, <1>14
  <2> QED BY <2>6, <2>7, <2>11, <2>12 DEF m3, n3
<1>16. CASE p + nm[p] # b
  <2>1. n3[p] = b /\ n3[b] = n2[b]
    <3>1. n3[p] = b BY <1>1, <1>2, <1>16 DEF NextLinked
    <3>2. n3[b] = IF up THEN nx[s] ELSE s BY <1>1, <1>2, <1>16 DEF NextLinked
    <3> QED BY <3>1, <3>2, <1>6
  <2>2. m3[p] = m2[p] /\ m3[b] = m2[b]
    <3>1. m3[p] = nm[p] BY <1>1, <1>2, <1>4, <1>12, <1>16 DEF NumLinked
    <3>2. m3[b] = IF up THEN nm[b] + nm[s] ELSE nm[b] BY <1>1, <1>2, <1>16 DEF NumLinked
    <3> QED BY <3>1, <3>2, <1>6
  <2>3. n2 = [r \in Addr |-> n2[r]] /\ m2 = [r \in Addr |-> m2[r]] BY <1>7
  <2>4. n3 = [r \in Addr |-> n3[r]] BY <1>1 DEF NextLinked
  <2>5. m3 = [r \in Addr |-> m3[r]] BY <1>1 DEF NumLinked
  <2> HIDE DEF n3, m3
  <2>6. n3 = n2 BY <2>1, <2>3, <2>4, <1>6, <1>14
  <2>7. m3 = m2 BY <2>2, <2>3, <2>5, <1>6, <1>14
  <2>8. Joined(n2, m2, L2, {}) BY <1>6, <1>16 DEF Sound, Joined
  <2>9. Sound(n3, m3, L2, o, top, {}) BY <2>6, <2>7, <2>8, <1>6 DEF Sound
  <2>10. \A x \in L \cup {b} : \E y \in L2 : m3[y] >= nm[x] BY <2>7, <1>6, <1>8
  <2>11. \A a \in o : m3[a] = nm[a] BY <1>6, <1>10, <1>11, <1>14
  <2> QED BY <2>9, <2>10, <2>11, <1>6 DEF n3, m3
<1> QED BY <1>15, <1>16

-----------------------------------------------------------------------------
(* The steps of the allocator.                                              *)

\* The inductive invariant: what is listed and what is in use are sound, inside
\* the user's heap, and a call in progress can be served.
HeapInv ==
    /\ ListTypeOK
    /\ Sound(next, num, Listed, owned, brk, {}) /\ freeList \in Listed
    /\ brk <= Room
    /\ Served

\* The search finds a block that is large enough if there is one.
LEMMA SearchSees ==
    ASSUME NEW n, Ring(next, Listed), freeList \in Listed
    PROVE  /\ Enough(n) # {} <=> \E p \in Listed : num[p] >= n
           /\ Enough(n) # {} => (CHOOSE k \in Enough(n) : \A j \in Enough(n) : k <= j) \in Enough(n)
<1>1. Enough(n) # {} <=> \E p \in Listed : num[p] >= n BY DEF Enough, Listed
<1>2. ASSUME Enough(n) # {}
      PROVE  (CHOOSE k \in Enough(n) : \A j \in Enough(n) : k <= j) \in Enough(n)
  <2>1. Length \in 1 .. Turns BY ListedIs, LengthIs
  <2>2. Enough(n) \subseteq Nat BY <2>1, UnitsAre DEF Enough
  <2>3. \E k \in Enough(n) : \A j \in Enough(n) : k <= j BY <2>2, <1>2, SmallestFound
  <2> QED BY <2>3
<1> QED BY <1>1, <1>2

\* A list that is a ring again is seen whole by the next search.
LEMMA ListedNow ==
    ASSUME NEW L, freeList' \in L, Ring(next', L)
    PROVE  Listed' = L
<1>1. ListedOf(next', freeList') = L BY RingListed
<1> QED BY <1>1, ListedIs

\* FreeList_Free, for callers and for what sbrk granted.
LEMMA GivenBack ==
    ASSUME NEW b, NEW nm, NEW o, NEW top, b \notin Listed \cup o,
           Sound(next, nm, Listed, o \cup {b}, top, {}), freeList \in Listed,
           FreeBlock(b, nm)
    PROVE  /\ Sound(next', num', Listed', o, top, {}) /\ freeList' \in Listed'
           /\ \A x \in Listed \cup {b} : \E y \in Listed' : num'[y] >= nm[x]
           /\ \A a \in o : num'[a] = nm[a]
<1>1. PICK p \in Listed : After(p, b) /\ Link(p, b, next, nm) /\ freeList' = p BY DEF FreeBlock
<1>2. next' = NextLinked(p, b, next, nm) /\ num' = NumLinked(p, b, next, nm) BY <1>1, LinkIs
<1>3. \/ p < b /\ b < next[p]
      \/ p >= next[p] /\ (p < b \/ b < next[p])
  BY <1>1 DEF After
<1>4. PICK L : L = Listed OBVIOUS
<1>5. PICK L2 :
          /\ Sound(NextLinked(p, b, next, nm), NumLinked(p, b, next, nm), L2, o, top, {})
          /\ p \in L2
          /\ \A x \in L \cup {b} : \E y \in L2 : NumLinked(p, b, next, nm)[y] >= nm[x]
          /\ \A a \in o : NumLinked(p, b, next, nm)[a] = nm[a]
  <2>1. b \notin L \cup o /\ Sound(next, nm, L, o \cup {b}, top, {}) /\ p \in L BY <1>1, <1>4
  <2> QED BY <2>1, <1>3, LinkSound
<1>6. Sound(next', num', L2, o, top, {}) /\ freeList' \in L2 BY <1>1, <1>2, <1>5
<1>7. Ring(next', L2) BY <1>6 DEF Sound
<1>8. Listed' = L2 BY <1>6, <1>7, ListedNow
<1> QED BY <1>2, <1>4, <1>5, <1>6, <1>8

LEMMA FreeKeeps ==
    ASSUME HeapInv, NEW b \in owned, Free(b)
    PROVE  HeapInv'
<1>1. /\ request = 0 /\ b \in owned /\ FreeBlock(b, num) /\ owned' = owned \ {b}
      /\ brk' = brk /\ request' = request /\ user' = user
  BY DEF Free
<1>2. Sound(next, num, Listed, owned, brk, {}) /\ freeList \in Listed BY DEF HeapInv
<1>3. b \notin Listed \cup (owned \ {b}) BY <1>1, <1>2 DEF Sound
<1>4. (owned \ {b}) \cup {b} = owned BY <1>1
<1>5. Sound(next', num', Listed', owned \ {b}, brk, {}) /\ freeList' \in Listed'
  BY <1>1, <1>2, <1>3, <1>4, GivenBack
<1>6. Sound(next', num', Listed', owned', brk', {}) BY <1>1, <1>5
<1>7. ListTypeOK'
  <2>1. ListTypeOK BY DEF HeapInv
  <2>2. next' \in [Addr -> Addr] /\ num' \in [Addr -> Nat] /\ Ring(next', Listed') BY <1>6 DEF Sound
  <2>3. freeList' \in Addr
    <3>1. freeList' \in Place BY <1>5, <2>2 DEF Ring
    <3> QED BY <3>1, Places
  <2> QED BY <2>1, <2>2, <2>3, <1>1 DEF ListTypeOK
<1>8. (brk <= Room)' BY <1>1 DEF HeapInv, Room
<1>9. Served' BY <1>1 DEF Served
<1> QED BY <1>5, <1>6, <1>7, <1>8, <1>9 DEF HeapInv

-----------------------------------------------------------------------------
(* A block taken whole, and the end of one.                                 *)

LEMMA TilesTyped ==
    ASSUME NEW B, NEW nm \in [Addr -> Nat], NEW top \in Base .. Limit, Tiles(B, nm, top)
    PROVE  /\ B \subseteq Base .. top - 1 /\ top \in Nat
           /\ \A b \in B : b \in Addr /\ b \in Nat /\ b >= 2 /\ nm[b] \in Nat /\ nm[b] >= 1 /\ b + nm[b] <= top
           /\ \A a, b \in B : a < b => a + nm[a] <= b
<1>0. top \in Nat /\ top <= Limit /\ Base = 2 /\ Limit \in Nat /\ Root = 0 BY UnitsAre
<1>1. B \subseteq Base .. top - 1 /\ \A b \in B : nm[b] >= 1 /\ b + nm[b] <= top BY DEF Tiles
<1>2. \A b \in B : b \in Nat /\ b \in Addr /\ b >= 2 BY <1>0, <1>1 DEF Addr
<1>3. \A b \in B : nm[b] \in Nat BY <1>2
<1> QED BY <1>0, <1>1, <1>2, <1>3 DEF Tiles

LEMMA UnlinkSound ==
    ASSUME NEW nx, NEW nm, NEW L, NEW o, NEW top, Sound(nx, nm, L, o, top, {}),
           NEW q \in L, nx[q] # Root
    PROVE  /\ Sound([nx EXCEPT ![q] = nx[nx[q]], ![nx[q]] = 0], nm, L \ {nx[q]},
                    o \cup {nx[q]}, top, {})
           /\ q \in L \ {nx[q]}
<1> DEFINE p == nx[q]
           n2 == [nx EXCEPT ![q] = nx[p], ![p] = 0]
           n3 == [nx EXCEPT ![p] = 0, ![q] = nx[p]]
           B == (L \ {Root}) \cup o
<1>1. /\ nx \in [Addr -> Addr] /\ nm \in [Addr -> Nat] /\ top \in Base .. Limit
      /\ Ring(nx, L) /\ Tiles(B, nm, top) /\ L \cap o = {} /\ nm[Root] = 0 /\ Joined(nx, nm, L, {})
  BY DEF Sound
<1>2. L \subseteq Place /\ p \in L /\ Root \in L /\ nx[p] \in L BY <1>1 DEF Ring
<1>3. \A r \in L : r \in Nat /\ r \in Addr /\ r >= 0 /\ Root = 0 BY <1>2, Places
<1>4. Ring(n3, L \ {p}) /\ p # q /\ p > q BY <1>1, RingUnlink
<1>5. n2 = n3
  <2>1. n2[p] = 0 /\ n2[q] = nx[p] /\ n3[p] = 0 /\ n3[q] = nx[p] BY <1>1, <1>2, <1>3, <1>4
  <2>2. \A r \in Addr \ {p, q} : n2[r] = n3[r] BY <1>1
  <2>3. n2 = [r \in Addr |-> n2[r]] /\ n3 = [r \in Addr |-> n3[r]] BY <1>1
  <2> HIDE DEF n2, n3
  <2> QED BY <2>1, <2>2, <2>3
<1>6. n2[q] = nx[p] /\ \A r \in L \ {p, q} : n2[r] = nx[r] BY <1>1, <1>2, <1>3, <1>4
<1>7. n2 \in [Addr -> Addr]
  <2>1. nx[p] \in Addr /\ 0 \in Addr BY <1>2, <1>3
  <2> QED BY <2>1, <1>1
<1> HIDE DEF n2, n3
<1>8. B = ((L \ {p}) \ {Root}) \cup (o \cup {p}) BY <1>2
<1>9. ASSUME NEW r \in L \ {p} PROVE r = Root \/ r + nm[r] # n2[r]
  <2>1. CASE r = q /\ q # Root
    <3>1. q \in B /\ p \in B BY <2>1, <1>2
    <3>2. q + nm[q] <= p /\ q >= 2 /\ nm[q] \in Nat BY <3>1, <1>1, <1>3, <1>4, TilesTyped
    <3>3. nx[p] = Root \/ p < nx[p] BY <1>1, <1>2 DEF Ring
    <3> QED BY <3>2, <3>3, <2>1, <1>2, <1>3, <1>6
  <2>2. CASE r # q BY <2>2, <1>1, <1>6 DEF Joined
  <2> QED BY <2>1, <2>2
<1>10. Sound(n2, nm, L \ {p}, o \cup {p}, top, {})
  <2>1. (L \ {p}) \cap (o \cup {p}) = {} BY <1>1
  <2>2. Joined(n2, nm, L \ {p}, {}) BY <1>9 DEF Joined
  <2>3. Ring(n2, L \ {p}) BY <1>4, <1>5
  <2> QED BY <2>1, <2>2, <2>3, <1>1, <1>7, <1>8 DEF Sound
<1> QED BY <1>4, <1>10 DEF n2

LEMMA SplitSound ==
    ASSUME NEW nx, NEW nm, NEW L, NEW o, NEW top, Sound(nx, nm, L, o, top, {}),
           NEW p \in L, NEW n \in Nat \ {0}, nm[p] > n
    PROVE  /\ Sound(nx, [nm EXCEPT ![p] = nm[p] - n, ![p + (nm[p] - n)] = n], L,
                    o \cup {p + (nm[p] - n)}, top, {})
           /\ p + (nm[p] - n) \notin (L \ {Root}) \cup o
           /\ p + (nm[p] - n) \in Base .. top - 1
           /\ p + (nm[p] - n) \in p .. p + nm[p] - 1
           /\ p + nm[p] = (p + (nm[p] - n)) + n
<1> DEFINE a == p + (nm[p] - n)
           m2 == [nm EXCEPT ![p] = nm[p] - n, ![a] = n]
           B == (L \ {Root}) \cup o
<1>1. /\ nx \in [Addr -> Addr] /\ nm \in [Addr -> Nat] /\ top \in Base .. Limit
      /\ Ring(nx, L) /\ Tiles(B, nm, top) /\ L \cap o = {} /\ nm[Root] = 0 /\ Joined(nx, nm, L, {})
  BY DEF Sound
<1>2. L \subseteq Place /\ Root \in L /\ nx[p] \in L BY <1>1 DEF Ring
<1>3. \A r \in L : r \in Nat /\ r \in Addr /\ r >= 0 /\ Root = 0 BY <1>2, Places
<1>4. /\ B \subseteq Base .. top - 1 /\ top \in Nat
      /\ \A b \in B : b \in Addr /\ b \in Nat /\ b >= 2 /\ nm[b] \in Nat /\ nm[b] >= 1 /\ b + nm[b] <= top
      /\ \A c, b \in B : c < b => c + nm[c] <= b
  BY <1>1, TilesTyped
<1>5. p # Root
  <2> SUFFICES ASSUME p = Root PROVE FALSE OBVIOUS
  <2>1. nm[p] = 0 BY <1>1
  <2> QED BY <2>1
<1>6. p \in B /\ nm[p] \in Nat /\ p + nm[p] <= top /\ p >= 2 /\ p \in Nat BY <1>4, <1>5
<1>7. a \in Nat /\ p < a /\ a + n = p + nm[p] /\ a < p + nm[p] /\ a >= 2 /\ a <= top - 1
  BY <1>4, <1>6
<1>8. a \in Base .. top - 1 /\ a \in Addr
  <2>1. Base = 2 /\ top <= Limit /\ Limit \in Nat BY <1>1, <1>4, UnitsAre
  <2> HIDE DEF a
  <2> QED BY <2>1, <1>3, <1>4, <1>7 DEF Addr
<1>9. a \notin B
  <2> SUFFICES ASSUME a \in B PROVE FALSE OBVIOUS
  <2> HIDE DEF a, B
  <2>1. p + nm[p] <= a BY <1>4, <1>6, <1>7
  <2> QED BY <2>1, <1>6, <1>7
<1>10. a # Root /\ a \notin L BY <1>3, <1>7, <1>9
<1>10a. a # p BY <1>6, <1>7
<1>11. m2[p] = nm[p] - n /\ m2[a] = n
  <2>1. p \in Addr BY <1>3
  <2> HIDE DEF a
  <2> QED BY <2>1, <1>1, <1>8, <1>10a
<1>12. \A r \in Addr \ {p, a} : m2[r] = nm[r] BY <1>1
<1>13. nm[p] - n \in Nat /\ nm[p] - n >= 1 BY <1>6
<1>14. m2 \in [Addr -> Nat]
  <2> HIDE DEF a
  <2> QED BY <1>1, <1>13
<1>15. p + m2[p] = a BY <1>11
<1> HIDE DEF m2, a
<1>16. Tiles(B \cup {a}, m2, top)
  <2>1. \A b \in B \ {p} : m2[b] = nm[b] BY <1>4, <1>9, <1>12
  <2>2. ASSUME NEW b \in B \cup {a} PROVE m2[b] >= 1 /\ b + m2[b] <= top
    <3>1. CASE b = a BY <3>1, <1>6, <1>7, <1>11
    <3>2. CASE b = p BY <3>2, <1>4, <1>8, <1>11, <1>13, <1>15, <1>7
    <3>3. CASE b # p /\ b # a BY <3>3, <2>1, <1>4
    <3> QED BY <3>1, <3>2, <3>3
  <2>3. ASSUME NEW c \in B \cup {a}, NEW b \in B \cup {a}, c < b PROVE c + m2[c] <= b
    <3>1. CASE c = p /\ b # a
      <4>1. p + nm[p] <= b BY <3>1, <2>3, <1>4, <1>6
      <4>2. a <= b BY <4>1, <3>1, <1>4, <1>6, <1>7
      <4> QED BY <4>2, <3>1, <1>15
    <3>2. CASE c = a
      <4>1. b \in B /\ p < b BY <3>2, <2>3, <1>4, <1>6, <1>7
      <4>2. p + nm[p] <= b BY <4>1, <1>4, <1>6
      <4> QED BY <4>2, <3>2, <1>7, <1>11
    <3>3. CASE c = p /\ b = a BY <3>3, <1>7, <1>15
    <3>4. CASE c # p /\ c # a /\ b # a BY <3>4, <2>1, <2>3, <1>4
    <3>5. CASE c # p /\ c # a /\ b = a
      <4>1. c \in B /\ m2[c] = nm[c] BY <3>5, <2>1
      <4>2. c < p
        <5> SUFFICES ASSUME p < c PROVE FALSE BY <4>1, <3>5, <1>4, <1>6
        <5>1. p + nm[p] <= c BY <4>1, <1>4, <1>6
        <5> QED BY <5>1, <4>1, <3>5, <2>3, <1>4, <1>6, <1>7
      <4>3. c + nm[c] <= p BY <4>1, <4>2, <1>4, <1>6
      <4> QED BY <4>1, <4>3, <3>5, <1>4, <1>6, <1>7
    <3> QED BY <3>1, <3>2, <3>3, <3>4, <3>5
  <2>4. ASSUME NEW u \in Base .. top - 1 PROVE \E b \in B \cup {a} : b <= u /\ u < b + m2[b]
    <3>1. PICK b \in B : b <= u /\ u < b + nm[b] BY <1>1 DEF Tiles
    <3>2. u \in Nat BY <1>4, UnitsAre
    <3>3. CASE b = p /\ u < a
      <4>1. p <= u /\ u < p + m2[p] BY <3>1, <3>3, <1>15
      <4> QED BY <4>1, <1>6
    <3>4. CASE b = p /\ ~(u < a)
      <4>1. a <= u /\ u < a + m2[a] BY <3>1, <3>2, <3>4, <1>7, <1>11
      <4> QED BY <4>1
    <3>5. CASE b # p BY <3>1, <3>5, <2>1
    <3> QED BY <3>3, <3>4, <3>5
  <2>5. B \cup {a} \subseteq Base .. top - 1 BY <1>4, <1>8
  <2> HIDE DEF B
  <2> QED BY <2>2, <2>3, <2>4, <2>5 DEF Tiles
<1>17. ASSUME NEW r \in L PROVE r = Root \/ r + m2[r] # nx[r]
  <2>1. CASE r = p
    <3>1. nx[p] = Root \/ p < nx[p] BY <1>1 DEF Ring
    <3>2. nx[p] # a BY <1>2, <1>10
    <3> QED BY <3>2, <2>1, <1>15
  <2>2. CASE r # p
    <3>1. m2[r] = nm[r] BY <2>2, <1>3, <1>10, <1>12
    <3> QED BY <3>1, <1>1 DEF Joined
  <2> QED BY <2>1, <2>2
<1>18. m2[Root] = 0 BY <1>1, <1>2, <1>3, <1>5, <1>10, <1>12
<1>19. B \cup {a} = (L \ {Root}) \cup (o \cup {a}) OBVIOUS
<1>20. L \cap (o \cup {a}) = {} BY <1>1, <1>10
<1>21. Sound(nx, m2, L, o \cup {a}, top, {})
  <2>1. Joined(nx, m2, L, {}) BY <1>17 DEF Joined
  <2> QED BY <2>1, <1>1, <1>14, <1>16, <1>18, <1>19, <1>20 DEF Sound
<1>22. a \in p .. p + nm[p] - 1 BY <1>6, <1>7
<1>23. Sound(nx, [nm EXCEPT ![p] = nm[p] - n, ![a] = n], L, o \cup {a}, top, {})
  BY <1>21 DEF m2
<1> QED BY <1>7, <1>8, <1>9, <1>22, <1>23 DEF a

LEMMA Members ==
    ASSUME ListTypeOK
    PROVE  /\ user \in User /\ user.units \in Nat /\ user.units <= HeapUnits
           /\ user.grow \in Nat \ {0} /\ user.request \in Nat /\ user.once \in BOOLEAN
           /\ request \in Nat /\ brk \in Nat /\ Room \in Nat /\ Room <= Limit
           /\ brk \in Base .. Limit /\ Wanted \in Nat /\ Wanted >= request /\ Wanted >= user.grow
           /\ Wanted \in Nat \ {0}
<1>1. user \in User /\ brk \in Base .. Limit /\ request \in 0 .. user.request BY DEF ListTypeOK
<1>2. user \in [units : 0 .. HeapUnits, grow : Nat \ {0}, request : Nat, once : BOOLEAN]
  BY <1>1, SizeAssumption
<1>3. /\ user.units \in 0 .. HeapUnits /\ user.grow \in Nat \ {0}
      /\ user.request \in Nat /\ user.once \in BOOLEAN
  BY <1>2
<1>4. Room = 2 + user.units /\ Limit = HeapUnits + 2 /\ Base = 2 /\ HeapUnits \in Nat BY UnitsAre DEF Room
<1>5. Wanted = IF request < user.grow THEN user.grow ELSE request BY DEF Wanted
<1> QED BY <1>1, <1>3, <1>4, <1>5

LEMMA HeapInit == ListInit => HeapInv
<1> SUFFICES ASSUME ListInit PROVE HeapInv OBVIOUS
<1>1. /\ next = [a \in Addr |-> Root] /\ num = [a \in Addr |-> 0]
      /\ freeList = Root /\ brk = Base /\ owned = {} /\ request = 0 /\ user \in User
  BY DEF ListInit
<1>2. Root = 0 /\ Base = 2 /\ HeapUnits \in Nat /\ Limit = HeapUnits + 2 BY UnitsAre
<1>3. Root \in Addr /\ Base \in Base .. Limit BY <1>2 DEF Addr
<1>4. ListTypeOK
  <2>1. user \in [units : 0 .. HeapUnits, grow : Nat \ {0}, request : Nat, once : BOOLEAN]
    BY <1>1, SizeAssumption
  <2>2. user.request \in Nat BY <2>1
  <2>3. next \in [Addr -> Addr] BY <1>1, <1>3
  <2>4. num \in [Addr -> Nat] BY <1>1
  <2> QED BY <2>2, <2>3, <2>4, <1>1, <1>2, <1>3 DEF ListTypeOK
<1>5. Ring(next, {Root})
  <2>1. {Root} \subseteq Place /\ next[Root] = Root /\ Root <= Root BY <1>1, <1>2, <1>3 DEF Place
  <2> QED BY <2>1 DEF Ring
<1>6. Listed = {Root}
  <2>1. freeList \in {Root} BY <1>1
  <2>2. ListedOf(next, freeList) = {Root} BY <2>1, <1>5, RingListed
  <2> QED BY <2>2, ListedIs
<1>7. Sound(next, num, {Root}, {}, Base, {})
  <2>1. Tiles(({Root} \ {Root}) \cup {}, num, Base)
    <3>1. ({Root} \ {Root}) \cup {} = {} OBVIOUS
    <3>2. Base .. Base - 1 = {} BY <1>2
    <3>3. Tiles({}, num, Base) BY <3>2 DEF Tiles
    <3> QED BY <3>1, <3>3
  <2>2. num[Root] = 0 BY <1>1, <1>3
  <2>3. Joined(next, num, {Root}, {}) BY DEF Joined
  <2>4. next \in [Addr -> Addr] /\ num \in [Addr -> Nat] BY <1>4 DEF ListTypeOK
  <2> QED BY <2>1, <2>2, <2>3, <2>4, <1>3, <1>5 DEF Sound
<1>8. brk <= Room BY <1>1, <1>2, <1>4, Members DEF Room
<1>9. Served BY <1>1 DEF Served
<1>10. Sound(next, num, Listed, owned, brk, {}) /\ freeList \in Listed BY <1>1, <1>6, <1>7
<1> QED BY <1>4, <1>8, <1>9, <1>10 DEF HeapInv

LEMMA AllocKeeps ==
    ASSUME HeapInv, NEW n \in 1 .. user.request, Alloc(n)
    PROVE  HeapInv'
<1>1. /\ request = 0 /\ request' = n
      /\ \/ user.once \/ Enough(n) # {}
         \/ brk + n <= Base + user.units /\ brk + user.grow <= Base + user.units
      /\ next' = next /\ num' = num /\ freeList' = freeList /\ brk' = brk /\ owned' = owned
      /\ user' = user
  BY DEF Alloc
<1>2. /\ ListTypeOK /\ Sound(next, num, Listed, owned, brk, {}) /\ freeList \in Listed /\ brk <= Room
  BY DEF HeapInv
<1>3. Ring(next, Listed) BY <1>2 DEF Sound
<1>4. Listed' = Listed BY <1>1, ListedIs
<1>5. ListTypeOK' BY <1>1, <1>2, Members DEF ListTypeOK
<1>6. Served'
  <2> SUFFICES ASSUME ~user.once
               PROVE  \/ \E p \in Listed : num[p] >= n
                      \/ brk + Wanted' <= Room
    BY <1>1, <1>4 DEF Served, Room
  <2>1. CASE Enough(n) # {} BY <2>1, <1>2, <1>3, SearchSees
  <2>2. CASE brk + n <= Base + user.units /\ brk + user.grow <= Base + user.units
    <3>1. Wanted' = IF n < user.grow THEN user.grow ELSE n BY <1>1 DEF Wanted
    <3> QED BY <3>1, <2>2 DEF Room
  <2> QED BY <2>1, <2>2, <1>1
<1> QED BY <1>1, <1>2, <1>4, <1>5, <1>6 DEF HeapInv, Room

LEMMA FailKeeps ==
    ASSUME HeapInv, Fail
    PROVE  HeapInv'
<1>1. /\ request' = 0 /\ next' = next /\ num' = num /\ freeList' = freeList /\ brk' = brk
      /\ owned' = owned /\ user' = user
  BY DEF Fail
<1>2. /\ ListTypeOK /\ Sound(next, num, Listed, owned, brk, {}) /\ freeList \in Listed /\ brk <= Room
  BY DEF HeapInv
<1>4. Listed' = Listed BY <1>1, ListedIs
<1>5. ListTypeOK'
  <2>1. 0 \in 0 .. user.request BY <1>2, Members
  <2> QED BY <2>1, <1>1, <1>2 DEF ListTypeOK
<1>6. Served' BY <1>1 DEF Served
<1> QED BY <1>1, <1>2, <1>4, <1>5, <1>6 DEF HeapInv, Room

\* What Take finds: a block that is large enough and the one before it.
LEMMA Found ==
    ASSUME HeapInv, request # 0, Enough(request) # {},
           NEW k, k = CHOOSE i \in Enough(request) : \A j \in Enough(request) : i <= j
    PROVE  /\ Walk[k - 1] \in Listed /\ Walk[k] \in Listed /\ next[Walk[k - 1]] = Walk[k]
           /\ num[Walk[k]] >= request /\ Walk[k] # Root
<1>1. /\ ListTypeOK /\ Sound(next, num, Listed, owned, brk, {}) /\ freeList \in Listed BY DEF HeapInv
<1>2. Ring(next, Listed) /\ num[Root] = 0 BY <1>1 DEF Sound
<1>3. k \in Enough(request) BY <1>1, <1>2, SearchSees
<1>4. k \in 1 .. Length /\ num[Walk[k]] >= request BY <1>3 DEF Enough
<1>5. k \in 1 .. LengthOf(next, freeList) BY <1>4, ListedIs
<1>6. /\ WalkOf(next, freeList)[k] \in Listed /\ WalkOf(next, freeList)[k - 1] \in Listed
      /\ next[WalkOf(next, freeList)[k - 1]] = WalkOf(next, freeList)[k]
  BY <1>1, <1>2, <1>5, Behind
<1>7. request \in Nat BY <1>1, Members
<1>8. ~(0 >= request) BY <1>7
<1>9. Walk[k] # Root BY <1>2, <1>4, <1>8
<1> QED BY <1>4, <1>6, <1>9, WalkIs

\* What Take does, at a block it found.
TakeAt(p, q) ==
    /\ freeList' = q
    /\ IF num[p] - request = 0
       THEN /\ next' = [next EXCEPT ![q] = next[p], ![p] = 0]
            /\ owned' = owned \cup {p} /\ num' = num
       ELSE /\ num' = [num EXCEPT ![p] = num[p] - request, ![p + (num[p] - request)] = request]
            /\ owned' = owned \cup {p + (num[p] - request)} /\ next' = next
    /\ request' = 0 /\ brk' = brk /\ user' = user

LEMMA TakeIs ==
    ASSUME HeapInv, Take
    PROVE  \E p, q : /\ q \in Listed /\ p \in Listed /\ next[q] = p
                     /\ num[p] >= request /\ p # Root /\ TakeAt(p, q)
<1>1. request # 0 /\ Enough(request) # {} BY DEF Take
<1>2. PICK k : k = CHOOSE i \in Enough(request) : \A j \in Enough(request) : i <= j OBVIOUS
<1>3. TakeAt(Walk[k], Walk[k - 1])
  <2>1. /\ freeList' = Walk[k - 1]
        /\ IF num[Walk[k]] - request = 0
           THEN /\ next' = [next EXCEPT ![Walk[k - 1]] = next[Walk[k]], ![Walk[k]] = 0]
                /\ owned' = owned \cup {Walk[k]} /\ num' = num
           ELSE /\ num' = [num EXCEPT ![Walk[k]] = num[Walk[k]] - request,
                                      ![Walk[k] + (num[Walk[k]] - request)] = request]
                /\ owned' = owned \cup {Walk[k] + (num[Walk[k]] - request)} /\ next' = next
        /\ request' = 0 /\ brk' = brk /\ user' = user
    BY <1>2 DEF Take
  <2> QED BY <2>1 DEF TakeAt
<1> QED BY <1>1, <1>2, <1>3, Found

LEMMA TakeKeeps ==
    ASSUME HeapInv, Take
    PROVE  HeapInv'
<1>1. /\ ListTypeOK /\ Sound(next, num, Listed, owned, brk, {}) /\ freeList \in Listed /\ brk <= Room
  BY DEF HeapInv
<1>2. PICK p, q : /\ q \in Listed /\ p \in Listed /\ next[q] = p
                  /\ num[p] >= request /\ p # Root /\ TakeAt(p, q)
  BY TakeIs
<1>3. request \in Nat \ {0} BY <1>1, Members DEF Take
<1>4. num[p] \in Nat
  <2>1. Ring(next, Listed) BY <1>1 DEF Sound
  <2>2. p \in Place BY <2>1, <1>2 DEF Ring
  <2> QED BY <2>2, <1>1, Places DEF ListTypeOK
<1>5. freeList' = q /\ request' = 0 /\ brk' = brk /\ user' = user BY <1>2 DEF TakeAt
<1>6. PICK L, o, r : L = Listed /\ o = owned /\ r = request OBVIOUS
<1>7. ASSUME num[p] - request = 0
      PROVE  Sound(next', num', Listed', owned', brk', {}) /\ freeList' \in Listed'
  <2>1. /\ next' = [next EXCEPT ![q] = next[p], ![p] = 0]
        /\ owned' = owned \cup {p} /\ num' = num
    BY <1>2, <1>7 DEF TakeAt
  <2>2. Sound([next EXCEPT ![q] = next[p], ![p] = 0], num, L \ {p}, o \cup {p}, brk, {})
        /\ q \in L \ {p}
    <3>1. q \in L /\ next[q] # Root /\ Sound(next, num, L, o, brk, {}) BY <1>1, <1>2, <1>6
    <3>2. Sound([next EXCEPT ![q] = next[next[q]], ![next[q]] = 0], num, L \ {next[q]},
                o \cup {next[q]}, brk, {})
          /\ q \in L \ {next[q]}
      BY <3>1, UnlinkSound
    <3> QED BY <3>2, <1>2
  <2>3. Sound(next', num', L \ {p}, owned', brk', {}) /\ freeList' \in L \ {p}
    BY <2>1, <2>2, <1>5, <1>6
  <2>4. Ring(next', L \ {p}) BY <2>3 DEF Sound
  <2>5. Listed' = L \ {p} BY <2>3, <2>4, ListedNow
  <2> QED BY <2>3, <2>5
<1>8. ASSUME num[p] - request # 0
      PROVE  Sound(next', num', Listed', owned', brk', {}) /\ freeList' \in Listed'
  <2>1. /\ num' = [num EXCEPT ![p] = num[p] - request, ![p + (num[p] - request)] = request]
        /\ owned' = owned \cup {p + (num[p] - request)} /\ next' = next
    BY <1>2, <1>8 DEF TakeAt
  <2>2. num[p] > request BY <1>2, <1>3, <1>4, <1>8
  <2>3. Sound(next, [num EXCEPT ![p] = num[p] - r, ![p + (num[p] - r)] = r], L,
              o \cup {p + (num[p] - r)}, brk, {})
    <3>1. p \in L /\ r \in Nat \ {0} /\ num[p] > r /\ Sound(next, num, L, o, brk, {})
      BY <2>2, <1>1, <1>2, <1>3, <1>6
    <3> QED BY <3>1, SplitSound
  <2>4. Sound(next', num', L, owned', brk', {}) /\ freeList' \in L
    <3>1. num' = [num EXCEPT ![p] = num[p] - r, ![p + (num[p] - r)] = r] BY <2>1, <1>6
    <3>2. owned' = o \cup {p + (num[p] - r)} BY <2>1, <1>6
    <3> QED BY <3>1, <3>2, <2>1, <2>3, <1>2, <1>5, <1>6
  <2>5. Ring(next', L) BY <2>4 DEF Sound
  <2>6. Listed' = L BY <2>4, <2>5, ListedNow
  <2> QED BY <2>4, <2>6
<1>9. Sound(next', num', Listed', owned', brk', {}) /\ freeList' \in Listed' BY <1>7, <1>8
<1>10. ListTypeOK'
  <2>1. next' \in [Addr -> Addr] /\ num' \in [Addr -> Nat] /\ Ring(next', Listed')
        /\ Tiles((Listed' \ {Root}) \cup owned', num', brk')
    BY <1>9 DEF Sound
  <2>2. freeList' \in Addr
    <3>1. freeList' \in Place BY <1>9, <2>1 DEF Ring
    <3> QED BY <3>1, Places
  <2>3. brk' \in Base .. Limit /\ user' \in User /\ request' \in 0 .. user'.request
    BY <1>1, <1>5, Members
  <2>4. owned' \subseteq Addr
    <3>1. owned' \subseteq Base .. brk - 1 BY <2>1, <1>5 DEF Tiles
    <3>2. brk \in Nat /\ brk <= Limit /\ Limit \in Nat /\ Base = 2 /\ Root = 0 BY <1>1, Members, UnitsAre
    <3>3. \A x \in Base .. brk - 1 : x \in Addr BY <3>2 DEF Addr
    <3> QED BY <3>1, <3>3
  <2> QED BY <2>1, <2>2, <2>3, <2>4 DEF ListTypeOK
<1>11. Served' BY <1>5 DEF Served
<1>12. (brk <= Room)' BY <1>1, <1>5 DEF Room
<1> QED BY <1>9, <1>10, <1>11, <1>12 DEF HeapInv

-----------------------------------------------------------------------------
(* The heap grows by a block behind its end.                                *)

LEMMA Share ==
    ASSUME NEW a \in Nat \ {0}, NEW d \in 1 .. a
    PROVE  a \div d \in Nat \ {0}
OBVIOUS

LEMMA TilesGrow ==
    ASSUME NEW B, NEW nm \in [Addr -> Nat], NEW top \in Base .. Limit, Tiles(B, nm, top),
           NEW n \in Nat \ {0}, top + n <= Limit
    PROVE  /\ Tiles(B \cup {top}, [nm EXCEPT ![top] = n], top + n)
           /\ top \notin B /\ top \in Addr /\ top # Root /\ top + n \in Base .. Limit
           /\ \A r \in Addr \ {top} : [nm EXCEPT ![top] = n][r] = nm[r]
           /\ [nm EXCEPT ![top] = n][top] = n
<1> DEFINE m2 == [nm EXCEPT ![top] = n]
<1>1. /\ B \subseteq Base .. top - 1 /\ top \in Nat
      /\ \A b \in B : b \in Addr /\ b \in Nat /\ b >= 2 /\ nm[b] \in Nat /\ nm[b] >= 1 /\ b + nm[b] <= top
      /\ \A c, b \in B : c < b => c + nm[c] <= b
  BY TilesTyped
<1>2. top \in Addr /\ top # Root /\ top >= 2 /\ Base = 2 /\ Limit \in Nat BY <1>1, UnitsAre DEF Addr
<1>3. top \notin B BY <1>1, <1>2
<1>4. top + n \in Base .. Limit BY <1>1, <1>2
<1>5. m2[top] = n BY <1>2
<1>6. \A r \in Addr \ {top} : m2[r] = nm[r] BY <1>2
<1> HIDE DEF m2
<1>7. \A b \in B : b # top /\ m2[b] = nm[b] /\ b < top BY <1>1, <1>2, <1>3, <1>6
<1>8. ASSUME NEW b \in B \cup {top} PROVE m2[b] >= 1 /\ b + m2[b] <= top + n
  <2>1. CASE b = top BY <2>1, <1>1, <1>5
  <2>2. CASE b \in B BY <2>2, <1>1, <1>7
  <2> QED BY <2>1, <2>2
<1>9. ASSUME NEW c \in B \cup {top}, NEW b \in B \cup {top}, c < b PROVE c + m2[c] <= b
  <2>1. c \in B BY <1>1, <1>7, <1>9
  <2>2. CASE b = top BY <2>1, <2>2, <1>1, <1>7
  <2>3. CASE b \in B BY <2>1, <2>3, <1>1, <1>7, <1>9
  <2> QED BY <2>2, <2>3
<1>10. ASSUME NEW u \in Base .. top + n - 1 PROVE \E b \in B \cup {top} : b <= u /\ u < b + m2[b]
  <2>1. CASE u < top
    <3>1. u \in Base .. top - 1 BY <2>1, <1>1, <1>2
    <3>2. PICK b \in B : b <= u /\ u < b + nm[b] BY <3>1 DEF Tiles
    <3> QED BY <3>2, <1>7
  <2>2. CASE ~(u < top)
    <3>1. top <= u /\ u < top + m2[top] BY <2>2, <1>1, <1>2, <1>5
    <3> QED BY <3>1
  <2> QED BY <2>1, <2>2
<1>11. B \cup {top} \subseteq Base .. top + n - 1 BY <1>1, <1>2
<1>12. Tiles(B \cup {top}, m2, top + n) BY <1>8, <1>9, <1>10, <1>11 DEF Tiles
<1> QED BY <1>2, <1>3, <1>4, <1>5, <1>6, <1>12 DEF m2

\* The first grant: to the C heap always what is wanted, to FatFs what its
\* array holds.
LEMMA FirstGrant ==
    ASSUME HeapInv, Grow
    PROVE  \E n \in Nat \ {0} :
              /\ brk + n <= Room /\ brk' = brk + n
              /\ FreeBlock(brk, [num EXCEPT ![brk] = n])
              /\ ~user.once => n = Wanted
<1>1. ListTypeOK /\ freeList \in Listed /\ Ring(next, Listed) /\ Served BY DEF HeapInv, Sound
<1>2. PICK d \in Tries :
          /\ Granted(Wanted \div d) /\ \A e \in Tries : e < d => ~Granted(Wanted \div e)
          /\ brk' = brk + (Wanted \div d)
          /\ FreeBlock(brk, [num EXCEPT ![brk] = Wanted \div d])
  BY DEF Grow
<1>3. Wanted \in Nat \ {0} /\ user.once \in BOOLEAN /\ brk \in Nat /\ user.units \in Nat
  BY <1>1, Members
<1>4. d \in 1 .. Wanted BY DEF Tries
<1>5. Wanted \div d \in Nat \ {0} BY <1>3, <1>4, Share
<1>6. CASE user.once
  <2>1. brk = Base /\ Wanted \div d <= user.units BY <1>2, <1>6 DEF Granted
  <2>2. brk + (Wanted \div d) <= Room BY <2>1, <1>5, <1>3, UnitsAre DEF Room
  <2> QED BY <2>2, <1>2, <1>5, <1>6
<1>7. CASE ~user.once
  <2>1. 1 \in Tries
    <3>1. 1 .. 1 - 1 = {} OBVIOUS
    <3>2. 1 \in 1 .. Wanted BY <1>3
    <3> QED BY <3>1, <3>2 DEF Tries
  <2>2. Granted(Wanted \div 1) BY <1>7 DEF Granted
  <2>3. d = 1
    <3>1. ~(1 < d) BY <2>1, <2>2, <1>2
    <3> QED BY <3>1, <1>3, <1>4
  <2>4. Wanted \div d = Wanted BY <2>3, <1>3
  <2>5. request # 0 /\ Enough(request) = {} BY DEF Grow
  <2>6. ~\E p \in Listed : num[p] >= request BY <2>5, <1>1, SearchSees
  <2>7. brk + Wanted <= Room BY <2>5, <2>6, <1>1, <1>7 DEF Served
  <2> QED BY <2>4, <2>7, <1>2, <1>3
<1> QED BY <1>6, <1>7, <1>3

LEMMA GrowKeeps ==
    ASSUME HeapInv, Grow
    PROVE  HeapInv' /\ \A a \in owned : num'[a] = num[a]
<1>1. /\ ListTypeOK /\ Sound(next, num, Listed, owned, brk, {}) /\ freeList \in Listed /\ brk <= Room
  BY DEF HeapInv
<1>2. PICK n \in Nat \ {0} :
              /\ brk + n <= Room /\ brk' = brk + n
              /\ FreeBlock(brk, [num EXCEPT ![brk] = n])
              /\ ~user.once => n = Wanted
  BY FirstGrant
<1>3. owned' = owned /\ request' = request /\ user' = user BY DEF Grow
<1>4. /\ brk \in Nat /\ brk \in Base .. Limit /\ Room \in Nat /\ Room <= Limit /\ Limit \in Nat
      /\ user.once \in BOOLEAN /\ Wanted \in Nat /\ Wanted >= request /\ request \in Nat
  BY <1>1, Members, UnitsAre
<1>5. brk + n <= Limit BY <1>2, <1>4
<1> DEFINE B == (Listed \ {Root}) \cup owned
           m2 == [num EXCEPT ![brk] = n]
<1>6. /\ Ring(next, Listed) /\ Tiles(B, num, brk) /\ Listed \cap owned = {} /\ num[Root] = 0
      /\ Joined(next, num, Listed, {}) /\ next \in [Addr -> Addr] /\ num \in [Addr -> Nat]
  BY <1>1 DEF Sound
<1>7. /\ Tiles(B \cup {brk}, m2, brk + n)
      /\ brk \notin B /\ brk \in Addr /\ brk # Root /\ brk + n \in Base .. Limit
      /\ \A r \in Addr \ {brk} : m2[r] = num[r]
      /\ m2[brk] = n
  BY <1>2, <1>4, <1>5, <1>6, TilesGrow
<1>8. m2 \in [Addr -> Nat] BY <1>6
<1>9. Listed \subseteq Addr /\ Root \in Addr /\ Root \in Listed
  <2>1. Listed \subseteq Place /\ Root \in Listed BY <1>6 DEF Ring
  <2> QED BY <2>1, Places
<1>10. brk \notin Listed \cup owned BY <1>7
<1>11. Sound(next, m2, Listed, owned \cup {brk}, brk + n, {})
  <2> HIDE DEF m2
  <2>1. m2[Root] = 0 BY <1>6, <1>7, <1>9
  <2>2. Joined(next, m2, Listed, {}) BY <1>6, <1>7, <1>9, <1>10 DEF Joined
  <2>3. (Listed \ {Root}) \cup (owned \cup {brk}) = B \cup {brk} OBVIOUS
  <2>4. Listed \cap (owned \cup {brk}) = {} BY <1>6, <1>10
  <2> QED BY <2>1, <2>2, <2>3, <2>4, <1>6, <1>7, <1>8 DEF Sound
<1>12. PICK L : L = Listed OBVIOUS
<1>13. /\ Sound(next', num', Listed', owned, brk + n, {}) /\ freeList' \in Listed'
       /\ \A x \in Listed \cup {brk} : \E y \in Listed' : num'[y] >= m2[x]
       /\ \A a \in owned : num'[a] = m2[a]
  <2> HIDE DEF m2
  <2>1. FreeBlock(brk, m2) BY <1>2 DEF m2
  <2> QED BY <2>1, <1>1, <1>10, <1>11, GivenBack
<1>14. Sound(next', num', Listed', owned', brk', {}) BY <1>13, <1>2, <1>3
<1>15. \A a \in owned : num'[a] = num[a]
  <2>1. owned \subseteq Addr BY <1>1 DEF ListTypeOK
  <2> HIDE DEF m2
  <2> QED BY <2>1, <1>7, <1>10, <1>13
<1>16. ListTypeOK'
  <2>1. next' \in [Addr -> Addr] /\ num' \in [Addr -> Nat] /\ Ring(next', Listed') BY <1>14 DEF Sound
  <2>2. freeList' \in Addr
    <3>1. freeList' \in Place BY <1>13, <2>1 DEF Ring
    <3> QED BY <3>1, Places
  <2> QED BY <2>1, <2>2, <1>1, <1>2, <1>3, <1>7 DEF ListTypeOK
<1>17. (brk <= Room)' BY <1>2, <1>3 DEF Room
<1>18. Served'
  <2> SUFFICES ASSUME request # 0, ~user.once PROVE \E p \in Listed' : num'[p] >= request
    BY <1>3 DEF Served
  <2> HIDE DEF m2
  <2>1. PICK y \in Listed' : num'[y] >= n BY <1>7, <1>13
  <2>2. n >= request BY <1>2, <1>4
  <2>3. num'[y] \in Nat
    <3>1. num' \in [Addr -> Nat] /\ Listed' \subseteq Place BY <1>14 DEF Sound, Ring
    <3> QED BY <3>1, Places
  <2> QED BY <2>1, <2>2, <2>3, <1>4
<1> QED BY <1>13, <1>14, <1>15, <1>16, <1>17, <1>18 DEF HeapInv

LEMMA HeapStep == HeapInv /\ [ListNext]_listVars => HeapInv'
<1> SUFFICES ASSUME HeapInv, [ListNext]_listVars PROVE HeapInv' OBVIOUS
<1>1. ASSUME NEW n \in 1 .. user.request, Alloc(n) PROVE HeapInv' BY <1>1, AllocKeeps
<1>2. CASE Take BY <1>2, TakeKeeps
<1>3. CASE Grow BY <1>3, GrowKeeps
<1>4. CASE Fail BY <1>4, FailKeeps
<1>5. ASSUME NEW b \in owned, Free(b) PROVE HeapInv' BY <1>5, FreeKeeps
<1>6. CASE UNCHANGED listVars
  <2>1. /\ next' = next /\ num' = num /\ freeList' = freeList /\ brk' = brk
        /\ owned' = owned /\ request' = request /\ user' = user
    BY <1>6 DEF listVars
  <2>2. Listed' = Listed BY <2>1, ListedIs
  <2>3. Served' = Served BY <2>1, <2>2 DEF Served, Wanted, Room
  <2>4. ListTypeOK' = ListTypeOK BY <2>1 DEF ListTypeOK
  <2> QED BY <2>1, <2>2, <2>3, <2>4 DEF HeapInv, Room
<1> QED BY <1>1, <1>2, <1>3, <1>4, <1>5, <1>6 DEF ListNext

-----------------------------------------------------------------------------
(* What the invariant says of the heap.                                     *)

LEMMA HeapPartition == HeapInv => Partition
<1> SUFFICES ASSUME HeapInv PROVE Partition OBVIOUS
<1> DEFINE B == (Listed \ {Root}) \cup owned
<1>1. /\ num \in [Addr -> Nat] /\ brk \in Base .. Limit /\ Tiles(B, num, brk) /\ Listed \cap owned = {}
  BY DEF HeapInv, Sound
<1>2. /\ B \subseteq Base .. brk - 1 /\ brk \in Nat
      /\ \A b \in B : b \in Addr /\ b \in Nat /\ b >= 2 /\ num[b] \in Nat /\ num[b] >= 1 /\ b + num[b] <= brk
      /\ \A a, b \in B : a < b => a + num[a] <= b
  BY <1>1, TilesTyped
<1>3. \A u \in Base .. brk - 1 : \E b \in B : b <= u /\ u < b + num[b] BY <1>1 DEF Tiles
<1>4. Base = 2 BY UnitsAre
<1> HIDE DEF B
<1>5. \A b \in B : \A u : u \in Span(b) <=> u \in Nat /\ b <= u /\ u < b + num[b]
  <2> SUFFICES ASSUME NEW b \in B, NEW u
               PROVE  u \in Span(b) <=> u \in Nat /\ b <= u /\ u < b + num[b]
    OBVIOUS
  <2>1. b \in Nat /\ num[b] \in Nat BY <1>2
  <2> QED BY <2>1 DEF Span
<1>6. UNION {Span(b) : b \in B} = Base .. brk - 1
  <2>1. ASSUME NEW u \in Base .. brk - 1 PROVE u \in UNION {Span(b) : b \in B}
    <3>1. PICK b \in B : b <= u /\ u < b + num[b] BY <1>3
    <3>2. u \in Nat BY <1>2, <1>4
    <3> QED BY <3>1, <3>2, <1>5
  <2>2. ASSUME NEW b \in B, NEW u \in Span(b) PROVE u \in Base .. brk - 1
    <3>1. u \in Nat /\ b <= u /\ u < b + num[b] BY <1>5
    <3>2. b \in Nat /\ b >= 2 /\ num[b] \in Nat /\ b + num[b] <= brk BY <1>2
    <3> QED BY <3>1, <3>2, <1>2, <1>4
  <2> QED BY <2>1, <2>2
<1>7. ASSUME NEW a \in B, NEW b \in B, a # b PROVE Span(a) \cap Span(b) = {}
  <2> SUFFICES ASSUME NEW u, u \in Span(a), u \in Span(b) PROVE FALSE OBVIOUS
  <2>1. u \in Nat /\ a <= u /\ u < a + num[a] /\ b <= u /\ u < b + num[b] BY <1>5
  <2>2. a \in Nat /\ b \in Nat /\ num[a] \in Nat /\ num[b] \in Nat BY <1>2
  <2>3. a < b => a + num[a] <= b BY <1>2
  <2>4. b < a => b + num[b] <= a BY <1>2
  <2> QED BY <2>1, <2>2, <2>3, <2>4, <1>7
<1> QED BY <1>1, <1>6, <1>7 DEF Partition, B

LEMMA HeapOrdered == HeapInv => Ordered
<1> SUFFICES ASSUME HeapInv PROVE Ordered OBVIOUS
<1>1. Ring(next, Listed) /\ freeList \in Listed BY DEF HeapInv, Sound
<1>2. Listed \subseteq Place /\ Root \in Listed BY <1>1 DEF Ring
<1>3. \A r \in Listed : r \in Nat /\ r >= 0 /\ Root = 0 BY <1>2, Places
<1>4. PICK k \in 1 .. LengthOf(next, freeList) : WalkOf(next, freeList)[k] = Root
  BY <1>1, <1>2, WalkSees
<1>5. PICK m : m = WalkOf(next, freeList)[k - 1] OBVIOUS
<1>6. m \in Listed /\ next[m] = Root BY <1>1, <1>4, <1>5, Behind
<1>7. ASSUME NEW p \in Listed PROVE next[p] <= p <=> p = m
  <2>1. next[p] \in Listed /\ (next[p] # Root => p < next[p]) BY <1>1 DEF Ring
  <2>2. next[p] = Root => \A q \in Listed : q <= p BY <1>1 DEF Ring
  <2>3. \A q \in Listed : q <= m BY <1>1, <1>6 DEF Ring
  <2>4. next[p] = Root => m <= p /\ p <= m BY <2>2, <2>3, <1>6
  <2>5. next[p] <= p => p = m BY <2>1, <2>4, <1>3, <1>6
  <2>6. next[m] <= m BY <1>3, <1>6
  <2> QED BY <2>5, <2>6
<1>8. {p \in Listed : next[p] <= p} = {m} BY <1>6, <1>7
<1>9. Cardinality({m}) = 1 BY FS_Singleton
<1> QED BY <1>1, <1>2, <1>8, <1>9 DEF Ordered

LEMMA HeapCoalesced == HeapInv => Coalesced
BY DEF HeapInv, Sound, Joined, Coalesced

\* Memory is in order before and after every step of the allocator, for any
\* heap and any users: freelist.c keeps every unit in one block, the list
\* circular and in address order, and free neighbours joined.
THEOREM HeapInOrder == ListSpec => []ListInv
<1>1. HeapInv => ListInv BY HeapPartition, HeapOrdered, HeapCoalesced DEF ListInv, HeapInv
<1> QED BY <1>1, HeapInit, HeapStep, PTL DEF ListSpec

-----------------------------------------------------------------------------
(* What callers see.                                                        *)

Live(o, nm) == [a \in Addr |-> IF a \in o THEN nm[a] ELSE 0]

\* With the block a of n units the blocks o of sizes nm become o2 of nm2.
HandsOut(o, nm, top, o2, nm2, a, n) ==
    /\ a \in Base .. top - 1 /\ Live(o2, nm2)[a] = n /\ a + n - 1 \in Base .. top - 1
    /\ \A u \in Addr : a <= u /\ u < a + n =>
          /\ u \in Base .. top - 1
          /\ \A c \in Addr : ~(c <= u /\ u < c + Live(o, nm)[c])
    /\ Live(o2, nm2) = [Live(o, nm) EXCEPT ![a] = n]

\* A block of n units at a, cut out of a free one, meets no block in use.
LEMMA Fresh ==
    ASSUME NEW nx, NEW nm, NEW L, NEW o, NEW top, Sound(nx, nm, L, o, top, {}),
           NEW p \in L \ {Root}, NEW a \in Nat, NEW n \in Nat \ {0},
           p <= a, a + n <= p + nm[p],
           NEW o2, o2 = o \cup {a}, NEW nm2, nm2[a] = n, \A c \in o : nm2[c] = nm[c]
    PROVE  HandsOut(o, nm, top, o2, nm2, a, n)
<1> DEFINE B == (L \ {Root}) \cup o
<1>1. /\ nm \in [Addr -> Nat] /\ top \in Base .. Limit /\ Tiles(B, nm, top) /\ L \cap o = {}
  BY DEF Sound
<1>2. /\ B \subseteq Base .. top - 1 /\ top \in Nat
      /\ \A b \in B : b \in Addr /\ b \in Nat /\ b >= 2 /\ nm[b] \in Nat /\ nm[b] >= 1 /\ b + nm[b] <= top
      /\ \A c, b \in B : c < b => c + nm[c] <= b
  BY <1>1, TilesTyped
<1>3. Base = 2 /\ Root = 0 /\ Limit \in Nat /\ top <= Limit BY <1>1, UnitsAre
<1>4. p \in B /\ p \in Nat /\ p >= 2 /\ nm[p] \in Nat /\ p + nm[p] <= top BY <1>2
<1>5. a \in Base .. top - 1 /\ a + n - 1 \in Base .. top - 1 /\ a \in Addr
  <2>1. a >= 2 /\ a + n <= top /\ a <= Limit BY <1>2, <1>3, <1>4
  <2> QED BY <2>1, <1>2, <1>3 DEF Addr
<1>6. Live(o2, nm2)[a] = n BY <1>5 DEF Live
<1>7. ASSUME NEW u \in Addr, a <= u /\ u < a + n
      PROVE  /\ u \in Base .. top - 1
             /\ \A c \in Addr : ~(c <= u /\ u < c + Live(o, nm)[c])
  <2>1. u \in Nat BY <1>3 DEF Addr
  <2>2. p <= u /\ u < p + nm[p] BY <2>1, <1>4, <1>7
  <2>3. u \in Base .. top - 1 BY <2>1, <2>2, <1>2, <1>3, <1>4
  <2>4. ASSUME NEW c \in Addr, c <= u /\ u < c + Live(o, nm)[c] PROVE FALSE
    <3>1. c \in Nat BY <1>3 DEF Addr
    <3>2. CASE c \in o
      <4>1. c \in B /\ c # p BY <3>2, <1>1
      <4>2. Live(o, nm)[c] = nm[c] BY <3>2 DEF Live
      <4>3. nm[c] \in Nat /\ (c < p => c + nm[c] <= p) /\ (p < c => p + nm[p] <= c) BY <4>1, <1>2, <1>4
      <4> QED BY <4>1, <4>2, <4>3, <3>1, <2>1, <2>2, <2>4, <1>4
    <3>3. CASE c \notin o
      <4>1. Live(o, nm)[c] = 0 BY <3>3 DEF Live
      <4> QED BY <4>1, <3>1, <2>1, <2>4
    <3> QED BY <3>2, <3>3
  <2> QED BY <2>3, <2>4
<1>8. Live(o2, nm2) = [Live(o, nm) EXCEPT ![a] = n] BY <1>5 DEF Live
<1> QED BY <1>5, <1>6, <1>7, <1>8 DEF HandsOut

LEMMA SeesFresh ==
    ASSUME NEW p \in Listed \ {Root}, NEW a \in Nat, HeapInv, request \in Nat \ {0},
           p <= a, a + request <= p + num[p],
           owned' = owned \cup {a}, num'[a] = request, \A c \in owned : num'[c] = num[c],
           brk' = brk
    PROVE  H!Alloc
<1> DEFINE lv == Live(owned, num)
           n == request
<1>1. Sound(next, num, Listed, owned, brk, {}) BY DEF HeapInv
<1>2. HandsOut(owned, num, brk, owned', num', a, n)
  <2>1. PICK L, o, nm, o2, nm2, r : /\ L = Listed /\ o = owned /\ nm = num
                                    /\ o2 = owned' /\ nm2 = num' /\ r = request
    OBVIOUS
  <2>2. Sound(next, nm, L, o, brk, {}) /\ p \in L \ {Root} /\ r \in Nat \ {0} BY <1>1, <2>1
  <2>3. o2 = o \cup {a} /\ nm2[a] = r /\ (\A c \in o : nm2[c] = nm[c]) /\ a + r <= p + nm[p]
    BY <2>1
  <2>4. HandsOut(o, nm, brk, o2, nm2, a, r) BY <2>2, <2>3, Fresh
  <2> QED BY <2>1, <2>4
<1>2a. /\ a \in Base .. brk - 1 /\ Live(owned', num')[a] = n /\ a + n - 1 \in Base .. brk - 1
      /\ \A u \in Addr : a <= u /\ u < a + n =>
            /\ u \in Base .. brk - 1
            /\ \A c \in Addr : ~(c <= u /\ u < c + lv[c])
      /\ Live(owned', num') = [lv EXCEPT ![a] = n]
  BY <1>2 DEF HandsOut
<1>3. H!Span(a, n) \subseteq (Base .. brk - 1) \ H!Used
  BY <1>2a DEF H!Span, H!Used, Live
<1> QED BY <1>2a, <1>3 DEF H!Alloc, Live

LEMMA SeesTake == HeapInv /\ Take => H!Alloc
<1> SUFFICES ASSUME HeapInv, Take PROVE H!Alloc OBVIOUS
<1>1. /\ ListTypeOK /\ Sound(next, num, Listed, owned, brk, {}) BY DEF HeapInv
<1>2. PICK p, q : /\ q \in Listed /\ p \in Listed /\ next[q] = p
                  /\ num[p] >= request /\ p # Root /\ TakeAt(p, q)
  BY TakeIs
<1>3. request \in Nat \ {0} BY <1>1, Members DEF Take
<1>4. p \in Nat /\ p \in Addr /\ num[p] \in Nat /\ num \in [Addr -> Nat] /\ owned \subseteq Addr
      /\ Listed \cap owned = {}
  <2>1. Ring(next, Listed) /\ Listed \cap owned = {} BY <1>1 DEF Sound
  <2>2. p \in Place BY <2>1, <1>2 DEF Ring
  <2> QED BY <2>1, <2>2, <1>1, Places DEF ListTypeOK
<1>5. brk' = brk BY <1>2 DEF TakeAt
<1>6. CASE num[p] - request = 0
  <2>1. owned' = owned \cup {p} /\ num' = num BY <1>2, <1>6 DEF TakeAt
  <2>2. num[p] = request /\ p <= p /\ p + request <= p + num[p] BY <1>3, <1>4, <1>6
  <2> QED BY <2>1, <2>2, <1>2, <1>3, <1>4, <1>5, SeesFresh
<1>7. CASE num[p] - request # 0
  <2>1. PICK a : a = p + (num[p] - request) OBVIOUS
  <2>2. num' = [num EXCEPT ![p] = num[p] - request, ![a] = request] /\ owned' = owned \cup {a}
    BY <2>1, <1>2, <1>7 DEF TakeAt
  <2>3. num[p] > request BY <1>2, <1>3, <1>4, <1>7
  <2>4. a \notin (Listed \ {Root}) \cup owned /\ a \in Base .. brk - 1
    <3>1. PICK L, r : L = Listed /\ r = request OBVIOUS
    <3>2. p \in L /\ r \in Nat \ {0} /\ num[p] > r /\ Sound(next, num, L, owned, brk, {})
      BY <3>1, <2>3, <1>1, <1>2, <1>3
    <3>3. /\ p + (num[p] - r) \notin (L \ {Root}) \cup owned
          /\ p + (num[p] - r) \in Base .. brk - 1
      BY <3>2, SplitSound
    <3> QED BY <3>1, <3>3, <2>1
  <2>5. a \in Nat /\ p <= a /\ a + request <= p + num[p] BY <2>1, <2>3, <1>3, <1>4
  <2>6. a \in Addr
    <3>1. brk \in Nat /\ brk <= Limit /\ Limit \in Nat /\ Base = 2 /\ Root = 0 BY <1>1, Members, UnitsAre
    <3> QED BY <3>1, <2>4 DEF Addr
  <2>7. num'[a] = request /\ \A c \in owned : num'[c] = num[c]
    <3>1. num'[a] = request BY <2>2, <2>6, <1>4
    <3>2. \A c \in owned : c # a /\ c # p BY <2>4, <1>2, <1>4
    <3> QED BY <3>1, <3>2, <2>2, <1>4
  <2> QED BY <2>2, <2>5, <2>7, <1>2, <1>3, <1>5, SeesFresh
<1> QED BY <1>6, <1>7

LEMMA SeesGrow == HeapInv /\ Grow => H!Grow
<1> SUFFICES ASSUME HeapInv, Grow PROVE H!Grow OBVIOUS
<1>1. HeapInv' /\ \A a \in owned : num'[a] = num[a] BY GrowKeeps
<1>2. PICK n \in Nat \ {0} : brk + n <= Room /\ brk' = brk + n BY FirstGrant
<1>3. owned' = owned BY DEF Grow
<1>4. Live(owned, num') = Live(owned, num) BY <1>1 DEF Live
<1>5. /\ brk \in Nat /\ Room \in Nat /\ Room <= Limit /\ Limit \in Nat /\ Base = 2 /\ Root = 0
  BY Members, UnitsAre DEF HeapInv
<1>6. (Base .. brk' - 1) \in SUBSET Addr /\ (Base .. brk - 1) \subseteq (Base .. brk' - 1)
  <2>1. brk + n \in Nat /\ brk + n <= Limit /\ brk <= brk + n BY <1>2, <1>5
  <2>2. PICK e : e = brk' OBVIOUS
  <2>3. e \in Nat /\ e <= Limit /\ brk <= e BY <2>1, <2>2, <1>2
  <2>4. \A u \in Base .. e - 1 : u \in Addr BY <2>3, <1>5 DEF Addr
  <2>5. \A u \in Base .. brk - 1 : u \in Base .. e - 1 BY <2>3, <1>5
  <2> QED BY <2>2, <2>4, <2>5
<1> QED BY <1>3, <1>4, <1>6 DEF H!Grow, Live

LEMMA SeesFree == \A b \in owned : HeapInv /\ Free(b) => H!Free
<1> SUFFICES ASSUME NEW b \in owned, HeapInv, Free(b) PROVE H!Free OBVIOUS
<1>1. /\ ListTypeOK /\ Sound(next, num, Listed, owned, brk, {}) /\ freeList \in Listed BY DEF HeapInv
<1>2. FreeBlock(b, num) /\ owned' = owned \ {b} /\ brk' = brk BY DEF Free
<1>3. b \notin Listed \cup (owned \ {b}) /\ (owned \ {b}) \cup {b} = owned BY <1>1 DEF Sound
<1>4. \A a \in owned \ {b} : num'[a] = num[a] BY <1>1, <1>2, <1>3, GivenBack
<1>5. b \in Addr /\ Live(owned, num)[b] # 0
  <2>1. b \in Addr BY <1>1 DEF ListTypeOK
  <2>2. num[b] >= 1 /\ num[b] \in Nat BY <1>1, <2>1 DEF Sound, Tiles
  <2> QED BY <2>1, <2>2 DEF Live
<1>6. Live(owned', num') = [Live(owned, num) EXCEPT ![b] = 0]
  <2>1. Live(owned \ {b}, num') = [Live(owned, num) EXCEPT ![b] = 0] BY <1>4, <1>5 DEF Live
  <2> QED BY <2>1, <1>2
<1> QED BY <1>2, <1>5, <1>6 DEF H!Free, Live

LEMMA SeesNoChange ==
    ASSUME owned' = owned, num' = num, brk' = brk
    PROVE  UNCHANGED H!vars
BY DEF H!vars

LEMMA HeapSeesStep == HeapInv /\ [ListNext]_listVars => [H!Next]_(H!vars)
<1> SUFFICES ASSUME HeapInv, [ListNext]_listVars PROVE [H!Next]_(H!vars) OBVIOUS
<1>1. ASSUME NEW n \in 1 .. user.request, Alloc(n) PROVE UNCHANGED H!vars
  BY <1>1, SeesNoChange DEF Alloc
<1>2. CASE Take BY <1>2, SeesTake DEF H!Next
<1>3. CASE Grow BY <1>3, SeesGrow DEF H!Next
<1>4. CASE Fail BY <1>4, SeesNoChange DEF Fail
<1>5. ASSUME NEW b \in owned, Free(b) PROVE H!Next BY <1>5, SeesFree DEF H!Next
<1>6. CASE UNCHANGED listVars BY <1>6, SeesNoChange DEF listVars
<1> QED BY <1>1, <1>2, <1>3, <1>4, <1>5, <1>6 DEF ListNext

\* The allocator keeps the promise of malloc and free (freelist.h), for any heap
\* and any users: a block handed out meets no block in use, a block keeps its size
\* until it is freed, and splits, joins and growth are never seen by a caller.
THEOREM HeapRefines == ListSpec => HeapSpec
<1>1. ListInit => H!Init
  <2> SUFFICES ASSUME ListInit PROVE H!Init OBVIOUS
  <2>1. owned = {} /\ brk = Base /\ Base = 2 BY UnitsAre DEF ListInit
  <2>2. Base .. brk - 1 = {} BY <2>1
  <2> QED BY <2>1, <2>2 DEF H!Init
<1> QED BY <1>1, HeapInit, HeapStep, HeapSeesStep, PTL DEF ListSpec, HeapSpec, H!Spec
-----------------------------------------------------------------------------
(* The key decoder: the keyboard.  What the FPGA has read and not been asked *)
(* for is a row of pieces, each with the event it is owed as.                *)

\* The keys whose bytes begin with e0.
Far == {"ctrl", "gui", "up", "enter", "sysrq", "none"}
\* The pause key, which has no release.
PauseBytes == <<"e1", "14", "77", "e1", "f0", "14", "f0", "77">>
\* The byte that names a key; none stands for the sign around SysRq.
LastByte(k) ==
    CASE k \in {"shift", "none"} -> "12" [] k = "ctrl" -> "14" [] k = "gui" -> "1f"
      [] k = "a" -> "1c" [] k = "up" -> "75" [] k = "enter" -> "5a" [] k = "f1" -> "05"
      [] k = "caps" -> "58" [] OTHER -> "7c"
\* What is sent comes in pieces, the presses and releases of keys.
PieceKey == K!Modifier \cup K!Ordinary \cup {"none"}
Piece == {p \in [key : PieceKey, up : BOOLEAN] : p.key = "pause" => ~p.up}
\* The bytes of a piece.
BytesOf(p) ==
    IF p.key = "pause" THEN PauseBytes
    ELSE IF p.key \in Far
         THEN IF p.up THEN <<"e0", "f0", LastByte(p.key)>> ELSE <<"e0", LastByte(p.key)>>
         ELSE IF p.up THEN <<"f0", LastByte(p.key)>> ELSE <<LastByte(p.key)>>

\* What the tables make of a key.
CodeOf(k) ==
    CASE k \in {"a", "enter"} -> <<"ascii", LastByte(k)>>
      [] k = "up" -> <<"position", "75">>
      [] k = "f1" -> <<"f", "05">>
      [] k = "caps" -> <<"forward", "58">>
      [] OTHER -> <<k>>

\* What it is owed as while the keys d are down.
MeantAt(k, up, d) ==
    K!Overridden(K!Event(CodeOf(k), IF k = "caps" THEN {} ELSE d \cap K!Modifier, up))

\* The pieces there are.
LEMMA KeyCases ==
    ASSUME NEW p \in Piece
    PROVE  /\ p.key \in {"shift", "ctrl", "gui", "a", "up", "enter", "f1", "caps", "sysrq", "pause", "none"}
           /\ p.up \in BOOLEAN /\ (p.key = "pause" => ~p.up)
BY DEF Piece, PieceKey, K!Modifier, K!Ordinary

\* Apart from pause, the bytes of a piece are its last byte, with f0 and e0 or not.
LEMMA FourForms ==
    ASSUME NEW p \in Piece
    PROVE  \/ p.key = "pause" /\ BytesOf(p) = PauseBytes /\ ~p.up
           \/ p.key \in {"shift", "a", "f1", "caps"} /\ ~p.up /\ BytesOf(p) = <<LastByte(p.key)>>
           \/ p.key \in {"shift", "a", "f1", "caps"} /\ p.up /\ BytesOf(p) = <<"f0", LastByte(p.key)>>
           \/ p.key \in Far /\ ~p.up /\ BytesOf(p) = <<"e0", LastByte(p.key)>>
           \/ p.key \in Far /\ p.up /\ BytesOf(p) = <<"e0", "f0", LastByte(p.key)>>
BY KeyCases DEF BytesOf, Far

\* The bytes that name keys, and all bytes.
Codes == {"12", "14", "1f", "1c", "75", "5a", "05", "58", "7c"}

Sign == {"e0", "f0", "e1", "77", "12", "14", "1f", "1c", "75", "5a", "05", "58", "7c"}

\* No key is named by f0.
LEMMA LastByteIs ==
    ASSUME NEW p \in Piece
    PROVE  LastByte(p.key) \in Codes /\ LastByte(p.key) \in Sign /\ LastByte(p.key) # "f0"
BY KeyCases DEF LastByte, Codes, Sign

\* What is in the buffer as long as a piece is not there whole.
Begun(buf) ==
    /\ buf \in Seq(Sign) /\ Len(buf) > 0 /\ Len(buf) <= 7
    /\ \/ Len(buf) = 1 /\ buf[1] \in {"e0", "f0", "e1"}
       \/ Len(buf) = 2 /\ buf[1] = "e0" /\ buf[2] = "f0"
       \/ Len(buf) >= 2 /\ buf[1] = "e1" /\ buf[2] = "14"

\* A sequence that is not whole is taken for no key, flag or sign.
LEMMA BegunDecodes ==
    ASSUME NEW buf, Begun(buf)
    PROVE  /\ K!Pressed(buf) = buf /\ K!OSD_ConvFlags(buf) = {} /\ K!Code(buf) = K!NoCode
           /\ ~K!Silent(buf) /\ ~K!Ignored(buf) /\ buf # << >>
<1>1. K!Pressed(buf) = buf
  BY DEF K!Pressed, Begun
<1>2. K!OSD_ConvFlags(buf) = {} /\ ~K!Silent(buf) /\ ~K!Ignored(buf)
  BY DEF K!OSD_ConvFlags, K!Silent, K!Ignored, K!Extended, Begun
<1>3. K!Code(buf) = K!NoCode
  <2>1. buf[1] \notin K!Ascii /\ buf[1] \notin K!FKey /\ Len(buf) # 8
    <3>1. buf[1] \in {"e0", "f0", "e1"}
      BY DEF Begun
    <3>2. Len(buf) # 8
      <4> DEFINE m == Len(buf)
      <4>1. m \in Nat /\ m <= 7
        BY DEF Begun
      <4> HIDE DEF m
      <4>2. m # 8
        BY <4>1
      <4> QED BY <4>2 DEF m
    <3>3. buf[1] \notin K!Ascii /\ buf[1] \notin K!FKey
      BY <3>1 DEF K!Ascii, K!FKey
    <3> QED BY <3>2, <3>3
  <2>2. K!Extended(buf) => buf[2] = "f0"
    BY DEF K!Extended, Begun
  <2>3. "f0" \notin K!Ascii /\ "f0" \notin K!Position
    BY DEF K!Ascii, K!Position
  <2> QED BY <2>1, <2>2, <2>3 DEF K!Code, K!NoCode
<1>4. buf # << >>
  BY DEF Begun
<1> QED BY <1>1, <1>2, <1>3, <1>4

\* The pause key is recognised by its first two bytes.
LEMMA PauseIs ==
    /\ PauseBytes \in Seq(Sign) /\ Len(PauseBytes) = 8
    /\ PauseBytes[1] = "e1" /\ PauseBytes[2] = "14"
<1>1. Len(PauseBytes) = 8 /\ PauseBytes[1] = "e1" /\ PauseBytes[2] = "14"
  BY DEF PauseBytes
<1>2. PauseBytes \in Seq(Sign)
  BY DEF PauseBytes, Sign
<1> QED BY <1>1, <1>2

\* The f0 is taken out in front and behind e0.
LEMMA PressedForms ==
    ASSUME NEW x
    PROVE  /\ K!Pressed(<<x>>) = <<x>> /\ K!Pressed(<<"f0", x>>) = <<x>>
           /\ K!Pressed(<<"e0", x>>) = <<"e0", x>> /\ K!Pressed(<<"e0", "f0", x>>) = <<"e0", x>>
           /\ <<x>> # <<"f0", x>> /\ <<"e0", x>> # <<"e0", "f0", x>>
<1>1. Len(<<x>>) = 1 /\ Len(<<"f0", x>>) = 2 /\ Len(<<"e0", x>>) = 2 /\ Len(<<"e0", "f0", x>>) = 3
  OBVIOUS
<1>2. K!Pressed(<<x>>) = <<x>> /\ K!Pressed(<<"f0", x>>) = <<x>>
  BY <1>1 DEF K!Pressed
<1>3. K!Pressed(<<"e0", x>>) = <<"e0", x>> /\ K!Pressed(<<"e0", "f0", x>>) = <<"e0", x>>
  BY <1>1 DEF K!Pressed
<1> QED BY <1>1, <1>2, <1>3

\* The same buffer without the f0.
PressOf(p) == BytesOf([key |-> p.key, up |-> FALSE])

\* A release is decoded as its press.
LEMMA PressIs ==
    ASSUME NEW p \in Piece
    PROVE  /\ K!Pressed(BytesOf(p)) = PressOf(p)
           /\ p.up => PressOf(p) # BytesOf(p)
           /\ ~p.up => PressOf(p) = BytesOf(p)
<1>0. LastByte(p.key) \in Sign /\ LastByte(p.key) # "f0"
  BY LastByteIs
<1>1. CASE p.key = "pause"
  <2>1. BytesOf(p) = PauseBytes /\ PressOf(p) = PauseBytes /\ ~p.up
    BY <1>1, KeyCases DEF PressOf, BytesOf
  <2> QED BY <2>1, PauseIs DEF K!Pressed
<1>2. CASE p.key \in {"shift", "a", "f1", "caps"} /\ ~p.up
  <2>1. BytesOf(p) = <<LastByte(p.key)>> /\ PressOf(p) = <<LastByte(p.key)>>
    BY <1>2 DEF BytesOf, PressOf, Far
  <2> QED BY <2>1, <1>2, <1>0, PressedForms
<1>3. CASE p.key \in {"shift", "a", "f1", "caps"} /\ p.up
  <2>1. BytesOf(p) = <<"f0", LastByte(p.key)>> /\ PressOf(p) = <<LastByte(p.key)>>
    BY <1>3 DEF BytesOf, PressOf, Far
  <2> QED BY <2>1, <1>3, <1>0, PressedForms
<1>4. CASE p.key \in Far /\ ~p.up
  <2>1. BytesOf(p) = <<"e0", LastByte(p.key)>> /\ PressOf(p) = <<"e0", LastByte(p.key)>>
    BY <1>4 DEF BytesOf, PressOf, Far
  <2> QED BY <2>1, <1>4, <1>0, PressedForms
<1>5. CASE p.key \in Far /\ p.up
  <2>1. BytesOf(p) = <<"e0", "f0", LastByte(p.key)>> /\ PressOf(p) = <<"e0", LastByte(p.key)>>
    BY <1>5 DEF BytesOf, PressOf, Far
  <2> QED BY <2>1, <1>5, <1>0, PressedForms
<1> QED BY <1>1, <1>2, <1>3, <1>4, <1>5, KeyCases DEF Far

\* How the press of each key is decoded.
LEMMA PressDecodes ==
    ASSUME NEW p \in Piece, NEW b, b = PressOf(p)
    PROVE  /\ K!OSD_ConvFlags(b) = IF p.key \in K!Modifier THEN {p.key} ELSE {}
           /\ p.key \in K!Ordinary \ {"caps"} => K!Code(b) = CodeOf(p.key) /\ K!Code(b) # K!NoCode
           /\ p.key \in {"caps", "none"} => K!Code(b) = K!NoCode
           /\ K!Silent(b) = (p.key = "none")
           /\ p.key = "caps" => K!Ignored(b) /\ K!Last(b) = "58"
<1> USE DEF K!OSD_ConvFlags, K!Code, K!NoCode, K!Silent, K!Ignored, K!Extended, K!Ascii, K!FKey,
        K!Position, K!Modifier, K!Ordinary, CodeOf
<1>1. CASE p.key = "pause"
  <2>1. b = PauseBytes
    BY <1>1 DEF PressOf, BytesOf
  <2> QED BY <1>1, <2>1, PauseIs
<1>2. CASE p.key = "shift"
  <2>1. b = <<"12">>
    BY <1>2 DEF PressOf, BytesOf, LastByte, Far
  <2> QED BY <1>2, <2>1
<1>3. CASE p.key = "a"
  <2>1. b = <<"1c">> /\ LastByte("a") = "1c"
    BY <1>3 DEF PressOf, BytesOf, LastByte, Far
  <2> QED BY <1>3, <2>1
<1>4. CASE p.key = "f1"
  <2>1. b = <<"05">>
    BY <1>4 DEF PressOf, BytesOf, LastByte, Far
  <2> QED BY <1>4, <2>1
<1>5. CASE p.key = "caps"
  <2>1. b = <<"58">>
    BY <1>5 DEF PressOf, BytesOf, LastByte, Far
  <2> QED BY <1>5, <2>1 DEF K!Last
<1>6. CASE p.key = "ctrl"
  <2>1. b = <<"e0", "14">>
    BY <1>6 DEF PressOf, BytesOf, LastByte, Far
  <2> QED BY <1>6, <2>1
<1>7. CASE p.key = "gui"
  <2>1. b = <<"e0", "1f">>
    BY <1>7 DEF PressOf, BytesOf, LastByte, Far
  <2> QED BY <1>7, <2>1
<1>8. CASE p.key = "up"
  <2>1. b = <<"e0", "75">>
    BY <1>8 DEF PressOf, BytesOf, LastByte, Far
  <2> QED BY <1>8, <2>1
<1>9. CASE p.key = "enter"
  <2>1. b = <<"e0", "5a">> /\ LastByte("enter") = "5a"
    BY <1>9 DEF PressOf, BytesOf, LastByte, Far
  <2> QED BY <1>9, <2>1
<1>10. CASE p.key = "sysrq"
  <2>1. b = <<"e0", "7c">>
    BY <1>10 DEF PressOf, BytesOf, LastByte, Far
  <2> QED BY <1>10, <2>1
<1>11. CASE p.key = "none"
  <2>1. b = <<"e0", "12">>
    BY <1>11 DEF PressOf, BytesOf, LastByte, Far
  <2> QED BY <1>11, <2>1
<1> QED BY <1>1, <1>2, <1>3, <1>4, <1>5, <1>6, <1>7, <1>8, <1>9, <1>10, <1>11, KeyCases

\* The first n elements of a sequence.
LEMMA Beginning ==
    ASSUME NEW S, NEW s \in Seq(S), NEW n \in 0 .. Len(s)
    PROVE  /\ SubSeq(s, 1, n) \in Seq(S) /\ Len(SubSeq(s, 1, n)) = n
           /\ \A i \in 1 .. n : SubSeq(s, 1, n)[i] = s[i]
OBVIOUS

\* A piece fits in the buffer, and is not whole a byte earlier.
LEMMA BytesAre ==
    ASSUME NEW p \in Piece
    PROVE  /\ BytesOf(p) \in Seq(Sign) /\ Len(BytesOf(p)) > 0 /\ Len(BytesOf(p)) <= 8
           /\ \A n \in 1 .. Len(BytesOf(p)) - 1 : Begun(SubSeq(BytesOf(p), 1, n))
<1>0. LastByte(p.key) \in Sign
  BY LastByteIs
<1>a. BytesOf(p) \in Seq(Sign) /\ Len(BytesOf(p)) > 0 /\ Len(BytesOf(p)) <= 8
  <2> DEFINE x == LastByte(p.key)
  <2>1. "f0" \in Sign /\ "e0" \in Sign
    BY DEF Sign
  <2> HIDE DEF x
  <2>2. <<x>> \in Seq(Sign) /\ <<"f0", x>> \in Seq(Sign) /\ <<"e0", x>> \in Seq(Sign)
        /\ <<"e0", "f0", x>> \in Seq(Sign)
    BY <1>0, <2>1 DEF x
  <2>3. /\ Len(<<x>>) > 0 /\ Len(<<"f0", x>>) > 0 /\ Len(<<"e0", x>>) > 0
        /\ Len(<<"e0", "f0", x>>) > 0 /\ Len(<<x>>) <= 8 /\ Len(<<"f0", x>>) <= 8
        /\ Len(<<"e0", x>>) <= 8 /\ Len(<<"e0", "f0", x>>) <= 8
    OBVIOUS
  <2>5. Len(PauseBytes) > 0 /\ Len(PauseBytes) <= 8
    BY PauseIs
  <2>4. \/ BytesOf(p) = PauseBytes \/ BytesOf(p) = <<x>> \/ BytesOf(p) = <<"f0", x>>
        \/ BytesOf(p) = <<"e0", x>> \/ BytesOf(p) = <<"e0", "f0", x>>
    BY FourForms DEF x
  <2> QED BY <2>2, <2>3, <2>4, <2>5, PauseIs, Zenon
<1> SUFFICES ASSUME NEW n \in 1 .. Len(BytesOf(p)) - 1 PROVE Begun(SubSeq(BytesOf(p), 1, n))
  BY <1>a
<1> DEFINE b == BytesOf(p)
           s == SubSeq(b, 1, n)
<1> HIDE DEF b, s
<1>c. b \in Seq(Sign) /\ Len(b) > 0 /\ Len(b) <= 8 /\ n \in 1 .. Len(b) - 1
  BY <1>a DEF b
<1>d. \/ b = PauseBytes \/ b = <<LastByte(p.key)>> \/ b = <<"f0", LastByte(p.key)>>
      \/ b = <<"e0", LastByte(p.key)>> \/ b = <<"e0", "f0", LastByte(p.key)>>
  BY FourForms DEF b
<1>b. s \in Seq(Sign) /\ Len(s) = n /\ n \in 1 .. 7 /\ \A i \in 1 .. n : s[i] = b[i]
  <2>1. b \in Seq(Sign) /\ n \in 0 .. Len(b) /\ n \in 1 .. 7
    BY <1>c
  <2> QED BY <2>1, Beginning DEF s
<1>e. /\ s \in Seq(Sign) /\ Len(s) > 0 /\ Len(s) <= 7 /\ n \in 1 .. 7
      /\ s[1] = b[1] /\ (n >= 2 => s[2] = b[2])
      /\ (n = 1 => Len(s) = 1) /\ (n = 2 => Len(s) = 2) /\ (n >= 2 => Len(s) >= 2)
  BY <1>b
<1> SUFFICES Begun(s)
  BY DEF s, b
<1>1. CASE b = PauseBytes
  <2>1. b[1] = "e1" /\ b[2] = "14"
    BY <1>1, PauseIs
  <2>2. n = 1 \/ n >= 2
    BY <1>e
  <2> QED BY <2>1, <2>2, <1>e, Zenon DEF Begun
<1>2. CASE b = <<LastByte(p.key)>>
  BY <1>0, <1>2, <1>c
<1>3. CASE b = <<"f0", LastByte(p.key)>> \/ b = <<"e0", LastByte(p.key)>>
  <2>1. Len(b) = 2 /\ b[1] \in {"e0", "f0"}
    BY <1>3
  <2>2. n = 1
    BY <2>1, <1>c
  <2> QED BY <2>1, <2>2, <1>e, Zenon DEF Begun
<1>4. CASE b = <<"e0", "f0", LastByte(p.key)>>
  <2>1. Len(b) = 3 /\ b[1] = "e0" /\ b[2] = "f0"
    BY <1>4
  <2>2. n = 1 \/ n = 2
    BY <2>1, <1>c
  <2>3. n = 2 => n >= 2
    OBVIOUS
  <2> QED BY <2>1, <2>2, <2>3, <1>e, Zenon DEF Begun
<1> QED BY <1>1, <1>2, <1>3, <1>4, <1>d

\* Two sequences of two make one of four.
LEMMA TwoAndTwo ==
    ASSUME NEW S, NEW a \in S, NEW b \in S, NEW c \in S, NEW d \in S
    PROVE  <<a, b, c, d>> = <<a, b>> \o <<c, d>>
OBVIOUS

\* Two sequences of three make one of six.
LEMMA ThreeAndThree ==
    ASSUME NEW S, NEW a \in S, NEW b \in S, NEW c \in S, NEW d \in S, NEW e \in S, NEW f \in S
    PROVE  <<a, b, c, d, e, f>> = <<a, b, c>> \o <<d, e, f>>
OBVIOUS

\* A key that is typed is one piece, or with the sign that comes with SysRq two.
LEMMA TypedIs ==
    ASSUME NEW k \in K!Modifier \cup K!Ordinary, NEW up \in BOOLEAN, k = "pause" => ~up
    PROVE  LET bytes == IF up THEN K!Release(k) ELSE K!Make[k]
               p == [key |-> k, up |-> up]
               s == [key |-> "none", up |-> up]
           IN  /\ p \in Piece /\ s \in Piece
               /\ k # "sysrq" => bytes = BytesOf(p)
               /\ k = "sysrq" /\ ~up => bytes = BytesOf(s) \o BytesOf(p)
               /\ k = "sysrq" /\ up => bytes = BytesOf(p) \o BytesOf(s)
<1> DEFINE p == [key |-> k, up |-> up]
           s == [key |-> "none", up |-> up]
<1>1. p \in Piece /\ s \in Piece
  BY DEF Piece, PieceKey
<1>2. ~up /\ k # "sysrq" => K!Make[k] = BytesOf(p)
  BY DEF K!Make, K!Modifier, K!Ordinary, BytesOf, LastByte, Far, PauseBytes
<1>3. up /\ k \in {"shift", "a", "f1", "caps"} => K!Make[k] = <<LastByte(k)>>
  BY DEF K!Make, K!Modifier, K!Ordinary, LastByte
<1>4. up /\ k \in {"ctrl", "gui", "up", "enter"} => K!Make[k] = <<"e0", LastByte(k)>>
  BY DEF K!Make, K!Modifier, K!Ordinary, LastByte
<1>5. up /\ k # "sysrq" => K!Release(k) = BytesOf(p)
  BY <1>3, <1>4 DEF K!Release, K!Modifier, K!Ordinary, BytesOf, Far
<1>a. "e0" \in Sign /\ "12" \in Sign /\ "7c" \in Sign /\ "f0" \in Sign
  BY DEF Sign
<1>6. ASSUME k = "sysrq", ~up PROVE K!Make[k] = BytesOf(s) \o BytesOf(p)
  <2>1. BytesOf(s) = <<"e0", "12">> /\ BytesOf(p) = <<"e0", "7c">>
    BY <1>6 DEF BytesOf, LastByte, Far
  <2>2. K!Make[k] = <<"e0", "12", "e0", "7c">>
    BY <1>6 DEF K!Make, K!Modifier, K!Ordinary
  <2>3. <<"e0", "12", "e0", "7c">> = <<"e0", "12">> \o <<"e0", "7c">>
    BY <1>a, TwoAndTwo
  <2> QED BY <2>1, <2>2, <2>3
<1>7. ASSUME k = "sysrq", up PROVE K!Release(k) = BytesOf(p) \o BytesOf(s)
  <2>1. BytesOf(s) = <<"e0", "f0", "12">> /\ BytesOf(p) = <<"e0", "f0", "7c">>
    BY <1>7 DEF BytesOf, LastByte, Far
  <2>2. K!Release(k) = <<"e0", "f0", "7c", "e0", "f0", "12">>
    BY <1>7 DEF K!Release
  <2>3. <<"e0", "f0", "7c", "e0", "f0", "12">> = <<"e0", "f0", "7c">> \o <<"e0", "f0", "12">>
    BY <1>a, ThreeAndThree
  <2> QED BY <2>1, <2>2, <2>3
<1> QED BY <1>1, <1>2, <1>5, <1>6, <1>7

\* The keys that can be down.
KeySet == K!Modifier \cup K!Ordinary

\* What is held down after a piece.
DownAfter(d, p) ==
    IF p.key \in {"none", "pause"} THEN d
    ELSE IF p.up THEN d \ {p.key} ELSE d \cup {p.key}

\* What one piece adds to the events owed, and takes from them when returned.
OwedKey(p, d) == [event |-> MeantAt(p.key, p.up, d), held |-> p.key \in d]
Owed == {[event |-> e, held |-> h] :
            e \in {MeantAt(k, up, d) : k \in K!Ordinary, up \in BOOLEAN, d \in SUBSET KeySet},
            h \in BOOLEAN}
Counts(p) == IF p.key \in K!Ordinary THEN 1 ELSE 0
OwedAfter(o, p, d) == IF p.key \in K!Ordinary THEN Append(o, OwedKey(p, d)) ELSE o
OwedRest(o, p) == IF p.key \in K!Ordinary THEN Tail(o) ELSE o

\* The bytes s are those of the pieces q and end with the keys d down, and o is
\* what they are to be returned as: w tells where each piece begins.
Laid(q, w, s, o, d) ==
    /\ q \in Seq(Piece) /\ s \in Seq(Sign) /\ o \in Seq(Owed)
    /\ w \in [1 .. Len(q) + 1 -> [at : Nat, down : SUBSET KeySet, n : Nat]]
    /\ w[1].at = 0 /\ w[1].n = 0
    /\ w[Len(q) + 1].at = Len(s) /\ w[Len(q) + 1].n = Len(o) /\ w[Len(q) + 1].down = d
    /\ \A i, j \in 1 .. Len(q) + 1 : i <= j => w[i].at <= w[j].at /\ w[i].n <= w[j].n
    /\ \A i \in 1 .. Len(q) :
          /\ w[i + 1].at = w[i].at + Len(BytesOf(q[i]))
          /\ w[i + 1].n = w[i].n + Counts(q[i])
          /\ w[i + 1].down = DownAfter(w[i].down, q[i])
          /\ q[i].up /\ q[i].key \in K!Ordinary => q[i].key \in w[i].down
          /\ \A j \in 1 .. Len(BytesOf(q[i])) : s[w[i].at + j] = BytesOf(q[i])[j]
          /\ q[i].key \in K!Ordinary => o[w[i].n + 1] = OwedKey(q[i], w[i].down)

\* What is down before the first piece.
Begins(w) == w[1].down

\* What v then tells of the rest of q, and of q with one more piece.
RestLaid(v, w, q, t, o, d) ==
    Laid(Tail(q), v, t, OwedRest(o, q[1]), d) /\ Begins(v) = DownAfter(Begins(w), q[1])
MoreLaid(v, w, q, p, s, o, d) ==
    /\ Laid(Append(q, p), v, s \o BytesOf(p), OwedAfter(o, p, d), DownAfter(d, p))
    /\ Begins(v) = Begins(w)

\* A piece leaves keys down and owes an event, whichever it is.
LEMMA AfterIs ==
    ASSUME NEW p \in Piece, NEW d \in SUBSET KeySet
    PROVE  /\ DownAfter(d, p) \in SUBSET KeySet
           /\ Counts(p) \in Nat /\ (p.key \in K!Ordinary => OwedKey(p, d) \in Owed)
<1>1. DownAfter(d, p) \in SUBSET KeySet
  BY KeyCases DEF DownAfter, KeySet, K!Modifier, K!Ordinary
<1>2. ASSUME p.key \in K!Ordinary PROVE OwedKey(p, d) \in Owed
  <2> DEFINE e == MeantAt(p.key, p.up, d)
             h == p.key \in d
  <2>1. p.up \in BOOLEAN
    BY KeyCases
  <2>2. e \in {MeantAt(k, up, x) : k \in K!Ordinary, up \in BOOLEAN, x \in SUBSET KeySet}
    BY <1>2, <2>1
  <2>3. h \in BOOLEAN
    OBVIOUS
  <2> HIDE DEF e, h
  <2>4. [event |-> e, held |-> h] \in Owed
    BY <2>2, <2>3 DEF Owed
  <2> QED BY <2>4 DEF OwedKey, e, h
<1> QED BY <1>1, <1>2 DEF Counts

\* Nothing is queued.
LEMMA LaidNone ==
    ASSUME NEW d \in SUBSET KeySet
    PROVE  \E w : Laid(<< >>, w, << >>, << >>, d) /\ w[1].down = d
<1> DEFINE w == [i \in 1 .. 1 |-> [at |-> 0, down |-> d, n |-> 0]]
<1>1. << >> \in Seq(Piece) /\ << >> \in Seq(Sign) /\ << >> \in Seq(Owed) /\ Len(<< >>) = 0
  OBVIOUS
<1>2. w \in [1 .. 0 + 1 -> [at : Nat, down : SUBSET KeySet, n : Nat]] /\ w[1] = [at |-> 0, down |-> d, n |-> 0]
  OBVIOUS
<1>3. \A i \in 1 .. 0 + 1 : i = 1
  OBVIOUS
<1> HIDE DEF w
<1>4. Laid(<< >>, w, << >>, << >>, d)
  BY <1>1, <1>2, <1>3 DEF Laid
<1> QED BY <1>2, <1>4

\* One more piece at the end.
LEMMA LaidAppend ==
    ASSUME NEW q, NEW w, NEW s, NEW o, NEW d, NEW p \in Piece,
           Laid(q, w, s, o, d), p.up /\ p.key \in K!Ordinary => p.key \in d
    PROVE  \E v : MoreLaid(v, w, q, p, s, o, d)
<1> DEFINE m == Len(q)
           b == BytesOf(p)
           t == s \o b
           u == OwedAfter(o, p, d)
           last == [at |-> Len(s) + Len(b), down |-> DownAfter(d, p), n |-> Len(o) + Counts(p)]
           v == [i \in 1 .. m + 2 |-> IF i <= m + 1 THEN w[i] ELSE last]
           r == Append(q, p)
<1>1. /\ q \in Seq(Piece) /\ s \in Seq(Sign) /\ o \in Seq(Owed) /\ m \in Nat
      /\ w \in [1 .. m + 1 -> [at : Nat, down : SUBSET KeySet, n : Nat]]
      /\ w[1].at = 0 /\ w[1].n = 0
      /\ w[m + 1].at = Len(s) /\ w[m + 1].n = Len(o) /\ w[m + 1].down = d
      /\ \A i, j \in 1 .. m + 1 : i <= j => w[i].at <= w[j].at /\ w[i].n <= w[j].n
  BY DEF Laid
<1>2. \A i \in 1 .. m :
          /\ w[i + 1].at = w[i].at + Len(BytesOf(q[i]))
          /\ w[i + 1].n = w[i].n + Counts(q[i])
          /\ w[i + 1].down = DownAfter(w[i].down, q[i])
          /\ q[i].up /\ q[i].key \in K!Ordinary => q[i].key \in w[i].down
          /\ \A j \in 1 .. Len(BytesOf(q[i])) : s[w[i].at + j] = BytesOf(q[i])[j]
          /\ q[i].key \in K!Ordinary => o[w[i].n + 1] = OwedKey(q[i], w[i].down)
  BY DEF Laid
<1>3. d \in SUBSET KeySet
  BY <1>1, SMTT(30)
<1>4. b \in Seq(Sign) /\ Len(b) > 0 /\ Len(b) \in Nat
  BY BytesAre
<1>5. DownAfter(d, p) \in SUBSET KeySet /\ Counts(p) \in Nat
      /\ (p.key \in K!Ordinary => OwedKey(p, d) \in Owed)
  BY <1>3, AfterIs
<1>6. t \in Seq(Sign) /\ Len(t) = Len(s) + Len(b)
      /\ (\A j \in 1 .. Len(s) : t[j] = s[j]) /\ \A j \in 1 .. Len(b) : t[Len(s) + j] = b[j]
  <2> HIDE DEF b
  <2> QED BY <1>1, <1>4
<1>7. u \in Seq(Owed) /\ Len(u) = Len(o) + Counts(p)
      /\ (\A j \in 1 .. Len(o) : u[j] = o[j])
      /\ (p.key \in K!Ordinary => u[Len(o) + 1] = OwedKey(p, d))
  BY <1>1, <1>5 DEF OwedAfter, Counts
<1>8. r \in Seq(Piece) /\ Len(r) = m + 1 /\ (\A i \in 1 .. m : r[i] = q[i]) /\ r[m + 1] = p
  BY <1>1
<1> HIDE DEF b, t, u, r, m
<1>9. last \in [at : Nat, down : SUBSET KeySet, n : Nat]
  BY <1>1, <1>4, <1>5
<1>10. /\ v \in [1 .. (m + 1) + 1 -> [at : Nat, down : SUBSET KeySet, n : Nat]]
       /\ (\A i \in 1 .. m + 1 : v[i] = w[i]) /\ v[m + 2] = last
       /\ v[(m + 1) + 1] = last /\ v[1] = w[1]
  BY <1>1, <1>9
<1>11. last.at = Len(t) /\ last.n = Len(u) /\ last.down = DownAfter(d, p)
  BY <1>6, <1>7
<1>12. last.at = w[m + 1].at + Len(b) /\ last.n = w[m + 1].n + Counts(p)
       /\ last.down = DownAfter(w[m + 1].down, p) /\ last.at \in Nat /\ last.n \in Nat
  BY <1>1, <1>4, <1>5
<1> HIDE DEF v, last
<1>13. ASSUME NEW i \in 1 .. (m + 1) + 1, NEW j \in 1 .. (m + 1) + 1, i <= j
       PROVE  v[i].at <= v[j].at /\ v[i].n <= v[j].n
  <2>1. CASE j <= m + 1
    <3>1. i \in 1 .. m + 1 /\ j \in 1 .. m + 1
      BY <2>1, <1>1, <1>13
    <3> QED BY <3>1, <1>1, <1>10, <1>13
  <2>2. CASE j = m + 2 /\ i = m + 2
    BY <2>2, <1>12, <1>10
  <2>3. CASE j = m + 2 /\ i <= m + 1
    <3>1. i \in 1 .. m + 1 /\ m + 1 \in 1 .. m + 1
      BY <2>3, <1>1
    <3>2. w[i].at <= w[m + 1].at /\ w[i].n <= w[m + 1].n /\ w[i].at \in Nat /\ w[i].n \in Nat
          /\ w[m + 1].at \in Nat /\ w[m + 1].n \in Nat
      BY <3>1, <1>1
    <3> QED BY <2>3, <3>1, <3>2, <1>4, <1>5, <1>10, <1>12, SMTT(30)
  <2> QED BY <2>1, <2>2, <2>3, <1>1
<1>14. ASSUME NEW i \in 1 .. m + 1
       PROVE  /\ v[i + 1].at = v[i].at + Len(BytesOf(r[i]))
              /\ v[i + 1].n = v[i].n + Counts(r[i])
              /\ v[i + 1].down = DownAfter(v[i].down, r[i])
              /\ r[i].up /\ r[i].key \in K!Ordinary => r[i].key \in v[i].down
              /\ \A j \in 1 .. Len(BytesOf(r[i])) : t[v[i].at + j] = BytesOf(r[i])[j]
              /\ r[i].key \in K!Ordinary => u[v[i].n + 1] = OwedKey(r[i], v[i].down)
  <2>1. CASE i = m + 1
    <3>1. v[i] = w[m + 1] /\ v[i + 1] = last /\ r[i] = p
      BY <2>1, <1>1, <1>8, <1>10
    <3> QED BY <3>1, <1>12, <1>1, <1>6, <1>7 DEF b
  <2>2. CASE i \in 1 .. m
    <3>0. i \in 1 .. m + 1 /\ i + 1 \in 1 .. m + 1 /\ m + 1 \in 1 .. m + 1 /\ i + 1 <= m + 1
      BY <2>2, <1>1
    <3>1. v[i] = w[i] /\ v[i + 1] = w[i + 1] /\ r[i] = q[i] /\ i + 1 \in 1 .. m + 1 /\ m + 1 \in 1 .. m + 1
          /\ i + 1 <= m + 1
      BY <2>2, <3>0, <1>8, <1>10
    <3>2. q[i] \in Piece
      BY <2>2, <1>1 DEF m
    <3>3. w[i + 1].at <= Len(s) /\ w[i + 1].n <= Len(o) /\ w[i].at \in Nat /\ w[i].n \in Nat
      BY <3>1, <1>1
    <3>4. Len(BytesOf(q[i])) \in Nat
      BY <3>2, BytesAre
    <3>5. ASSUME NEW j \in 1 .. Len(BytesOf(q[i])) PROVE t[w[i].at + j] = BytesOf(q[i])[j]
      <4>1. s[w[i].at + j] = BytesOf(q[i])[j] /\ w[i + 1].at = w[i].at + Len(BytesOf(q[i]))
        BY <1>2, <2>2
      <4>2. w[i].at + j \in 1 .. Len(s)
        BY <4>1, <3>3, <3>4, <1>1, SMTT(30)
      <4> QED BY <4>1, <4>2, <1>6
    <3>6. ASSUME q[i].key \in K!Ordinary PROVE u[w[i].n + 1] = OwedKey(q[i], w[i].down)
      <4>1. o[w[i].n + 1] = OwedKey(q[i], w[i].down) /\ w[i + 1].n = w[i].n + 1
        BY <1>2, <2>2, <3>6 DEF Counts
      <4>2. w[i].n + 1 \in 1 .. Len(o)
        BY <4>1, <3>3, <1>1
      <4> QED BY <4>1, <4>2, <1>7
    <3> QED BY <3>1, <3>5, <3>6, <1>2, <2>2
  <2> QED BY <2>1, <2>2, <1>1
<1>15. Laid(r, v, t, u, DownAfter(d, p))
  BY <1>1, <1>6, <1>7, <1>8, <1>10, <1>11, <1>13, <1>14 DEF Laid
<1> QED BY <1>10, <1>15 DEF r, t, u, b, MoreLaid, Begins

\* What comes first.
LEMMA LaidFirst ==
    ASSUME NEW q, NEW w, NEW s, NEW o, NEW d, Laid(q, w, s, o, d)
    PROVE  /\ q = << >> => s = << >> /\ o = << >> /\ w[1].down = d
           /\ w[1].down \in SUBSET KeySet
           /\ q # << >> => /\ q[1] \in Piece /\ Len(BytesOf(q[1])) <= Len(s)
                           /\ \A j \in 1 .. Len(BytesOf(q[1])) : s[j] = BytesOf(q[1])[j]
                           /\ q[1].up /\ q[1].key \in K!Ordinary => q[1].key \in w[1].down
                           /\ q[1].key \in K!Ordinary =>
                                 o # << >> /\ o[1] = OwedKey(q[1], w[1].down)
<1>1. /\ q \in Seq(Piece) /\ s \in Seq(Sign) /\ o \in Seq(Owed) /\ Len(q) \in Nat
      /\ w \in [1 .. Len(q) + 1 -> [at : Nat, down : SUBSET KeySet, n : Nat]]
      /\ w[1].at = 0 /\ w[1].n = 0
      /\ w[Len(q) + 1].at = Len(s) /\ w[Len(q) + 1].n = Len(o) /\ w[Len(q) + 1].down = d
      /\ \A i, j \in 1 .. Len(q) + 1 : i <= j => w[i].at <= w[j].at /\ w[i].n <= w[j].n
  BY DEF Laid
<1>2. ASSUME q = << >> PROVE s = << >> /\ o = << >> /\ w[1].down = d
  <2>1. Len(q) + 1 = 1
    BY <1>2
  <2>2. Len(s) = 0 /\ Len(o) = 0 /\ w[1].down = d
    BY <2>1, <1>1
  <2> QED BY <2>2, <1>1
<1>3. w[1].down \in SUBSET KeySet
  <2>1. 1 \in 1 .. Len(q) + 1
    BY <1>1
  <2>2. w[1] \in [at : Nat, down : SUBSET KeySet, n : Nat]
    BY <2>1, <1>1
  <2> QED BY <2>2
<1>4. ASSUME q # << >>
      PROVE  /\ q[1] \in Piece /\ Len(BytesOf(q[1])) <= Len(s)
             /\ \A j \in 1 .. Len(BytesOf(q[1])) : s[j] = BytesOf(q[1])[j]
             /\ q[1].up /\ q[1].key \in K!Ordinary => q[1].key \in w[1].down
             /\ q[1].key \in K!Ordinary => o # << >> /\ o[1] = OwedKey(q[1], w[1].down)
  <2>1. 1 \in 1 .. Len(q) /\ 2 \in 1 .. Len(q) + 1 /\ Len(q) + 1 \in 1 .. Len(q) + 1 /\ 2 <= Len(q) + 1
    BY <1>1, <1>4
  <2>2. q[1] \in Piece
    BY <2>1, <1>1
  <2>3. /\ w[1 + 1].at = w[1].at + Len(BytesOf(q[1])) /\ w[1 + 1].n = w[1].n + Counts(q[1])
        /\ q[1].up /\ q[1].key \in K!Ordinary => q[1].key \in w[1].down
        /\ \A j \in 1 .. Len(BytesOf(q[1])) : s[w[1].at + j] = BytesOf(q[1])[j]
        /\ q[1].key \in K!Ordinary => o[w[1].n + 1] = OwedKey(q[1], w[1].down)
    BY <2>1 DEF Laid
  <2>4. w[2].at <= Len(s) /\ w[2].n <= Len(o)
    BY <2>1, <1>1
  <2>5. Len(BytesOf(q[1])) \in Nat
    BY <2>2, BytesAre
  <2>6. Len(BytesOf(q[1])) <= Len(s) /\ \A j \in 1 .. Len(BytesOf(q[1])) : s[j] = BytesOf(q[1])[j]
    BY <2>3, <2>4, <2>5, <1>1
  <2>7. ASSUME q[1].key \in K!Ordinary PROVE o # << >> /\ o[1] = OwedKey(q[1], w[1].down)
    <3>1. Counts(q[1]) = 1
      BY <2>7 DEF Counts
    <3>2. Len(o) >= 1
      BY <3>1, <2>3, <2>4, <1>1
    <3> QED BY <3>2, <2>3, <2>7, <1>1
  <2> QED BY <2>2, <2>3, <2>6, <2>7
<1> QED BY <1>2, <1>3, <1>4

\* The first piece is gone.
LEMMA LaidRest ==
    ASSUME NEW q, NEW w, NEW s, NEW o, NEW d, NEW t \in Seq(Sign),
           Laid(q, w, s, o, d), q # << >>, s = BytesOf(q[1]) \o t
    PROVE  \E v : RestLaid(v, w, q, t, o, d)
<1> DEFINE m == Len(q)
           p == q[1]
           b == BytesOf(p)
           k == Len(b)
           c == Counts(p)
           u == OwedRest(o, p)
           r == Tail(q)
           v == [i \in 1 .. m |-> [at |-> w[i + 1].at - k, down |-> w[i + 1].down, n |-> w[i + 1].n - c]]
<1>1. /\ q \in Seq(Piece) /\ s \in Seq(Sign) /\ o \in Seq(Owed) /\ m \in Nat /\ m >= 1
      /\ w \in [1 .. m + 1 -> [at : Nat, down : SUBSET KeySet, n : Nat]]
      /\ w[1].at = 0 /\ w[1].n = 0
      /\ w[m + 1].at = Len(s) /\ w[m + 1].n = Len(o) /\ w[m + 1].down = d
      /\ \A i, j \in 1 .. m + 1 : i <= j => w[i].at <= w[j].at /\ w[i].n <= w[j].n
  BY DEF Laid
<1>2. \A i \in 1 .. m :
          /\ w[i + 1].at = w[i].at + Len(BytesOf(q[i]))
          /\ w[i + 1].n = w[i].n + Counts(q[i])
          /\ w[i + 1].down = DownAfter(w[i].down, q[i])
          /\ q[i].up /\ q[i].key \in K!Ordinary => q[i].key \in w[i].down
          /\ \A j \in 1 .. Len(BytesOf(q[i])) : s[w[i].at + j] = BytesOf(q[i])[j]
          /\ q[i].key \in K!Ordinary => o[w[i].n + 1] = OwedKey(q[i], w[i].down)
  BY DEF Laid
<1>3. p \in Piece /\ b \in Seq(Sign) /\ k \in Nat /\ c \in Nat
  <2>1. p \in Piece BY <1>1
  <2> QED BY <2>1, BytesAre DEF Counts
<1>4. r \in Seq(Piece) /\ Len(r) = m - 1 /\ \A i \in 1 .. m - 1 : r[i] = q[i + 1]
  BY <1>1
<1>5. Len(s) = k + Len(t) /\ \A j \in 1 .. Len(t) : s[k + j] = t[j]
  <2> HIDE DEF b
  <2>1. s = b \o t BY DEF b
  <2> QED BY <1>3, <2>1
<1>6. w[2].at = k /\ w[2].n = c /\ w[2].down = DownAfter(w[1].down, p)
  <2>1. 1 \in 1 .. m /\ 1 + 1 = 2 BY <1>1
  <2>2. w[1 + 1].at = w[1].at + k /\ w[1 + 1].n = w[1].n + c /\ w[1 + 1].down = DownAfter(w[1].down, p)
    BY <2>1, <1>2
  <2> QED BY <2>1, <2>2, <1>1, <1>3
<1>7. c <= Len(o)
  BY <1>1, <1>6, SMTT(30)
<1>8. u \in Seq(Owed) /\ Len(u) = Len(o) - c /\ \A j \in 1 .. Len(u) : u[j] = o[c + j]
  BY <1>1, <1>7 DEF OwedRest, Counts
<1> HIDE DEF m, p, b, k, c, u, r
<1>9. ASSUME NEW i \in 1 .. m
      PROVE  /\ i + 1 \in 1 .. m + 1 /\ w[i + 1].at >= k /\ w[i + 1].n >= c
             /\ w[i + 1].at \in Nat /\ w[i + 1].n \in Nat /\ w[i + 1].down \in SUBSET KeySet
             /\ w[i + 1].at <= Len(s) /\ w[i + 1].n <= Len(o)
  <2>1. i + 1 \in 1 .. m + 1 /\ 2 \in 1 .. m + 1 /\ m + 1 \in 1 .. m + 1 /\ 2 <= i + 1 /\ i + 1 <= m + 1
    BY <1>1
  <2> QED BY <2>1, <1>1, <1>6
<1>10. /\ v \in [1 .. (m - 1) + 1 -> [at : Nat, down : SUBSET KeySet, n : Nat]]
       /\ \A i \in 1 .. m : /\ v[i].at = w[i + 1].at - k /\ v[i].down = w[i + 1].down
                            /\ v[i].n = w[i + 1].n - c
  <2>1. ASSUME NEW i \in 1 .. m
        PROVE  [at |-> w[i + 1].at - k, down |-> w[i + 1].down, n |-> w[i + 1].n - c] \in
                   [at : Nat, down : SUBSET KeySet, n : Nat]
    <3>1. w[i + 1].at - k \in Nat /\ w[i + 1].n - c \in Nat /\ w[i + 1].down \in SUBSET KeySet
      BY <1>9, <1>3, SMTT(30)
    <3> QED BY <3>1
  <2>2. (m - 1) + 1 = m
    BY <1>1
  <2> QED BY <2>1, <2>2
<1> HIDE DEF v
<1>11. (m - 1) + 1 = m /\ m \in 1 .. m /\ 1 \in 1 .. m
  BY <1>1
<1>12. v[1].at = 0 /\ v[1].n = 0 /\ v[1].down = DownAfter(w[1].down, p)
  <2>1. v[1].at = w[1 + 1].at - k /\ v[1].n = w[1 + 1].n - c /\ v[1].down = w[1 + 1].down
    BY <1>10, <1>11
  <2> QED BY <2>1, <1>6, <1>3
<1>13. v[m].at = Len(t) /\ v[m].n = Len(u) /\ v[m].down = d
  <2>1. v[m].at = w[m + 1].at - k /\ v[m].n = w[m + 1].n - c /\ v[m].down = w[m + 1].down
    BY <1>10, <1>11
  <2>2. Len(t) \in Nat
    OBVIOUS
  <2> QED BY <2>1, <2>2, <1>1, <1>3, <1>5, <1>8
<1>14. ASSUME NEW i \in 1 .. m, NEW j \in 1 .. m, i <= j
       PROVE  v[i].at <= v[j].at /\ v[i].n <= v[j].n
  <2>1. w[i + 1].at <= w[j + 1].at /\ w[i + 1].n <= w[j + 1].n
    BY <1>14, <1>9, <1>1
  <2> DEFINE a == w[i + 1].at
             b1 == w[j + 1].at
             x == w[i + 1].n
             y == w[j + 1].n
  <2>2. a \in Nat /\ b1 \in Nat /\ x \in Nat /\ y \in Nat /\ a <= b1 /\ x <= y
    BY <2>1, <1>9
  <2>3. v[i].at = a - k /\ v[j].at = b1 - k /\ v[i].n = x - c /\ v[j].n = y - c
    BY <1>10
  <2> HIDE DEF a, b1, x, y
  <2> QED BY <2>2, <2>3, <1>3
<1>15. ASSUME NEW i \in 1 .. m - 1
       PROVE  /\ v[i + 1].at = v[i].at + Len(BytesOf(r[i]))
              /\ v[i + 1].n = v[i].n + Counts(r[i])
              /\ v[i + 1].down = DownAfter(v[i].down, r[i])
              /\ r[i].up /\ r[i].key \in K!Ordinary => r[i].key \in v[i].down
              /\ \A j \in 1 .. Len(BytesOf(r[i])) : t[v[i].at + j] = BytesOf(r[i])[j]
              /\ r[i].key \in K!Ordinary => u[v[i].n + 1] = OwedKey(r[i], v[i].down)
  <2> DEFINE h == i + 1
  <2>1. h \in 1 .. m /\ i \in 1 .. m /\ r[i] = q[h]
    BY <1>1, <1>4
  <2>2. /\ v[i].at = w[h].at - k /\ v[i].down = w[h].down /\ v[i].n = w[h].n - c
        /\ v[h].at = w[h + 1].at - k /\ v[h].down = w[h + 1].down /\ v[h].n = w[h + 1].n - c
    BY <2>1, <1>10
  <2>3. /\ w[h + 1].at = w[h].at + Len(BytesOf(q[h])) /\ w[h + 1].n = w[h].n + Counts(q[h])
        /\ w[h + 1].down = DownAfter(w[h].down, q[h])
        /\ q[h].up /\ q[h].key \in K!Ordinary => q[h].key \in w[h].down
        /\ \A j \in 1 .. Len(BytesOf(q[h])) : s[w[h].at + j] = BytesOf(q[h])[j]
        /\ q[h].key \in K!Ordinary => o[w[h].n + 1] = OwedKey(q[h], w[h].down)
    BY <2>1, <1>2
  <2>4. /\ w[h].at \in Nat /\ w[h].n \in Nat /\ w[h].at >= k /\ w[h].n >= c
        /\ w[h + 1].at <= Len(s) /\ w[h + 1].n <= Len(o)
    BY <2>1, <1>9
  <2>5. q[h] \in Piece
    BY <2>1, <1>1 DEF m
  <2>6. Len(BytesOf(q[h])) \in Nat /\ Counts(q[h]) \in Nat
    BY <2>5, BytesAre DEF Counts
  <2> HIDE DEF h
  <2>7. ASSUME NEW j \in 1 .. Len(BytesOf(q[h])) PROVE t[v[i].at + j] = BytesOf(q[h])[j]
    <3>1. v[i].at + j \in 1 .. Len(t) /\ k + (v[i].at + j) = w[h].at + j
      <4> DEFINE z == Len(BytesOf(q[h]))
                 a == w[h].at
                 l == Len(t)
      <4>1. /\ a \in Nat /\ z \in Nat /\ l \in Nat /\ a >= k /\ j \in 1 .. z /\ a + z <= k + l
            /\ v[i].at = a - k /\ k \in Nat
        BY <2>2, <2>3, <2>4, <2>6, <1>5, <1>3
      <4> HIDE DEF z, a, l
      <4>2. v[i].at + j \in 1 .. l /\ k + (v[i].at + j) = a + j
        BY <4>1
      <4> QED BY <4>2 DEF l, a
    <3> QED BY <3>1, <2>3, <1>5
  <2>8. ASSUME q[h].key \in K!Ordinary PROVE u[v[i].n + 1] = OwedKey(q[h], w[h].down)
    <3>1. Counts(q[h]) = 1
      BY <2>8 DEF Counts
    <3>2. v[i].n + 1 \in 1 .. Len(u) /\ c + (v[i].n + 1) = w[h].n + 1
      <4> DEFINE a == w[h].n
                 l == Len(o)
      <4>1. /\ a \in Nat /\ l \in Nat /\ a >= c /\ a + 1 <= l /\ v[i].n = a - c /\ c \in Nat
            /\ Len(u) = l - c
        <5>1. a \in Nat /\ a >= c /\ v[i].n = a - c
          BY <2>2, <2>4
        <5>2. w[h + 1].n = a + 1 /\ w[h + 1].n <= l
          BY <3>1, <2>3, <2>4
        <5>3. c \in Nat
          BY <1>3
        <5>4. l \in Nat /\ Len(u) = l - c
          BY <1>8, <1>1
        <5> QED BY <5>1, <5>2, <5>3, <5>4
      <4> HIDE DEF a, l
      <4>2. v[i].n + 1 \in 1 .. l - c /\ c + (v[i].n + 1) = a + 1
        BY <4>1
      <4> QED BY <4>1, <4>2 DEF a
    <3> QED BY <3>2, <2>3, <2>8, <1>8
  <2>9. v[h].at = v[i].at + Len(BytesOf(q[h])) /\ v[h].n = v[i].n + Counts(q[h])
    BY <2>2, <2>3, <2>4, <2>6, <1>3, SMTT(30)
  <2>10. i + 1 = h BY DEF h
  <2> QED BY <2>1, <2>2, <2>3, <2>7, <2>8, <2>9, <2>10
<1>16. Laid(r, v, t, u, d)
  BY <1>1, <1>4, <1>8, <1>10, <1>11, <1>12, <1>13, <1>14, <1>15 DEF Laid
<1> QED BY <1>12, <1>16 DEF r, u, p, Begins, RestLaid

\* Only the pieces of modifiers change the modifiers that are down.
LEMMA FlagsAre ==
    ASSUME NEW d \in SUBSET KeySet, NEW p \in Piece
    PROVE  /\ p.key \in K!Modifier => DownAfter(d, p) \cap K!Modifier =
                 IF p.up THEN (d \cap K!Modifier) \ {p.key} ELSE (d \cap K!Modifier) \cup {p.key}
           /\ p.key \notin K!Modifier => DownAfter(d, p) \cap K!Modifier = d \cap K!Modifier
           /\ "pause" \notin d => "pause" \notin DownAfter(d, p)
           /\ \A k \in K!Ordinary : k \in d /\ (k # p.key \/ ~p.up) => k \in DownAfter(d, p)
<1>1. p.key \notin K!Modifier => p.key \in {"none"} \cup K!Ordinary
  BY KeyCases DEF K!Modifier, K!Ordinary
<1>2. K!Ordinary \cap K!Modifier = {} /\ "none" \notin K!Modifier /\ "pause" \notin K!Modifier
  BY DEF K!Modifier, K!Ordinary
<1> QED BY <1>1, <1>2, KeyCases DEF DownAfter, KeySet

\* What an ordinary key is owed as; the hotkey is the menu key.
LEMMA EventIs ==
    ASSUME NEW k \in K!Ordinary, NEW up \in BOOLEAN, NEW d
    PROVE  /\ MeantAt(k, up, d) =
                 IF k = "f1" /\ ~up /\ d \cap K!Modifier = {"ctrl"} THEN K!Menu
                 ELSE [code |-> CodeOf(k), mods |-> IF k = "caps" THEN {} ELSE d \cap K!Modifier, up |-> up]
           /\ up => MeantAt(k, up, d).up
           /\ MeantAt(k, up, d).code # << >>
           /\ MeantAt(k, up, d).code = <<"pause">> <=> k = "pause"
<1>1. CodeOf(k) = <<"f", "05">> <=> k = "f1"
  BY DEF CodeOf, LastByte, K!Ordinary
<1>2. CodeOf(k) # << >> /\ (CodeOf(k) = <<"pause">> <=> k = "pause")
  BY DEF CodeOf, LastByte, K!Ordinary
<1>3. MeantAt(k, up, d) =
                 IF k = "f1" /\ ~up /\ d \cap K!Modifier = {"ctrl"} THEN K!Menu
                 ELSE [code |-> CodeOf(k), mods |-> IF k = "caps" THEN {} ELSE d \cap K!Modifier, up |-> up]
  <2> DEFINE m == IF k = "caps" THEN {} ELSE d \cap K!Modifier
             e == [code |-> CodeOf(k), mods |-> m, up |-> up]
  <2>1. MeantAt(k, up, d) = IF e = K!Hotkey THEN K!Menu ELSE e
    BY DEF MeantAt, K!Overridden, K!Event
  <2>2. K!Hotkey = [code |-> <<"f", "05">>, mods |-> {"ctrl"}, up |-> FALSE]
    BY DEF K!Hotkey, K!Event
  <2>3. e = K!Hotkey <=> CodeOf(k) = <<"f", "05">> /\ m = {"ctrl"} /\ up = FALSE
    <3> DEFINE c1 == CodeOf(k)
               c2 == <<"f", "05">>
               m2 == {"ctrl"}
    <3> HIDE DEF c1, c2, m, m2
    <3>1. [code |-> c1, mods |-> m, up |-> up] = [code |-> c2, mods |-> m2, up |-> FALSE]
          <=> c1 = c2 /\ m = m2 /\ up = FALSE
      OBVIOUS
    <3> QED BY <3>1, <2>2 DEF c1, c2, m2
  <2>4. e = K!Hotkey <=> k = "f1" /\ ~up /\ d \cap K!Modifier = {"ctrl"}
    BY <2>3, <1>1
  <2> HIDE DEF e
  <2> QED BY <2>1, <2>4 DEF e
<1>4. K!Menu.code = <<"menu">> /\ K!Menu.up = FALSE
  BY DEF K!Menu, K!Event
<1>5. <<"menu">> # << >> /\ <<"menu">> # <<"pause">>
  OBVIOUS
<1>6. CASE MeantAt(k, up, d) = K!Menu
  <2>1. (~up /\ k = "f1") \/ MeantAt(k, up, d) = [code |-> CodeOf(k), mods |-> IF k = "caps" THEN {} ELSE d \cap K!Modifier, up |-> up]
    BY <1>3
  <2>2. MeantAt(k, up, d) = [code |-> CodeOf(k), mods |-> IF k = "caps" THEN {} ELSE d \cap K!Modifier, up |-> up]
        => MeantAt(k, up, d).code = CodeOf(k) /\ MeantAt(k, up, d).up = up
    OBVIOUS
  <2> QED BY <1>2, <1>3, <1>4, <1>5, <1>6, <2>1, <2>2
<1>7. CASE MeantAt(k, up, d) # K!Menu
  <2>1. MeantAt(k, up, d) = [code |-> CodeOf(k), mods |-> IF k = "caps" THEN {} ELSE d \cap K!Modifier, up |-> up]
    BY <1>3, <1>7
  <2>2. MeantAt(k, up, d).code = CodeOf(k) /\ MeantAt(k, up, d).up = up
    BY <2>1
  <2> QED BY <1>2, <1>3, <2>2
<1> QED BY <1>6, <1>7

\* An event is the menu key or has the code of its key.
LEMMA EventKinds ==
    ASSUME NEW k \in K!Ordinary, NEW up \in BOOLEAN, NEW d
    PROVE  \/ MeantAt(k, up, d) = K!Menu /\ k = "f1" /\ ~up
           \/ MeantAt(k, up, d).code = CodeOf(k) /\ MeantAt(k, up, d).up = up
<1>1. CASE k = "f1" /\ ~up /\ d \cap K!Modifier = {"ctrl"}
  BY <1>1, EventIs
<1>2. CASE ~(k = "f1" /\ ~up /\ d \cap K!Modifier = {"ctrl"})
  <2>1. MeantAt(k, up, d) = [code |-> CodeOf(k), mods |-> IF k = "caps" THEN {} ELSE d \cap K!Modifier, up |-> up]
    BY <1>2, EventIs
  <2> QED BY <2>1
<1> QED BY <1>1, <1>2

\* No two keys have the same code.
LEMMA CodesDiffer ==
    ASSUME NEW j \in K!Ordinary, NEW k \in K!Ordinary, CodeOf(j) = CodeOf(k)
    PROVE  j = k
<1>1. /\ CodeOf("a") = <<"ascii", "1c">> /\ CodeOf("enter") = <<"ascii", "5a">>
      /\ CodeOf("up") = <<"position", "75">> /\ CodeOf("f1") = <<"f", "05">>
      /\ CodeOf("caps") = <<"forward", "58">> /\ CodeOf("sysrq") = <<"sysrq">>
      /\ CodeOf("pause") = <<"pause">>
  BY DEF CodeOf, LastByte
<1> QED BY <1>1 DEF K!Ordinary

\* The event of a press tells which key it was.
LEMMA PressTells ==
    ASSUME NEW j \in K!Ordinary, NEW up \in BOOLEAN, NEW d, NEW k \in K!Ordinary, NEW m,
           MeantAt(j, up, d) = MeantAt(k, FALSE, m)
    PROVE  j = k /\ ~up
<1> DEFINE e == MeantAt(j, up, d)
           f == MeantAt(k, FALSE, m)
<1>1. e = f OBVIOUS
<1>2. \/ e = K!Menu /\ j = "f1" /\ ~up
      \/ e.code = CodeOf(j) /\ e.up = up
  BY EventKinds
<1>3. \/ f = K!Menu /\ k = "f1"
      \/ f.code = CodeOf(k) /\ f.up = FALSE
  <2>1. FALSE \in BOOLEAN OBVIOUS
  <2> QED BY <2>1, EventKinds
<1> HIDE DEF e, f
<1>4. K!Menu.code = <<"menu">>
  BY DEF K!Menu, K!Event
<1>5. \A i \in K!Ordinary : CodeOf(i) # <<"menu">>
  BY DEF CodeOf, LastByte, K!Ordinary
<1>6. CASE e = K!Menu /\ j = "f1" /\ ~up
  <2>1. f.code = CodeOf(k) => FALSE
    BY <1>1, <1>4, <1>5, <1>6
  <2> QED BY <2>1, <1>3, <1>6
<1>7. CASE e.code = CodeOf(j) /\ e.up = up
  <2>1. f # K!Menu
    BY <1>1, <1>4, <1>5, <1>7
  <2> QED BY <2>1, <1>1, <1>3, <1>7, CodesDiffer
<1> QED BY <1>2, <1>6, <1>7

\* The keys that are down, without the modifiers that count no more.
Down == (down \ K!Modifier) \cup active

\* The model owes what the decoder is shown to return.
LEMMA MeantIs ==
    ASSUME NEW k \in K!Ordinary, NEW up, active \in SUBSET K!Modifier
    PROVE  K!Meant(k, up) = MeantAt(k, up, Down)
<1>0. Down \cap K!Modifier = active
  BY DEF Down
<1>1. K!Last(K!Make["a"]) = LastByte("a") /\ K!Last(K!Make["enter"]) = LastByte("enter")
  BY DEF K!Last, K!Make, LastByte, K!Modifier, K!Ordinary
<1>2. K!Last(K!Make["a"]) = "1c" /\ LastByte("a") = "1c" /\ K!Last(K!Make["enter"]) = "5a" /\ LastByte("enter") = "5a"
  BY DEF K!Last, K!Make, LastByte, K!Modifier, K!Ordinary
<1>3. CASE k = "a"
  BY <1>0, <1>1, <1>2, <1>3 DEF K!Meant, MeantAt, CodeOf
<1>4. CASE k = "enter"
  BY <1>0, <1>1, <1>2, <1>4 DEF K!Meant, MeantAt, CodeOf
<1>5. CASE k \notin {"a", "enter"}
  BY <1>0, <1>5 DEF K!Meant, MeantAt, CodeOf
<1> QED BY <1>3, <1>4, <1>5

\* A press is taken for a repetition only if the key is down.
Recalls(code, d) ==
    \A k \in K!Ordinary \ {"caps", "pause"}, m \in SUBSET KeySet :
        code = MeantAt(k, FALSE, m) => k \in d

\* What a key that was cut off has left.
Stump(s) == s \in Seq(Sign) /\ \A n \in 1 .. Len(s) : Begun(SubSeq(s, 1, n))

\* The bytes read but not decoded, and those the FPGA still has.
Arriving == keybuf \o scan

\* They are the pieces owed for: the flags are those held when the first was typed,
\* and the first is not whole in the buffer.
Queued ==
    \E q, w :
        /\ Laid(q, w, Arriving, typed["ps2"], Down)
        /\ key_flags = w[1].down \cap K!Modifier /\ Recalls(old_key_code, w[1].down)
        /\ q # << >> => Len(keybuf) < Len(BytesOf(q[1]))

\* Or what a key left that was cut off, with nothing owed.
CutShort ==
    /\ typed["ps2"] = << >> /\ active = {}
    /\ Stump(Arriving) /\ Recalls(old_key_code, Down)

\* What belongs to the keyboard.
PS2Types ==
    /\ keybuf \in Seq(Sign) /\ Len(keybuf) <= 7 /\ scan \in Seq(Sign)
    /\ key_flags \in SUBSET K!Modifier /\ down \in SUBSET KeySet /\ "pause" \notin down
    /\ active \in SUBSET (down \cap K!Modifier) /\ cut \in BOOLEAN

\* The invariant of the keyboard.
PS2Inv == PS2Types /\ (cut => CutShort) /\ (~cut => Queued)

\* What was returned so far is what was typed.
KeysTyped == who \in Users /\ DOMAIN typed = K!Source /\ wrong = FALSE

\* A sequence that is not whole stays in the buffer and changes nothing.
LEMMA BegunIs ==
    ASSUME NEW buf, Begun(buf), K!Decode(buf)
    PROVE  keybuf' = buf /\ kpc' = "valid" /\ UNCHANGED <<key_flags, old_key_code, typed, wrong>>
<1>1. /\ K!Pressed(buf) = buf /\ K!OSD_ConvFlags(buf) = {} /\ K!Code(buf) = K!NoCode
      /\ ~K!Silent(buf) /\ ~K!Ignored(buf) /\ buf # << >>
  BY BegunDecodes
<1> QED BY <1>1 DEF K!Decode, K!history

\* A sequence that is whole empties the buffer, and sets a flag or is returned.
LEMMA WholeIs ==
    ASSUME NEW p \in Piece, K!Decode(BytesOf(p)), key_flags \in SUBSET K!Modifier
    PROVE  /\ keybuf' = << >> /\ kpc' \in {"poll", "valid"}
           /\ p.key \in K!Modifier =>
                 /\ key_flags' = IF p.up THEN key_flags \ {p.key} ELSE key_flags \cup {p.key}
                 /\ UNCHANGED <<old_key_code, typed, wrong>>
           /\ p.key = "none" => UNCHANGED <<key_flags, old_key_code, typed, wrong>>
           /\ p.key = "caps" =>
                 /\ K!Return("ps2", MeantAt(p.key, p.up, key_flags), FALSE)
                 /\ UNCHANGED <<key_flags, old_key_code>>
           /\ p.key \in K!Ordinary \ {"caps"} =>
                 /\ K!ReturnKey(MeantAt(p.key, p.up, key_flags))
                 /\ UNCHANGED key_flags
<1> DEFINE buf == BytesOf(p)
           b == PressOf(p)
<1>1. /\ K!Pressed(buf) = b /\ (b # buf) = p.up
  <2>1. p.up \in BOOLEAN BY KeyCases
  <2> QED BY <2>1, PressIs
<1>2. /\ K!OSD_ConvFlags(b) = IF p.key \in K!Modifier THEN {p.key} ELSE {}
      /\ p.key \in K!Ordinary \ {"caps"} => K!Code(b) = CodeOf(p.key) /\ K!Code(b) # K!NoCode
      /\ p.key \in {"caps", "none"} => K!Code(b) = K!NoCode
      /\ K!Silent(b) = (p.key = "none")
      /\ p.key = "caps" => K!Ignored(b) /\ K!Last(b) = "58"
  BY PressDecodes
<1>3. K!Decode(buf)
  OBVIOUS
<1> HIDE DEF buf, b
<1>4. \/ /\ K!OSD_ConvFlags(b) # {}
         /\ keybuf' = << >> /\ key_flags' = K!NewFlags(b, p.up)
         /\ kpc' = "valid" /\ UNCHANGED <<old_key_code, typed, wrong>>
      \/ /\ K!OSD_ConvFlags(b) = {} /\ K!Code(b) # K!NoCode
         /\ keybuf' = << >> /\ UNCHANGED key_flags
         /\ K!ReturnKey(K!Overridden(K!Event(K!Code(b), key_flags, p.up /\ K!Code(b) # <<"pause">>)))
         /\ kpc' = "poll"
      \/ /\ K!OSD_ConvFlags(b) = {} /\ K!Code(b) = K!NoCode
         /\ keybuf' = IF K!Silent(b) \/ K!Ignored(b) THEN << >> ELSE b
         /\ IF K!Ignored(b) /\ ~K!Silent(b)
            THEN K!Return("ps2", K!Event(<<"forward", K!Last(b)>>, {}, p.up), FALSE)
            ELSE UNCHANGED <<typed, wrong>>
         /\ kpc' = "valid" /\ UNCHANGED <<key_flags, old_key_code>>
  BY <1>1, <1>3 DEF K!Decode, K!history
<1>5. CASE p.key \in K!Modifier
  <2>1. K!OSD_ConvFlags(b) = {p.key} /\ p.key \notin K!Ordinary /\ p.key # "none"
    BY <1>2, <1>5 DEF K!Modifier, K!Ordinary
  <2>2. keybuf' = << >> /\ key_flags' = K!NewFlags(b, p.up) /\ kpc' = "valid" /\ UNCHANGED <<old_key_code, typed, wrong>>
    BY <1>4, <2>1
  <2>3. p.key # "caps"
    BY <1>5 DEF K!Modifier
  <2> QED BY <2>1, <2>2, <2>3 DEF K!NewFlags
<1>6. CASE p.key = "none"
  <2>1. p.key \notin K!Modifier /\ p.key \notin K!Ordinary
    BY <1>6 DEF K!Modifier, K!Ordinary
  <2>2. K!OSD_ConvFlags(b) = {} /\ K!Code(b) = K!NoCode /\ K!Silent(b)
    BY <1>2, <1>6, <2>1
  <2>3. keybuf' = << >> /\ kpc' = "valid" /\ UNCHANGED <<key_flags, old_key_code, typed, wrong>>
    BY <1>4, <2>2
  <2> QED BY <2>1, <2>3, <1>6
<1>7. CASE p.key = "caps"
  <2>1. p.key \notin K!Modifier /\ p.key \in K!Ordinary
    BY <1>7 DEF K!Modifier, K!Ordinary
  <2>2. K!OSD_ConvFlags(b) = {} /\ K!Code(b) = K!NoCode /\ ~K!Silent(b) /\ K!Ignored(b) /\ K!Last(b) = "58"
    BY <1>2, <1>7, <2>1
  <2>3. keybuf' = << >> /\ kpc' = "valid" /\ UNCHANGED <<key_flags, old_key_code>>
        /\ K!Return("ps2", K!Event(<<"forward", "58">>, {}, p.up), FALSE)
    BY <1>4, <2>2
  <2>4. MeantAt(p.key, p.up, key_flags) = K!Event(<<"forward", "58">>, {}, p.up)
    <3>1. p.up \in BOOLEAN /\ p.key # "f1" BY KeyCases, <1>7
    <3>2. CodeOf(p.key) = <<"forward", "58">> BY <1>7 DEF CodeOf
    <3> QED BY <3>1, <3>2, <2>1, <1>7, EventIs, ZenonT(40) DEF K!Event
  <2> QED BY <2>1, <2>3, <2>4, <1>7
<1>8. CASE p.key \in K!Ordinary \ {"caps"}
  <2>1. p.key \notin K!Modifier /\ p.key # "none"
    BY <1>8 DEF K!Modifier, K!Ordinary
  <2>2. K!OSD_ConvFlags(b) = {} /\ K!Code(b) = CodeOf(p.key) /\ K!Code(b) # K!NoCode
    BY <1>2, <1>8, <2>1
  <2>3. keybuf' = << >> /\ kpc' = "poll" /\ UNCHANGED key_flags
        /\ K!ReturnKey(K!Overridden(K!Event(CodeOf(p.key), key_flags, p.up /\ CodeOf(p.key) # <<"pause">>)))
    BY <1>4, <2>2
  <2>4. (p.up /\ CodeOf(p.key) # <<"pause">>) = p.up
    <3>1. p.up => p.key # "pause" BY KeyCases
    <3>2. CodeOf(p.key) = <<"pause">> => p.key = "pause"
      BY <1>8 DEF CodeOf, LastByte, K!Ordinary
    <3> QED BY <3>1, <3>2, KeyCases
  <2>5. MeantAt(p.key, p.up, key_flags) = K!Overridden(K!Event(CodeOf(p.key), key_flags, p.up))
    <3>1. key_flags \cap K!Modifier = key_flags OBVIOUS
    <3> QED BY <3>1, <1>8 DEF MeantAt
  <2> QED BY <2>1, <2>3, <2>4, <2>5, <1>8
<1> QED BY <1>5, <1>6, <1>7, <1>8, KeyCases DEF K!Modifier, K!Ordinary

\* Returning what is owed first is right.
LEMMA ReturnedRight ==
    ASSUME KeysTyped, NEW s \in K!Source, NEW e, NEW again,
           typed[s] # << >>, typed[s][1].event = e, again => typed[s][1].held,
           K!Return(s, e, again)
    PROVE  /\ DOMAIN typed' = K!Source /\ wrong' = FALSE
           /\ typed' = [typed EXCEPT ![s] = Tail(typed[s])]
<1>1. Head(typed[s]) = typed[s][1]
  BY DEF K!Return
<1>2. typed' = [typed EXCEPT ![s] = Tail(typed[s])]
  BY DEF K!Return
<1>3. wrong' = FALSE
  BY <1>1 DEF K!Return, KeysTyped
<1> QED BY <1>2, <1>3 DEF KeysTyped

\* A whole piece is decoded.
LEMMA PieceDecoded ==
    ASSUME KeysTyped, PS2Inv, ~cut, NEW q, NEW w, Laid(q, w, Arriving, typed["ps2"], Down),
           key_flags = w[1].down \cap K!Modifier, Recalls(old_key_code, w[1].down), q # << >>,
           NEW t \in Seq(Sign), Arriving = BytesOf(q[1]) \o t, scan' = t, K!Decode(BytesOf(q[1])),
           UNCHANGED <<who, down, active, cut, Down>>
    PROVE  KeysTyped' /\ PS2Inv'
<1> DEFINE p == q[1]
           d == w[1].down
           o == typed["ps2"]
<1>1. /\ p \in Piece /\ d \in SUBSET KeySet
      /\ p.up /\ p.key \in K!Ordinary => p.key \in d
      /\ p.key \in K!Ordinary => o # << >> /\ o[1] = OwedKey(p, d)
  BY LaidFirst
<1>2. PICK v : Laid(Tail(q), v, t, OwedRest(o, p), Down) /\ v[1].down = DownAfter(d, p)
  <2>1. \E v : RestLaid(v, w, q, t, typed["ps2"], Down)
    BY LaidRest
  <2> QED BY <2>1 DEF RestLaid, Begins
<1>3. key_flags \in SUBSET K!Modifier
  BY DEF PS2Inv, PS2Types
<1>4. /\ keybuf' = << >> /\ kpc' \in {"poll", "valid"}
      /\ p.key \in K!Modifier =>
            /\ key_flags' = IF p.up THEN key_flags \ {p.key} ELSE key_flags \cup {p.key}
            /\ UNCHANGED <<old_key_code, typed, wrong>>
      /\ p.key = "none" => UNCHANGED <<key_flags, old_key_code, typed, wrong>>
      /\ p.key = "caps" =>
            /\ K!Return("ps2", MeantAt(p.key, p.up, key_flags), FALSE)
            /\ UNCHANGED <<key_flags, old_key_code>>
      /\ p.key \in K!Ordinary \ {"caps"} =>
            /\ K!ReturnKey(MeantAt(p.key, p.up, key_flags))
            /\ UNCHANGED key_flags
  BY <1>1, <1>3, WholeIs
<1>5. MeantAt(p.key, p.up, key_flags) = MeantAt(p.key, p.up, d)
  <2>1. key_flags \cap K!Modifier = d \cap K!Modifier
    OBVIOUS
  <2> QED BY <2>1 DEF MeantAt
<1>6. /\ p.key \in K!Modifier => DownAfter(d, p) \cap K!Modifier =
            IF p.up THEN (d \cap K!Modifier) \ {p.key} ELSE (d \cap K!Modifier) \cup {p.key}
      /\ p.key \notin K!Modifier => DownAfter(d, p) \cap K!Modifier = d \cap K!Modifier
      /\ \A k \in K!Ordinary : k \in d /\ (k # p.key \/ ~p.up) => k \in DownAfter(d, p)
  BY <1>1, FlagsAre
<1>7. "ps2" \in K!Source /\ K!Ordinary \cap K!Modifier = {} /\ "none" \notin K!Modifier
  BY DEF K!Source, K!Modifier, K!Ordinary
<1>8. p.key \in K!Modifier \/ p.key = "none" \/ p.key = "caps" \/ p.key \in K!Ordinary \ {"caps"}
  BY <1>1, KeyCases DEF K!Modifier, K!Ordinary
<1> HIDE DEF p, d, o
<1> SUFFICES /\ DOMAIN typed' = K!Source /\ wrong' = FALSE
             /\ typed'["ps2"] = OwedRest(o, p)
             /\ key_flags' = DownAfter(d, p) \cap K!Modifier
             /\ Recalls(old_key_code', DownAfter(d, p))
  <2>1. KeysTyped'
    BY DEF KeysTyped
  <2>2. keybuf' \o scan' = t
    BY <1>4
  <2>3. Tail(q) # << >> => Tail(q) \in Seq(Piece) /\ Tail(q)[1] \in Piece
    BY <1>2 DEF Laid
  <2>4. Len(keybuf') = 0
    BY <1>4
  <2>5. Tail(q) # << >> => Len(keybuf') < Len(BytesOf(Tail(q)[1]))
    BY <2>3, <2>4, BytesAre
  <2>6. Queued'
    BY <1>2, <2>2, <2>5 DEF Queued, Arriving
  <2>7. PS2Types'
    <3>1. key_flags' \in SUBSET K!Modifier OBVIOUS
    <3>2. keybuf' \in Seq(Sign) /\ Len(keybuf') <= 7 BY <1>4
    <3> QED BY <3>1, <3>2, <1>4 DEF PS2Inv, PS2Types
  <2> QED BY <2>1, <2>6, <2>7 DEF PS2Inv
<1>9. CASE p.key \in K!Modifier
  <2>1. p.key \notin K!Ordinary /\ OwedRest(o, p) = o
    BY <1>7, <1>9 DEF OwedRest
  <2>2. Recalls(old_key_code, DownAfter(d, p))
    BY <1>6, <2>1 DEF Recalls, d
  <2> QED BY <1>4, <1>6, <1>9, <2>1, <2>2 DEF KeysTyped, o, d
<1>10. CASE p.key = "none"
  <2>1. p.key \notin K!Ordinary /\ p.key \notin K!Modifier
    BY <1>10 DEF K!Ordinary, K!Modifier
  <2>2. Recalls(old_key_code, DownAfter(d, p)) /\ OwedRest(o, p) = o
    BY <1>6, <2>1 DEF Recalls, d, OwedRest
  <2> QED BY <1>4, <1>6, <1>10, <2>1, <2>2 DEF KeysTyped, o, d
<1>11. ASSUME p.key \in K!Ordinary, NEW again, again => p.key \in d,
              K!Return("ps2", MeantAt(p.key, p.up, key_flags), again)
       PROVE  DOMAIN typed' = K!Source /\ wrong' = FALSE /\ typed'["ps2"] = OwedRest(o, p)
  <2>1. o # << >> /\ o[1].event = MeantAt(p.key, p.up, key_flags) /\ (again => o[1].held)
    <3>1. o # << >> /\ o[1] = [event |-> MeantAt(p.key, p.up, d), held |-> p.key \in d]
      BY <1>1, <1>11 DEF OwedKey
    <3>2. o[1].event = MeantAt(p.key, p.up, d) /\ o[1].held = (p.key \in d)
      BY <3>1
    <3> QED BY <3>1, <3>2, <1>5, <1>11
  <2>2. /\ DOMAIN typed' = K!Source /\ wrong' = FALSE
        /\ typed' = [typed EXCEPT !["ps2"] = Tail(typed["ps2"])]
    BY <2>1, <1>7, <1>11, ReturnedRight DEF o
  <2>3. OwedRest(o, p) = Tail(o)
    BY <1>11 DEF OwedRest
  <2> QED BY <2>2, <2>3, <1>7 DEF o, KeysTyped
<1>12. CASE p.key = "caps"
  <2>1. p.key \in K!Ordinary /\ p.key \notin K!Modifier
    BY <1>12 DEF K!Ordinary, K!Modifier
  <2>2. DOMAIN typed' = K!Source /\ wrong' = FALSE /\ typed'["ps2"] = OwedRest(o, p)
    BY <1>4, <1>11, <1>12, <2>1
  <2>3. Recalls(old_key_code, DownAfter(d, p))
    BY <1>6, <1>12 DEF Recalls, d
  <2> QED BY <1>4, <1>6, <1>12, <2>1, <2>2, <2>3 DEF d
<1>13. CASE p.key \in K!Ordinary \ {"caps"}
  <2> DEFINE e == MeantAt(p.key, p.up, d)
  <2>1. p.key \notin K!Modifier /\ p.up \in BOOLEAN
    BY <1>1, <1>7, <1>13, KeyCases
  <2>2. /\ K!Return("ps2", e, e = old_key_code /\ e.code # <<"pause">>)
        /\ old_key_code' = e /\ UNCHANGED key_flags
    BY <1>4, <1>5, <1>13 DEF K!ReturnKey
  <2>3. e = old_key_code /\ e.code # <<"pause">> => p.key \in d
    <3>1. CASE p.up
      BY <3>1, <1>1, <1>13 DEF K!Ordinary
    <3>2. CASE ~p.up
      <4>1. p.up = FALSE BY <3>2, <2>1
      <4>2. e.code # <<"pause">> => p.key # "pause"
        BY <1>13, <2>1, EventIs
      <4>3. d \in SUBSET KeySet BY <1>1
      <4> QED BY <4>1, <4>2, <4>3, <1>13 DEF Recalls, d
    <3> QED BY <3>1, <3>2
  <2>4. DOMAIN typed' = K!Source /\ wrong' = FALSE /\ typed'["ps2"] = OwedRest(o, p)
    BY <1>5, <1>11, <1>13, <2>2, <2>3
  <2>5. Recalls(e, DownAfter(d, p))
    <3> SUFFICES ASSUME NEW k \in K!Ordinary \ {"caps", "pause"}, NEW m \in SUBSET KeySet,
                        e = MeantAt(k, FALSE, m)
                 PROVE  k \in DownAfter(d, p)
      BY DEF Recalls
    <3>1. p.key = k /\ ~p.up
      <4>1. p.key \in K!Ordinary /\ MeantAt(p.key, p.up, d) = MeantAt(k, FALSE, m)
        BY <1>13
      <4> QED BY <4>1, <2>1, PressTells, ZenonT(40)
    <3>2. k # "none" /\ k # "pause" BY DEF K!Ordinary
    <3> QED BY <3>1, <3>2 DEF DownAfter
  <2> QED BY <1>6, <2>1, <2>2, <2>4, <2>5 DEF d
<1> QED BY <1>8, <1>9, <1>10, <1>12, <1>13

\* What is queued when nothing is on its way.
LEMMA NothingQueued ==
    ASSUME NEW q, NEW w, Laid(q, w, Arriving, typed["ps2"], Down),
           keybuf \in Seq(Sign), scan = << >>,
           q # << >> => Len(keybuf) < Len(BytesOf(q[1]))
    PROVE  q = << >> /\ keybuf = << >> /\ typed["ps2"] = << >> /\ w[1].down = Down
<1>1. Arriving = keybuf
  BY DEF Arriving
<1>2. q = << >>
  <2> SUFFICES ASSUME q # << >> PROVE FALSE
    OBVIOUS
  <2>1. q[1] \in Piece /\ Len(BytesOf(q[1])) <= Len(keybuf) /\ Len(keybuf) < Len(BytesOf(q[1]))
    BY <1>1, LaidFirst
  <2>2. Len(BytesOf(q[1])) \in Nat /\ Len(keybuf) \in Nat
    BY <2>1, BytesAre
  <2> QED BY <2>1, <2>2
<1> QED BY <1>1, <1>2, LaidFirst

\* As long as no piece is whole, the bytes only move.
LEMMA BytesMove ==
    ASSUME KeysTyped, PS2Inv, Arriving' = Arriving, keybuf' \in Seq(Sign), scan' \in Seq(Sign),
           Len(keybuf') <= 7,
           \A q, w : ~cut /\ q # << >> /\ Laid(q, w, Arriving, typed["ps2"], Down) =>
                         (Len(keybuf) < Len(BytesOf(q[1])) => Len(keybuf') < Len(BytesOf(q[1]))),
           UNCHANGED <<key_flags, old_key_code, typed, wrong>>,
           UNCHANGED <<who, down, active, cut, Down>>
    PROVE  KeysTyped' /\ PS2Inv'
<1>1. KeysTyped' /\ PS2Types'
  BY DEF KeysTyped, PS2Inv, PS2Types
<1>2. ASSUME cut PROVE CutShort'
  BY <1>2 DEF PS2Inv, CutShort
<1>3. ASSUME ~cut PROVE Queued'
  <2>1. PICK q, w :
            /\ Laid(q, w, Arriving, typed["ps2"], Down)
            /\ key_flags = w[1].down \cap K!Modifier /\ Recalls(old_key_code, w[1].down)
            /\ q # << >> => Len(keybuf) < Len(BytesOf(q[1]))
    BY <1>3 DEF PS2Inv, Queued
  <2>2. q # << >> => Len(keybuf') < Len(BytesOf(q[1]))
    BY <1>3, <2>1
  <2> QED BY <2>1, <2>2 DEF Queued
<1> QED BY <1>1, <1>2, <1>3 DEF PS2Inv

\* What is in the buffer is a beginning of the first piece.
LEMMA BufferBegins ==
    ASSUME NEW b \in Seq(Sign), NEW p \in Piece, Len(b) <= Len(BytesOf(p)),
           \A i \in 1 .. Len(b) : b[i] = BytesOf(p)[i], b # << >>
    PROVE  b = BytesOf(p) \/ (Len(b) < Len(BytesOf(p)) /\ Begun(b))
<1> DEFINE c == BytesOf(p)
           n == Len(b)
<1>1. c \in Seq(Sign) /\ \A m \in 1 .. Len(c) - 1 : Begun(SubSeq(c, 1, m))
  BY BytesAre
<1>2. n \in Nat /\ n > 0 /\ n <= Len(c) /\ \A i \in 1 .. n : b[i] = c[i]
  OBVIOUS
<1> HIDE DEF c
<1>3. CASE n = Len(c)
  <2>1. b = c
    BY <1>1, <1>2, <1>3
  <2> QED BY <2>1 DEF c
<1>4. CASE n < Len(c)
  <2>1. n \in 1 .. Len(c) - 1 /\ n \in 0 .. Len(c)
    BY <1>1, <1>2, <1>4
  <2>2. /\ SubSeq(c, 1, n) \in Seq(Sign) /\ Len(SubSeq(c, 1, n)) = n
        /\ \A i \in 1 .. n : SubSeq(c, 1, n)[i] = c[i]
    BY <1>1, <2>1, Beginning
  <2>3. b = SubSeq(c, 1, n)
    BY <1>2, <2>2
  <2>4. Begun(SubSeq(c, 1, n))
    BY <1>1, <2>1
  <2> QED BY <2>3, <2>4, <1>4 DEF c
<1> QED BY <1>1, <1>2, <1>3, <1>4

\* The buffer is decoded and, begun as it is, stays.
LEMMA BegunStays ==
    ASSUME KeysTyped, PS2Inv, NEW buf, Begun(buf), K!Decode(buf), buf \o scan' = Arriving,
           scan' \in Seq(Sign),
           \A q, w : ~cut /\ q # << >> /\ Laid(q, w, Arriving, typed["ps2"], Down) =>
                         (Len(keybuf) < Len(BytesOf(q[1])) => Len(buf) < Len(BytesOf(q[1]))),
           UNCHANGED <<who, down, active, cut, Down>>
    PROVE  KeysTyped' /\ PS2Inv'
<1>1. keybuf' = buf /\ kpc' = "valid" /\ UNCHANGED <<key_flags, old_key_code, typed, wrong>>
  BY BegunIs
<1>2. buf \in Seq(Sign) /\ Len(buf) <= 7
  BY DEF Begun
<1>3. Arriving' = Arriving
  BY <1>1 DEF Arriving
<1> QED BY <1>1, <1>2, <1>3, BytesMove

\* A byte that is received completes a piece or continues it.
LEMMA ByteReceived ==
    ASSUME KeysTyped, PS2Inv, scan # << >>, scan' = Tail(scan),
           K!Decode(Append(keybuf, scan[1])),
           UNCHANGED <<who, down, active, cut, Down>>
    PROVE  KeysTyped' /\ PS2Inv'
<1> DEFINE buf == Append(keybuf, scan[1])
<1>1. keybuf \in Seq(Sign) /\ scan \in Seq(Sign)
  BY DEF PS2Inv, PS2Types
<1>2. /\ buf \in Seq(Sign) /\ scan' \in Seq(Sign) /\ buf \o scan' = Arriving /\ buf # << >>
      /\ Len(buf) = Len(keybuf) + 1 /\ Len(buf) <= Len(Arriving) /\ Arriving \in Seq(Sign)
      /\ \A i \in 1 .. Len(buf) : Arriving[i] = buf[i]
  BY <1>1 DEF Arriving
<1>3. K!Decode(buf)
  OBVIOUS
<1> HIDE DEF buf
<1>4. CASE cut
  <2>1. Stump(Arriving)
    BY <1>4 DEF PS2Inv, CutShort
  <2>2. Len(buf) \in 1 .. Len(Arriving)
    BY <1>2
  <2>3. Begun(SubSeq(Arriving, 1, Len(buf)))
    BY <2>1, <2>2 DEF Stump
  <2>4. buf = SubSeq(Arriving, 1, Len(buf))
    <3>1. Len(buf) \in 0 .. Len(Arriving)
      BY <2>2
    <3>2. /\ SubSeq(Arriving, 1, Len(buf)) \in Seq(Sign) /\ Len(SubSeq(Arriving, 1, Len(buf))) = Len(buf)
          /\ \A i \in 1 .. Len(buf) : SubSeq(Arriving, 1, Len(buf))[i] = Arriving[i]
      BY <3>1, <1>2, Beginning
    <3> QED BY <3>2, <1>2
  <2> QED BY <1>2, <1>3, <1>4, <2>3, <2>4, BegunStays
<1>5. CASE ~cut
  <2>1. PICK q, w :
            /\ Laid(q, w, Arriving, typed["ps2"], Down)
            /\ key_flags = w[1].down \cap K!Modifier /\ Recalls(old_key_code, w[1].down)
            /\ q # << >> => Len(keybuf) < Len(BytesOf(q[1]))
    BY <1>5 DEF PS2Inv, Queued
  <2>2. q # << >>
    <3>1. Arriving # << >>
      BY <1>2
    <3> QED BY <3>1, <2>1, LaidFirst
  <2>3. q[1] \in Piece /\ \A j \in 1 .. Len(BytesOf(q[1])) : Arriving[j] = BytesOf(q[1])[j]
    BY <2>1, <2>2, LaidFirst
  <2>4. Len(buf) <= Len(BytesOf(q[1])) /\ \A i \in 1 .. Len(buf) : buf[i] = BytesOf(q[1])[i]
    <3> DEFINE n == Len(BytesOf(q[1]))
    <3>1. n \in Nat /\ Len(keybuf) \in Nat /\ Len(buf) \in Nat /\ Len(keybuf) < n
      BY <2>1, <2>2, <2>3, <1>1, <1>2, BytesAre
    <3>2. Len(buf) <= n /\ \A i \in 1 .. Len(buf) : i \in 1 .. n
      <4> HIDE DEF n
      <4> QED BY <3>1, <1>2
    <3> QED BY <3>2, <2>3, <1>2
  <2>5. CASE buf = BytesOf(q[1])
    <3>1. Arriving = BytesOf(q[1]) \o scan' /\ K!Decode(BytesOf(q[1]))
      BY <2>5, <1>2, <1>3
    <3> QED BY <3>1, <1>1, <1>2, <1>5, <2>1, <2>2, PieceDecoded
  <2>6. CASE Len(buf) < Len(BytesOf(q[1])) /\ Begun(buf)
    <3>1. keybuf' = buf /\ kpc' = "valid" /\ UNCHANGED <<key_flags, old_key_code, typed, wrong>>
      BY <1>3, <2>6, BegunIs
    <3>2. Queued'
      <4>1. Arriving' = Arriving
        BY <3>1, <1>2 DEF Arriving
      <4> QED BY <2>1, <2>6, <3>1, <4>1 DEF Queued
    <3>3. Len(buf) <= 7
      BY <2>6 DEF Begun
    <3>4. KeysTyped' /\ PS2Types'
      BY <3>1, <3>3, <1>1, <1>2 DEF KeysTyped, PS2Inv, PS2Types
    <3> QED BY <3>2, <3>4, <1>5 DEF PS2Inv
  <2> QED BY <1>2, <2>3, <2>4, <2>5, <2>6, BufferBegins
<1> QED BY <1>4, <1>5

\* No byte was received: what was begun is looked at again.
LEMMA NoByteReceived ==
    ASSUME KeysTyped, PS2Inv, scan' = scan, keybuf # << >>, K!Decode(keybuf),
           UNCHANGED <<who, down, active, cut, Down>>
    PROVE  KeysTyped' /\ PS2Inv'
<1>1. keybuf \in Seq(Sign) /\ scan \in Seq(Sign)
  BY DEF PS2Inv, PS2Types
<1>2. /\ keybuf \o scan' = Arriving /\ Arriving \in Seq(Sign) /\ Len(keybuf) \in 1 .. Len(Arriving)
      /\ \A i \in 1 .. Len(keybuf) : Arriving[i] = keybuf[i]
  BY <1>1 DEF Arriving
<1>3. Begun(keybuf)
  <2>1. CASE cut
    <3>1. Begun(SubSeq(Arriving, 1, Len(keybuf)))
      BY <2>1, <1>2 DEF PS2Inv, CutShort, Stump
    <3>2. keybuf = SubSeq(Arriving, 1, Len(keybuf))
      <4>1. Len(keybuf) \in 0 .. Len(Arriving)
        BY <1>2
      <4>2. /\ SubSeq(Arriving, 1, Len(keybuf)) \in Seq(Sign)
            /\ Len(SubSeq(Arriving, 1, Len(keybuf))) = Len(keybuf)
            /\ \A i \in 1 .. Len(keybuf) : SubSeq(Arriving, 1, Len(keybuf))[i] = Arriving[i]
        BY <4>1, <1>2, Beginning
      <4> QED BY <4>2, <1>1, <1>2
    <3> QED BY <3>1, <3>2
  <2>2. CASE ~cut
    <3>1. PICK q, w :
              /\ Laid(q, w, Arriving, typed["ps2"], Down)
              /\ q # << >> => Len(keybuf) < Len(BytesOf(q[1]))
      BY <2>2 DEF PS2Inv, Queued
    <3>2. q # << >>
      <4>1. Arriving # << >>
        BY <1>2
      <4> QED BY <4>1, <3>1, LaidFirst
    <3>3. q[1] \in Piece /\ \A j \in 1 .. Len(BytesOf(q[1])) : Arriving[j] = BytesOf(q[1])[j]
      BY <3>1, <3>2, LaidFirst
    <3>4. /\ Len(keybuf) <= Len(BytesOf(q[1])) /\ keybuf # BytesOf(q[1])
          /\ \A i \in 1 .. Len(keybuf) : keybuf[i] = BytesOf(q[1])[i]
      <4> DEFINE n == Len(BytesOf(q[1]))
      <4>1. n \in Nat /\ Len(keybuf) \in Nat /\ Len(keybuf) < n
        BY <3>1, <3>2, <3>3, <1>1, BytesAre
      <4>2. Len(keybuf) <= n /\ Len(keybuf) # n /\ \A i \in 1 .. Len(keybuf) : i \in 1 .. n
        <5> HIDE DEF n
        <5> QED BY <4>1
      <4> QED BY <4>2, <3>3, <1>2
    <3> QED BY <3>3, <3>4, <1>1, BufferBegins
  <2> QED BY <2>1, <2>2
<1> QED BY <1>1, <1>2, <1>3, BegunStays

\* Nothing of the keyboard changes.
LEMMA KeyboardStill ==
    ASSUME PS2Inv, typed'["ps2"] = typed["ps2"],
           UNCHANGED <<keybuf, scan, key_flags, old_key_code, down, active, cut>>
    PROVE  PS2Inv'
<1>1. Arriving' = Arriving /\ Down' = Down
  BY DEF Arriving, Down
<1>2. PS2Types'
  BY DEF PS2Inv, PS2Types
<1>3. cut => CutShort'
  BY <1>1 DEF PS2Inv, CutShort
<1>4. ~cut => Queued'
  BY <1>1 DEF PS2Inv, Queued
<1> QED BY <1>2, <1>3, <1>4 DEF PS2Inv

\* PS2DELAY passes: what a key left that was cut off is forgotten.
LEMMA BytesForgotten ==
    ASSUME PS2Inv, scan = << >>, keybuf # << >>, keybuf' = << >>, scan' = scan,
           typed'["ps2"] = typed["ps2"],
           UNCHANGED <<key_flags, old_key_code, down, active, cut, Down>>
    PROVE  PS2Inv'
<1>1. keybuf \in Seq(Sign)
  BY DEF PS2Inv, PS2Types
<1>2. cut
  BY <1>1, NothingQueued DEF PS2Inv, Queued
<1>3. Arriving' = << >>
  BY DEF Arriving
<1>4. Stump(<< >>)
  BY DEF Stump
<1>5. CutShort'
  BY <1>2, <1>3, <1>4 DEF PS2Inv, CutShort
<1>6. PS2Types'
  BY <1>1 DEF PS2Inv, PS2Types
<1> QED BY <1>2, <1>5, <1>6 DEF PS2Inv

\* OSD_GetKeyCode reads a byte or none and decodes the buffer.
LEMMA PolledPS2 ==
    ASSUME KeysTyped, PS2Inv, K!Poll
    PROVE  KeysTyped' /\ PS2Inv'
<1>1. keybuf \in Seq(Sign) /\ scan \in Seq(Sign)
  BY DEF PS2Inv, PS2Types
<1>3. UNCHANGED <<who, down, active, cut, Down>>
  BY DEF K!Poll, Down
<1>4. PICK buf \in K!Received :
          /\ scan' = IF Len(buf) > Len(keybuf) THEN Tail(scan) ELSE scan
          /\ IF buf = << >>
             THEN keybuf' = buf /\ kpc' = "valid" /\ UNCHANGED <<key_flags, old_key_code, typed, wrong>>
             ELSE K!Decode(buf)
  BY DEF K!Poll, K!history
<1>5. \/ scan # << >> /\ buf = Append(keybuf, scan[1])
      \/ buf = keybuf
      \/ scan = << >> /\ buf = << >>
  BY <1>1 DEF K!Received
<1>6. CASE scan # << >> /\ buf = Append(keybuf, scan[1])
  <2>1. Len(buf) > Len(keybuf) /\ buf # << >>
    BY <1>1, <1>6
  <2> QED BY <1>3, <1>4, <1>6, <2>1, ByteReceived
<1>7. CASE buf = keybuf /\ keybuf # << >>
  <2>1. ~(Len(keybuf) > Len(keybuf))
    BY <1>1
  <2> QED BY <1>3, <1>4, <1>7, <2>1, NoByteReceived
<1>8. CASE buf = << >> /\ keybuf = << >>
  <2>1. scan' = scan /\ keybuf' = keybuf /\ kpc' = "valid"
        /\ UNCHANGED <<key_flags, old_key_code, typed, wrong>>
    BY <1>4, <1>8
  <2>2. Arriving' = Arriving /\ Len(keybuf') <= 7
    BY <2>1, <1>8 DEF Arriving
  <2> QED BY <1>1, <1>3, <2>1, <2>2, BytesMove
<1>9. CASE scan = << >> /\ buf = << >> /\ keybuf # << >>
  <2>1. ~(Len(buf) > Len(keybuf))
    BY <1>1, <1>9
  <2>2. scan' = scan /\ keybuf' = << >> /\ UNCHANGED <<key_flags, old_key_code, typed, wrong>>
    BY <1>4, <1>9, <2>1
  <2>3. KeysTyped'
    BY <1>3, <2>2 DEF KeysTyped
  <2> QED BY <1>3, <1>9, <2>2, <2>3, BytesForgotten
<1> QED BY <1>5, <1>6, <1>7, <1>8, <1>9

\* The button comes first: a byte that is read with it is a slip.
LEMMA ButtonLeavesKeys ==
    ASSUME KeysTyped, PS2Inv, K!PollButton, scan' = scan
    PROVE  PS2Inv'
<1>1. keybuf \in Seq(Sign) /\ scan \in Seq(Sign)
  BY DEF PS2Inv, PS2Types
<1>2. UNCHANGED <<key_flags, old_key_code, who, down, active, cut, Down>>
  BY DEF K!PollButton, Down
<1>3. typed'["ps2"] = typed["ps2"]
  <2>1. typed' = [typed EXCEPT !["button"] = IF @ = << >> THEN @ ELSE Tail(@)]
    BY DEF K!PollButton, K!Return
  <2> QED BY <2>1 DEF KeysTyped, K!Source
<1>4. PICK buf \in K!Received :
          keybuf' = buf /\ scan' = IF Len(buf) > Len(keybuf) THEN Tail(scan) ELSE scan
  BY DEF K!PollButton
<1>5. \/ scan # << >> /\ buf = Append(keybuf, scan[1])
      \/ buf = keybuf
      \/ scan = << >> /\ buf = << >>
  BY <1>1 DEF K!Received
<1>6. CASE scan # << >> /\ buf = Append(keybuf, scan[1])
  <2>1. Len(buf) > Len(keybuf)
    BY <1>1, <1>6
  <2>2. Len(Tail(scan)) # Len(scan)
    BY <1>1, <1>6
  <2> QED BY <2>1, <2>2, <1>4
<1>7. CASE buf = keybuf
  BY <1>2, <1>3, <1>4, <1>7, KeyboardStill
<1>8. CASE scan = << >> /\ buf = << >> /\ keybuf # << >>
  BY <1>2, <1>3, <1>4, <1>8, BytesForgotten
<1> QED BY <1>5, <1>6, <1>7, <1>8

\* Concatenation is associative.
LEMMA Regrouped ==
    ASSUME NEW S, NEW a \in Seq(S), NEW b \in Seq(S), NEW c \in Seq(S)
    PROVE  (a \o b) \o c = a \o (b \o c)
BY ConcatAssociative

\* With no key remembered, no press is taken for a repetition.
LEMMA NoKeyRecalled ==
    ASSUME NEW d PROVE Recalls(K!NoKey, d)
<1> SUFFICES ASSUME NEW k \in K!Ordinary \ {"caps", "pause"}, NEW m \in SUBSET KeySet
             PROVE  K!NoKey # MeantAt(k, FALSE, m)
  BY DEF Recalls
<1>1. K!NoKey.code = << >>
  BY DEF K!NoKey, K!Event, K!NoCode
<1>2. MeantAt(k, FALSE, m).code # << >>
  <2>1. FALSE \in BOOLEAN OBVIOUS
  <2> QED BY <2>1, EventIs
<1> QED BY <1>1, <1>2

\* Modifiers are forgotten after PS2FLAGSDELAY; with nothing on its way the user
\* goes on without them.
LEMMA FlagsForgotten ==
    ASSUME KeysTyped, PS2Inv, K!FlagsTimeout, scan = << >>
    PROVE  KeysTyped' /\ PS2Inv'
<1>1. /\ key_flags' = {} /\ old_key_code' = K!NoKey /\ active' = {}
      /\ UNCHANGED <<keybuf, who, scan, down, cut, typed, wrong>>
  BY DEF K!FlagsTimeout
<1>2. keybuf \in Seq(Sign) /\ down \in SUBSET KeySet
  BY DEF PS2Inv, PS2Types
<1>3. Down' \in SUBSET KeySet /\ Down' \cap K!Modifier = {} /\ Recalls(old_key_code', Down')
  <2>1. Down' = down \ K!Modifier
    BY <1>1 DEF Down
  <2> QED BY <2>1, <1>1, <1>2, NoKeyRecalled
<1>4. Arriving' = Arriving
  BY <1>1 DEF Arriving
<1>5. cut => CutShort'
  BY <1>1, <1>3, <1>4 DEF PS2Inv, CutShort
<1>6. ASSUME ~cut PROVE Queued'
  <2>1. PICK q, w :
            /\ Laid(q, w, Arriving, typed["ps2"], Down)
            /\ q # << >> => Len(keybuf) < Len(BytesOf(q[1]))
    BY <1>6 DEF PS2Inv, Queued
  <2>2. keybuf = << >> /\ typed["ps2"] = << >>
    BY <2>1, <1>2, NothingQueued
  <2>3. Arriving = << >>
    BY <2>2 DEF Arriving
  <2>4. PICK v : Laid(<< >>, v, << >>, << >>, Down') /\ v[1].down = Down'
    BY <1>3, LaidNone
  <2>5. \A q1 : q1 = << >> =>
            /\ Laid(q1, v, Arriving', typed'["ps2"], Down')
            /\ key_flags' = v[1].down \cap K!Modifier /\ Recalls(old_key_code', v[1].down)
    BY <1>1, <1>3, <1>4, <2>2, <2>3, <2>4
  <2> QED BY <2>5 DEF Queued
<1>7. KeysTyped' /\ PS2Types'
  BY <1>1 DEF KeysTyped, PS2Inv, PS2Types
<1> QED BY <1>1, <1>5, <1>6, <1>7 DEF PS2Inv

\* The buffer b has a beginning of the first piece of a queue.
Holds(q, w, s, o, d, f, c, b) ==
    /\ Laid(q, w, s, o, d)
    /\ f = w[1].down \cap K!Modifier /\ Recalls(c, w[1].down)
    /\ q # << >> => Len(b) < Len(BytesOf(q[1]))
    /\ q = << >> => b = << >>

\* Whether or not the last key was cut off, what is there is a queue of keys.
LEMMA ReadyToType ==
    ASSUME KeysTyped, PS2Inv, cut => K!Stopped /\ key_flags = {}
    PROVE  \E q, w : Holds(q, w, Arriving, typed["ps2"], Down, key_flags, old_key_code, keybuf)
<1>1. keybuf \in Seq(Sign) /\ scan \in Seq(Sign) /\ Down \in SUBSET KeySet
  BY DEF PS2Inv, PS2Types, Down
<1>2. CASE ~cut
  <2>1. PICK q, w :
            /\ Laid(q, w, Arriving, typed["ps2"], Down)
            /\ key_flags = w[1].down \cap K!Modifier /\ Recalls(old_key_code, w[1].down)
            /\ q # << >> => Len(keybuf) < Len(BytesOf(q[1]))
    BY <1>2 DEF PS2Inv, Queued
  <2>2. q = << >> => Arriving = << >>
    BY <2>1, LaidFirst
  <2>3. q = << >> => keybuf = << >>
    BY <2>2, <1>1 DEF Arriving
  <2> QED BY <2>1, <2>3 DEF Holds
<1>3. CASE cut
  <2>1. scan = << >> /\ keybuf = << >> /\ key_flags = {} /\ Arriving = << >>
    BY <1>3 DEF K!Stopped, Arriving
  <2>2. typed["ps2"] = << >> /\ Down \cap K!Modifier = {} /\ Recalls(old_key_code, Down)
    BY <1>3 DEF PS2Inv, CutShort, Down
  <2>3. PICK w : Laid(<< >>, w, << >>, << >>, Down) /\ w[1].down = Down
    BY <1>1, LaidNone
  <2>4. Holds(<< >>, w, Arriving, typed["ps2"], Down, key_flags, old_key_code, keybuf)
    BY <2>1, <2>2, <2>3 DEF Holds
  <2> QED BY <2>4
<1> QED BY <1>2, <1>3

\* A piece more, and the buffer stays in the first.
LEMMA PieceTyped ==
    ASSUME NEW q, NEW w, NEW s, NEW o, NEW d, NEW f, NEW c, NEW b \in Seq(Sign), NEW p \in Piece,
           Holds(q, w, s, o, d, f, c, b), p.up /\ p.key \in K!Ordinary => p.key \in d
    PROVE  \E r, v : Holds(r, v, s \o BytesOf(p), OwedAfter(o, p, d), DownAfter(d, p), f, c, b)
<1>1. PICK v : MoreLaid(v, w, q, p, s, o, d)
  <2>1. Laid(q, w, s, o, d)
    BY DEF Holds
  <2> QED BY <2>1, LaidAppend
<1>2. /\ Laid(Append(q, p), v, s \o BytesOf(p), OwedAfter(o, p, d), DownAfter(d, p))
      /\ v[1].down = w[1].down
  BY <1>1 DEF MoreLaid, Begins
<1>3. q \in Seq(Piece)
  BY DEF Laid, Holds
<1>4. Append(q, p) # << >> /\ (q # << >> => Append(q, p)[1] = q[1]) /\ (q = << >> => Append(q, p)[1] = p)
  BY <1>3
<1>5. Len(b) < Len(BytesOf(Append(q, p)[1]))
  <2>1. CASE q # << >>
    BY <1>4, <2>1 DEF Holds
  <2>2. CASE q = << >>
    <3>1. Len(b) = 0 /\ Len(BytesOf(p)) > 0
      BY <2>2, BytesAre DEF Holds
    <3> QED BY <1>4, <2>2, <3>1
  <2> QED BY <2>1, <2>2
<1>6. Holds(Append(q, p), v, s \o BytesOf(p), OwedAfter(o, p, d), DownAfter(d, p), f, c, b)
  BY <1>2, <1>4, <1>5 DEF Holds
<1> QED BY <1>6

\* A key that is typed adds its pieces.
LEMMA KeyPressed ==
    ASSUME KeysTyped, PS2Inv, NEW k \in K!Modifier \cup K!Ordinary, NEW up \in BOOLEAN,
           K!Type(k, up)
    PROVE  KeysTyped' /\ PS2Inv'
<1> DEFINE bytes == IF up THEN K!Release(k) ELSE K!Make[k]
           p == [key |-> k, up |-> up]
           sign == [key |-> "none", up |-> up]
           o == typed["ps2"]
<1>1. /\ up => k \in down
      /\ cut => K!Stopped /\ key_flags = {}
      /\ scan' = scan \o bytes
      /\ down' = IF up \/ k = "pause" THEN down \ {k} ELSE down \cup {k}
      /\ active' = IF up THEN active \ {k} ELSE active \cup (K!Modifier \cap {k})
      /\ typed' = IF k \in K!Modifier THEN typed
                  ELSE [typed EXCEPT !["ps2"] = Append(@, [event |-> K!Meant(k, up), held |-> k \in down])]
      /\ cut' = FALSE
      /\ UNCHANGED <<keybuf, key_flags, old_key_code, who, wrong>>
  BY DEF K!Type, K!decoder
<1>2. /\ keybuf \in Seq(Sign) /\ Len(keybuf) <= 7 /\ scan \in Seq(Sign) /\ "pause" \notin down
      /\ down \in SUBSET KeySet /\ active \in SUBSET (down \cap K!Modifier)
  BY DEF PS2Inv, PS2Types
<1>3. k = "pause" => ~up
  BY <1>1, <1>2
<1>4. /\ p \in Piece /\ sign \in Piece
      /\ k # "sysrq" => bytes = BytesOf(p)
      /\ k = "sysrq" /\ ~up => bytes = BytesOf(sign) \o BytesOf(p)
      /\ k = "sysrq" /\ up => bytes = BytesOf(p) \o BytesOf(sign)
  BY <1>3, TypedIs
<1>5. p.key = k /\ p.up = up /\ sign.key = "none" /\ sign.up = up
  OBVIOUS
<1>6. Down' = DownAfter(Down, p) /\ Down \in SUBSET KeySet
  <2>1. k # "none" /\ "pause" \notin K!Modifier
    BY DEF K!Modifier, K!Ordinary
  <2>2. Down \in SUBSET KeySet
    BY <1>2 DEF Down
  <2>3. CASE k \in K!Modifier
    <3>1. Down' = (down \ K!Modifier) \cup (IF up THEN active \ {k} ELSE active \cup {k})
      BY <1>1, <2>1, <2>3 DEF Down
    <3> QED BY <3>1, <2>1, <2>2, <2>3, <1>5 DEF DownAfter, Down
  <2>4. CASE k \notin K!Modifier
    <3>1. active' = active
      BY <1>1, <1>2, <2>4
    <3> QED BY <3>1, <2>1, <2>2, <2>4, <1>1, <1>2, <1>3, <1>5 DEF DownAfter, Down
  <2> QED BY <2>3, <2>4
<1>7. typed'["ps2"] = OwedAfter(o, p, Down) /\ DOMAIN typed' = K!Source
  <2>1. "ps2" \in DOMAIN typed /\ DOMAIN typed = K!Source
    BY DEF KeysTyped, K!Source
  <2>2. CASE k \in K!Modifier
    <3>1. k \notin K!Ordinary
      BY <2>2 DEF K!Modifier, K!Ordinary
    <3>2. typed' = typed /\ OwedAfter(o, p, Down) = o
      BY <1>1, <1>5, <2>2, <3>1 DEF OwedAfter
    <3> QED BY <2>1, <3>2
  <2>3. CASE k \in K!Ordinary
    <3>1. k \notin K!Modifier
      BY <2>3 DEF K!Modifier, K!Ordinary
    <3>2. K!Meant(k, up) = MeantAt(k, up, Down)
      BY <2>3, <1>2, MeantIs
    <3>3. (k \in down) = (k \in Down)
      BY <3>1, <1>2 DEF Down
    <3>4. OwedAfter(o, p, Down) = Append(o, [event |-> K!Meant(k, up), held |-> k \in down])
      BY <1>5, <2>3, <3>2, <3>3 DEF OwedAfter, OwedKey
    <3> QED BY <1>1, <2>1, <3>1, <3>4
  <2> QED BY <2>2, <2>3
<1>8. sign.key \notin K!Ordinary /\ DownAfter(Down, sign) = Down /\ (\A x : OwedAfter(x, sign, Down') = x /\ OwedAfter(x, sign, Down) = x)
      /\ DownAfter(Down', sign) = Down'
  <2>1. sign.key \notin K!Ordinary
    BY <1>5 DEF K!Ordinary
  <2> QED BY <2>1, <1>5 DEF DownAfter, OwedAfter
<1> HIDE DEF p, sign, bytes, o
<1>9. PICK q, w : Holds(q, w, Arriving, o, Down, key_flags, old_key_code, keybuf)
  BY <1>1, ReadyToType DEF o
<1>10. BytesOf(p) \in Seq(Sign) /\ BytesOf(sign) \in Seq(Sign) /\ Arriving \in Seq(Sign)
  BY <1>2, <1>4, BytesAre DEF Arriving
<1>11. \E r, v : Holds(r, v, Arriving \o bytes, OwedAfter(o, p, Down), Down',
                       key_flags, old_key_code, keybuf)
  <2>0. p.up /\ p.key \in K!Ordinary => p.key \in Down
    <3>1. K!Ordinary \cap K!Modifier = {}
      BY DEF K!Modifier, K!Ordinary
    <3> QED BY <3>1, <1>1, <1>5 DEF Down
  <2>1. CASE k # "sysrq"
    BY <2>0, <2>1, <1>2, <1>4, <1>6, <1>9, PieceTyped
  <2>2. CASE k = "sysrq" /\ ~up
    <3>1. PICK r, v : Holds(r, v, Arriving \o BytesOf(sign), OwedAfter(o, sign, Down),
                            DownAfter(Down, sign), key_flags, old_key_code, keybuf)
      BY <1>2, <1>4, <1>8, <1>9, PieceTyped
    <3>2. Holds(r, v, Arriving \o BytesOf(sign), o, Down, key_flags, old_key_code, keybuf)
      BY <3>1, <1>8
    <3>3. \E x, y : Holds(x, y, (Arriving \o BytesOf(sign)) \o BytesOf(p), OwedAfter(o, p, Down),
                          DownAfter(Down, p), key_flags, old_key_code, keybuf)
      BY <2>0, <3>2, <1>2, <1>4, PieceTyped
    <3>4. (Arriving \o BytesOf(sign)) \o BytesOf(p) = Arriving \o bytes
      <4>1. bytes = BytesOf(sign) \o BytesOf(p)
        BY <1>4, <2>2
      <4>2. (Arriving \o BytesOf(sign)) \o BytesOf(p) = Arriving \o (BytesOf(sign) \o BytesOf(p))
        BY <1>10, Regrouped
      <4> QED BY <4>1, <4>2
    <3> QED BY <3>3, <3>4, <1>6
  <2>3. CASE k = "sysrq" /\ up
    <3>1. PICK r, v : Holds(r, v, Arriving \o BytesOf(p), OwedAfter(o, p, Down), DownAfter(Down, p),
                            key_flags, old_key_code, keybuf)
      BY <2>0, <1>2, <1>4, <1>9, PieceTyped
    <3>2. Holds(r, v, Arriving \o BytesOf(p), OwedAfter(o, p, Down), Down',
                key_flags, old_key_code, keybuf)
      BY <3>1, <1>6
    <3>3. \E x, y : Holds(x, y, (Arriving \o BytesOf(p)) \o BytesOf(sign),
                          OwedAfter(OwedAfter(o, p, Down), sign, Down'), DownAfter(Down', sign),
                          key_flags, old_key_code, keybuf)
      BY <3>2, <1>2, <1>4, <1>8, PieceTyped
    <3>4. (Arriving \o BytesOf(p)) \o BytesOf(sign) = Arriving \o bytes
      <4>1. bytes = BytesOf(p) \o BytesOf(sign)
        BY <1>4, <2>3
      <4>2. (Arriving \o BytesOf(p)) \o BytesOf(sign) = Arriving \o (BytesOf(p) \o BytesOf(sign))
        BY <1>10, Regrouped
      <4> QED BY <4>1, <4>2
    <3> QED BY <3>3, <3>4, <1>8
  <2> QED BY <2>1, <2>2, <2>3
<1>12. bytes \in Seq(Sign)
  <2>1. \/ bytes = BytesOf(p) \/ bytes = BytesOf(sign) \o BytesOf(p)
        \/ bytes = BytesOf(p) \o BytesOf(sign)
    BY <1>4
  <2>2. BytesOf(sign) \o BytesOf(p) \in Seq(Sign) /\ BytesOf(p) \o BytesOf(sign) \in Seq(Sign)
    BY <1>10
  <2> QED BY <2>1, <2>2, <1>10
<1>13. Arriving' = Arriving \o bytes
  <2>1. Arriving' = keybuf \o (scan \o bytes)
    BY <1>1 DEF Arriving
  <2> QED BY <2>1, <1>2, <1>12, Regrouped, SMTT(30) DEF Arriving
<1>15. Queued'
  BY <1>1, <1>7, <1>11, <1>13 DEF Queued, Holds
<1>16. KeysTyped'
  BY <1>1, <1>7 DEF KeysTyped
<1>17. PS2Types'
  <2>1. down' \in SUBSET KeySet /\ "pause" \notin down'
    BY <1>1, <1>2 DEF KeySet
  <2>2. scan' \in Seq(Sign)
    BY <1>1, <1>2, <1>12
  <2>3. active' \in SUBSET (down' \cap K!Modifier)
    <3>1. "pause" \notin K!Modifier
      BY DEF K!Modifier
    <3>2. CASE up
      BY <3>2, <1>1, <1>2
    <3>3. CASE ~up
      BY <3>1, <3>3, <1>1, <1>2
    <3> QED BY <3>2, <3>3
  <2> QED BY <1>1, <2>1, <2>2, <2>3 DEF PS2Inv, PS2Types
<1> QED BY <1>1, <1>15, <1>16, <1>17 DEF PS2Inv

\* A key that is cut off leaves the beginning of a piece.
LEMMA KeyCutOff ==
    ASSUME KeysTyped, PS2Inv, NEW k \in K!Modifier \cup K!Ordinary, NEW up \in BOOLEAN,
           NEW n \in 0 .. 2, K!CutOff(k, up, n)
    PROVE  KeysTyped' /\ PS2Inv'
<1> DEFINE bytes == IF up THEN K!Release(k) ELSE K!Make[k]
           p == [key |-> k, up |-> up]
<1>1. /\ scan = << >> /\ keybuf = << >> /\ ~cut /\ n < Len(bytes) /\ k # "sysrq" /\ k # "pause"
      /\ scan' = SubSeq(bytes, 1, n) /\ down' = down \ K!Modifier /\ active' = {} /\ cut' = TRUE
      /\ UNCHANGED <<keybuf, key_flags, old_key_code, who, typed, wrong>>
  BY DEF K!CutOff, K!Stopped, K!decoder, K!history
<1>2. p \in Piece /\ bytes = BytesOf(p)
  BY <1>1, TypedIs
<1>3. bytes \in Seq(Sign) /\ Len(bytes) \in Nat /\ \A i \in 1 .. Len(bytes) - 1 : Begun(SubSeq(bytes, 1, i))
  BY <1>2, BytesAre
<1> HIDE DEF bytes, p
<1>4. typed["ps2"] = << >> /\ Recalls(old_key_code, Down)
  <2>1. PICK q, w :
            /\ Laid(q, w, Arriving, typed["ps2"], Down) /\ Recalls(old_key_code, w[1].down)
            /\ q # << >> => Len(keybuf) < Len(BytesOf(q[1]))
    BY <1>1 DEF PS2Inv, Queued
  <2>2. keybuf \in Seq(Sign)
    BY DEF PS2Inv, PS2Types
  <2> QED BY <2>1, <2>2, <1>1, NothingQueued
<1>5. /\ scan' \in Seq(Sign) /\ Len(scan') = n /\ Arriving' = scan'
      /\ \A i \in 1 .. n : SubSeq(scan', 1, i) = SubSeq(bytes, 1, i) /\ i \in 1 .. Len(bytes) - 1
  <2>1. n \in 0 .. Len(bytes)
    BY <1>1, <1>3
  <2>2. scan' \in Seq(Sign) /\ Len(scan') = n /\ \A i \in 1 .. n : scan'[i] = bytes[i]
    BY <2>1, <1>1, <1>3, Beginning
  <2>3. Arriving' = scan'
    BY <1>1, <2>2 DEF Arriving
  <2>4. ASSUME NEW i \in 1 .. n PROVE SubSeq(scan', 1, i) = SubSeq(bytes, 1, i) /\ i \in 1 .. Len(bytes) - 1
    <3>1. i \in 0 .. Len(scan') /\ i \in 0 .. Len(bytes) /\ i \in 1 .. Len(bytes) - 1
      BY <2>2, <1>1, <1>3
    <3>2. /\ SubSeq(scan', 1, i) \in Seq(Sign) /\ Len(SubSeq(scan', 1, i)) = i
          /\ \A j \in 1 .. i : SubSeq(scan', 1, i)[j] = scan'[j]
      BY <3>1, <2>2, Beginning
    <3>3. /\ SubSeq(bytes, 1, i) \in Seq(Sign) /\ Len(SubSeq(bytes, 1, i)) = i
          /\ \A j \in 1 .. i : SubSeq(bytes, 1, i)[j] = bytes[j]
      BY <3>1, <1>3, Beginning
    <3>4. \A j \in 1 .. i : SubSeq(scan', 1, i)[j] = SubSeq(bytes, 1, i)[j]
      BY <3>2, <3>3, <2>2
    <3> QED BY <3>1, <3>2, <3>3, <3>4
  <2> QED BY <2>2, <2>3, <2>4
<1>6. Stump(Arriving')
  BY <1>3, <1>5 DEF Stump
<1>7. Recalls(old_key_code, Down')
  <2>1. K!Ordinary \cap K!Modifier = {}
    BY DEF K!Modifier, K!Ordinary
  <2>2. \A i \in K!Ordinary : i \in Down => i \in Down'
    <3>1. active \in SUBSET K!Modifier
      BY DEF PS2Inv, PS2Types
    <3> QED BY <3>1, <2>1, <1>1 DEF Down
  <2> QED BY <2>2, <1>4 DEF Recalls
<1>8. CutShort'
  BY <1>1, <1>4, <1>6, <1>7 DEF CutShort
<1>9. KeysTyped' /\ PS2Types'
  BY <1>1, <1>5 DEF KeysTyped, PS2Inv, PS2Types
<1> QED BY <1>1, <1>8, <1>9 DEF PS2Inv

-----------------------------------------------------------------------------
(* The key decoder: the serial terminal and the button.                     *)

\* The characters of the terminal.
Char == {"78", "58", "1b", "48", "5b", "41", "31", "7e"}
\* The keys the terminal pauses after: escape, and alt with a letter.
AltX == [chars |-> <<K!Esc, "78">>, key |-> [K!Plain("78") EXCEPT !.mods = {"alt"}]]
BareEsc == [chars |-> <<K!Esc>>, key |-> K!Event(<<K!Esc>>, {}, FALSE)]
\* Escape that is typed with alt is a slip.
Pausing == {BareEsc, AltX}
TermKey == K!TerminalKey \cup Pausing
\* What a key of the terminal is owed as.
OwedFor(t) == [event |-> t.key, held |-> FALSE]

\* The characters s are those of the keys q, and o is what they are to be returned
\* as: a tells where each begins.
Strung(q, a, s, o) ==
    /\ q \in Seq(TermKey) /\ s \in Seq(Char) /\ o \in Seq({OwedFor(t) : t \in TermKey})
    /\ Len(o) = Len(q)
    /\ a \in [1 .. Len(q) + 1 -> Nat] /\ a[1] = 0 /\ a[Len(q) + 1] = Len(s)
    /\ \A i, j \in 1 .. Len(q) + 1 : i <= j => a[i] <= a[j]
    /\ \A i \in 1 .. Len(q) :
          /\ a[i + 1] = a[i] + Len(q[i].chars)
          /\ \A j \in 1 .. Len(q[i].chars) : s[a[i] + j] = q[i].chars[j]
          /\ o[i] = OwedFor(q[i])
          /\ q[i] \in Pausing => Len(q) = 1

\* One character in front of others.
LEMMA OneInFront ==
    ASSUME NEW S, NEW e \in Seq(S), NEW s \in Seq(S), Len(e) = 1
    PROVE  /\ e \o s \in Seq(S) /\ Len(e \o s) = Len(s) + 1 /\ (e \o s)[1] = e[1]
           /\ \A i \in 1 .. Len(s) : (e \o s)[i + 1] = s[i]
<1>1. e \o s \in Seq(S) /\ Len(e \o s) = Len(e) + Len(s)
  BY ConcatProperties
<1>2. \A i \in 1 .. Len(e) + Len(s) : (e \o s)[i] = IF i <= Len(e) THEN e[i] ELSE s[i - Len(e)]
  BY ConcatProperties
<1>3. Len(s) \in Nat /\ Len(e) + Len(s) = Len(s) + 1
  OBVIOUS
<1>4. (e \o s)[1] = e[1]
  BY <1>2, <1>3
<1>5. ASSUME NEW i \in 1 .. Len(s) PROVE (e \o s)[i + 1] = s[i]
  <2>1. i + 1 \in 1 .. Len(e) + Len(s) /\ ~(i + 1 <= Len(e)) /\ (i + 1) - Len(e) = i
    BY <1>3
  <2> QED BY <2>1, <1>2
<1> QED BY <1>1, <1>3, <1>4, <1>5

\* Short sequences are sequences.
LEMMA OneOrTwo ==
    ASSUME NEW S, NEW x \in S, NEW y \in S, NEW s, s = <<x>> \/ s = <<x, y>>
    PROVE  s \in Seq(S) /\ Len(s) > 0 /\ Len(s) <= 5
<1>1. CASE s = <<x>>
  BY <1>1
<1>2. CASE s = <<x, y>>
  BY <1>2
<1> QED BY <1>1, <1>2

\* An escape sequence of the table: H or [ follows, and five characters are the most.
LEMMA EscapeIs ==
    ASSUME NEW s \in K!Sequence
    PROVE  /\ <<K!Esc>> \o s \in Seq(Char) /\ Len(<<K!Esc>> \o s) = Len(s) + 1
           /\ (<<K!Esc>> \o s)[1] = K!Esc /\ \A i \in 1 .. Len(s) : (<<K!Esc>> \o s)[i + 1] = s[i]
           /\ Len(s) > 0 /\ Len(s) <= 4 /\ s[1] \in {"48", "5b"} /\ s \in Seq(Char)
<1>1. s \in Seq(Char) /\ Len(s) > 0 /\ Len(s) <= 4 /\ s[1] \in {"48", "5b"}
  <2>0. "48" \in Char /\ "5b" \in Char /\ "41" \in Char /\ "31" \in Char /\ "7e" \in Char
    BY DEF Char
  <2>1. CASE s = <<"48">>
    BY <2>0, <2>1
  <2>2. CASE s = <<"5b", "41">>
    BY <2>0, <2>2
  <2>3. CASE s = <<"5b", "31", "7e">>
    BY <2>0, <2>3
  <2>4. CASE s = <<"5b", "31", "31", "7e">>
    BY <2>0, <2>4
  <2> QED BY <2>1, <2>2, <2>3, <2>4 DEF K!Sequence
<1>2. <<K!Esc>> \in Seq(Char) /\ Len(<<K!Esc>>) = 1 /\ <<K!Esc>>[1] = K!Esc
  BY DEF K!Esc, Char
<1> DEFINE e == <<K!Esc>>
<1>3. e \in Seq(Char) /\ Len(e) = 1 /\ e[1] = K!Esc
  BY <1>2
<1> HIDE DEF e
<1>4. e \o s \in Seq(Char) /\ Len(e \o s) = Len(s) + 1 /\ (e \o s)[1] = K!Esc
      /\ \A i \in 1 .. Len(s) : (e \o s)[i + 1] = s[i]
  BY <1>1, <1>3, OneInFront
<1> QED BY <1>1, <1>4 DEF e

\* No sequence of the table begins another.
LEMMA SequencesDiffer ==
    ASSUME NEW s \in K!Sequence, NEW r \in K!Sequence, Len(s) <= Len(r), \A i \in 1 .. Len(s) : s[i] = r[i]
    PROVE  s = r
<1>1. s[1] = r[1]
  BY EscapeIs
<1>2. Len(s) >= 2 => s[2] = r[2]
  BY EscapeIs
<1>3. Len(s) >= 3 => s[3] = r[3]
  BY EscapeIs
<1>4. CASE s = <<"48">>
  BY <1>1, <1>4 DEF K!Sequence
<1>5. CASE s = <<"5b", "41">>
  BY <1>1, <1>2, <1>5 DEF K!Sequence
<1>6. CASE s = <<"5b", "31", "7e">>
  BY <1>1, <1>2, <1>3, <1>6 DEF K!Sequence
<1>7. CASE s = <<"5b", "31", "31", "7e">>
  <2>1. Len(s) = 4 /\ s[1] = "5b"
    BY <1>7
  <2>2. Len(r) >= 4
    BY <2>1
  <2> QED BY <1>7, <2>2 DEF K!Sequence
<1> QED BY <1>4, <1>5, <1>6, <1>7 DEF K!Sequence

\* The keys of the terminal.
LEMMA KeyForms ==
    ASSUME NEW t \in TermKey
    PROVE  /\ \/ \E c \in {"78", "58"} : t = [chars |-> <<c>>, key |-> K!Plain(c)]
              \/ \E s \in K!Sequence : t = [chars |-> <<K!Esc>> \o s, key |-> K!Event(s, {}, FALSE)]
              \/ t = BareEsc \/ t = AltX
           /\ t \in Pausing => t = BareEsc \/ t = AltX
           /\ BareEsc \in Pausing /\ AltX \in Pausing
BY DEF TermKey, K!TerminalKey, Pausing

\* The characters of the two that need a pause.
LEMMA PausedChars == BareEsc.chars = <<K!Esc>> /\ AltX.chars = <<K!Esc, "78">>
BY DEF BareEsc, AltX

\* A key has one to five characters.
LEMMA KeyChars ==
    ASSUME NEW t \in TermKey
    PROVE  t.chars \in Seq(Char) /\ Len(t.chars) > 0 /\ Len(t.chars) <= 5
<1>1. CASE \E c \in {"78", "58"} : t = [chars |-> <<c>>, key |-> K!Plain(c)]
  <2>1. PICK c \in {"78", "58"} : t = [chars |-> <<c>>, key |-> K!Plain(c)]
    BY <1>1
  <2>2. t.chars = <<c>> /\ c \in Char
    BY <2>1 DEF Char
  <2> QED BY <2>2
<1>2. CASE \E s \in K!Sequence : t = [chars |-> <<K!Esc>> \o s, key |-> K!Event(s, {}, FALSE)]
  <2>1. PICK s \in K!Sequence : t = [chars |-> <<K!Esc>> \o s, key |-> K!Event(s, {}, FALSE)]
    BY <1>2
  <2>2. t.chars = <<K!Esc>> \o s
    BY <2>1
  <2>3. <<K!Esc>> \o s \in Seq(Char) /\ Len(<<K!Esc>> \o s) = Len(s) + 1 /\ Len(s) > 0 /\ Len(s) <= 4
        /\ Len(s) \in Nat
    BY EscapeIs
  <2> QED BY <2>2, <2>3
<1>3. CASE t = BareEsc \/ t = AltX
  <2>1. K!Esc \in Char /\ "78" \in Char
    BY DEF K!Esc, Char
  <2> QED BY <2>1, <1>3, PausedChars, OneOrTwo
<1> QED BY <1>1, <1>2, <1>3, KeyForms

\* Nothing is on its way.
LEMMA StrungNone == \E a : Strung(<< >>, a, << >>, << >>)
<1> DEFINE a == [i \in 1 .. 1 |-> 0]
<1>1. /\ << >> \in Seq(TermKey) /\ << >> \in Seq(Char) /\ << >> \in Seq({OwedFor(t) : t \in TermKey})
      /\ Len(<< >>) = 0
  OBVIOUS
<1>2. a \in [1 .. 0 + 1 -> Nat] /\ a[1] = 0 /\ \A i \in 1 .. 0 + 1 : i = 1
  OBVIOUS
<1> HIDE DEF a
<1>3. Strung(<< >>, a, << >>, << >>)
  BY <1>1, <1>2 DEF Strung
<1> QED BY <1>3

\* One more key at the end.
LEMMA StrungAppend ==
    ASSUME NEW q, NEW a, NEW s, NEW o, NEW t \in TermKey, Strung(q, a, s, o),
           t \in Pausing => q = << >>, \A i \in 1 .. Len(q) : q[i] \notin Pausing
    PROVE  \E b : Strung(Append(q, t), b, s \o t.chars, Append(o, OwedFor(t)))
<1> DEFINE m == Len(q)
           c == t.chars
           u == s \o c
           x == Append(o, OwedFor(t))
           r == Append(q, t)
           last == Len(s) + Len(c)
           b == [i \in 1 .. m + 2 |-> IF i <= m + 1 THEN a[i] ELSE last]
<1>1. /\ q \in Seq(TermKey) /\ s \in Seq(Char) /\ o \in Seq({OwedFor(k) : k \in TermKey})
      /\ m \in Nat /\ Len(o) = m
      /\ a \in [1 .. m + 1 -> Nat] /\ a[1] = 0 /\ a[m + 1] = Len(s)
      /\ \A i, j \in 1 .. m + 1 : i <= j => a[i] <= a[j]
  BY DEF Strung
<1>2. \A i \in 1 .. m :
          /\ a[i + 1] = a[i] + Len(q[i].chars)
          /\ \A j \in 1 .. Len(q[i].chars) : s[a[i] + j] = q[i].chars[j]
          /\ o[i] = OwedFor(q[i])
          /\ q[i] \notin Pausing
  BY DEF Strung
<1>3. c \in Seq(Char) /\ Len(c) \in Nat /\ Len(c) > 0
  BY KeyChars
<1>4. u \in Seq(Char) /\ Len(u) = Len(s) + Len(c)
      /\ (\A j \in 1 .. Len(s) : u[j] = s[j]) /\ \A j \in 1 .. Len(c) : u[Len(s) + j] = c[j]
  <2> HIDE DEF c
  <2> QED BY <1>1, <1>3
<1>5. OwedFor(t) \in {OwedFor(k) : k \in TermKey}
  OBVIOUS
<1>6. /\ x \in Seq({OwedFor(k) : k \in TermKey}) /\ Len(x) = m + 1
      /\ (\A j \in 1 .. m : x[j] = o[j]) /\ x[m + 1] = OwedFor(t)
  BY <1>1, <1>5
<1>7. r \in Seq(TermKey) /\ Len(r) = m + 1 /\ (\A i \in 1 .. m : r[i] = q[i]) /\ r[m + 1] = t
  BY <1>1
<1>8. t \in Pausing => m = 0
  OBVIOUS
<1> HIDE DEF m, c, u, x, r, last
<1>9. last \in Nat /\ last = Len(u) /\ last = a[m + 1] + Len(c) /\ Len(s) \in Nat /\ Len(s) <= last
  BY <1>1, <1>3, <1>4 DEF last
<1>10. /\ b \in [1 .. (m + 1) + 1 -> Nat] /\ (\A i \in 1 .. m + 1 : b[i] = a[i])
       /\ b[(m + 1) + 1] = last /\ b[m + 2] = last /\ b[1] = 0
  BY <1>1, <1>9
<1> HIDE DEF b
<1>11. ASSUME NEW i \in 1 .. (m + 1) + 1, NEW j \in 1 .. (m + 1) + 1, i <= j
       PROVE  b[i] <= b[j]
  <2>1. CASE j <= m + 1
    <3>1. i \in 1 .. m + 1 /\ j \in 1 .. m + 1
      BY <2>1, <1>1, <1>11
    <3> QED BY <3>1, <1>1, <1>10, <1>11
  <2>2. CASE j = m + 2 /\ i = m + 2
    BY <2>2, <1>9, <1>10
  <2>3. CASE j = m + 2 /\ i <= m + 1
    <3>1. i \in 1 .. m + 1 /\ m + 1 \in 1 .. m + 1
      BY <2>3, <1>1
    <3>2. a[i] <= a[m + 1] /\ a[i] \in Nat
      BY <3>1, <1>1
    <3> QED BY <2>3, <3>1, <3>2, <1>1, <1>9, <1>10
  <2> QED BY <2>1, <2>2, <2>3, <1>1
<1>12. ASSUME NEW i \in 1 .. m + 1
       PROVE  /\ b[i + 1] = b[i] + Len(r[i].chars)
              /\ \A j \in 1 .. Len(r[i].chars) : u[b[i] + j] = r[i].chars[j]
              /\ x[i] = OwedFor(r[i])
              /\ r[i] \in Pausing => m + 1 = 1
  <2>1. CASE i = m + 1
    <3>1. b[i] = a[m + 1] /\ b[i + 1] = last /\ r[i] = t /\ x[i] = OwedFor(t)
      BY <2>1, <1>1, <1>6, <1>7, <1>10
    <3> QED BY <3>1, <1>1, <1>4, <1>8, <1>9 DEF c
  <2>2. CASE i \in 1 .. m
    <3>1. b[i] = a[i] /\ b[i + 1] = a[i + 1] /\ r[i] = q[i] /\ x[i] = o[i]
          /\ i + 1 \in 1 .. m + 1 /\ m + 1 \in 1 .. m + 1 /\ i + 1 <= m + 1
      BY <2>2, <1>1, <1>6, <1>7, <1>10
    <3>2. q[i] \in TermKey
      BY <2>2, <1>1 DEF m
    <3>3. a[i + 1] <= Len(s) /\ a[i] \in Nat
      BY <3>1, <1>1
    <3>4. Len(q[i].chars) \in Nat
      BY <3>2, KeyChars
    <3>5. ASSUME NEW j \in 1 .. Len(q[i].chars) PROVE u[a[i] + j] = q[i].chars[j]
      <4>1. s[a[i] + j] = q[i].chars[j] /\ a[i + 1] = a[i] + Len(q[i].chars)
        BY <1>2, <2>2
      <4>2. a[i] + j \in 1 .. Len(s)
        <5> DEFINE y == a[i]
                   z == Len(q[i].chars)
                   l == Len(s)
        <5>1. y \in Nat /\ z \in Nat /\ l \in Nat /\ y + z <= l /\ j \in 1 .. z
          BY <4>1, <3>3, <3>4, <1>1
        <5> HIDE DEF y, z, l
        <5>2. y + j \in 1 .. l
          BY <5>1
        <5> QED BY <5>2 DEF y, l
      <4> QED BY <4>1, <4>2, <1>4
    <3> QED BY <3>1, <3>5, <1>2, <2>2
  <2> QED BY <2>1, <2>2, <1>1
<1>13. Strung(r, b, u, x)
  BY <1>1, <1>4, <1>6, <1>7, <1>9, <1>10, <1>11, <1>12 DEF Strung
<1> QED BY <1>13 DEF r, u, x, c

\* What comes first.
LEMMA StrungFirst ==
    ASSUME NEW q, NEW a, NEW s, NEW o, Strung(q, a, s, o)
    PROVE  /\ q = << >> => s = << >> /\ o = << >>
           /\ q # << >> => /\ q[1] \in TermKey /\ Len(q[1].chars) <= Len(s)
                           /\ \A j \in 1 .. Len(q[1].chars) : s[j] = q[1].chars[j]
                           /\ o # << >> /\ o[1] = OwedFor(q[1])
                           /\ q[1] \in Pausing => Len(q) = 1 /\ s = q[1].chars /\ Len(o) = 1
<1>1. /\ q \in Seq(TermKey) /\ s \in Seq(Char) /\ o \in Seq({OwedFor(k) : k \in TermKey})
      /\ Len(q) \in Nat /\ Len(o) = Len(q)
      /\ a \in [1 .. Len(q) + 1 -> Nat] /\ a[1] = 0 /\ a[Len(q) + 1] = Len(s)
      /\ \A i, j \in 1 .. Len(q) + 1 : i <= j => a[i] <= a[j]
  BY DEF Strung
<1>2. ASSUME q = << >> PROVE s = << >> /\ o = << >>
  <2>1. Len(q) + 1 = 1
    BY <1>2
  <2>2. Len(s) = 0 /\ Len(o) = 0
    BY <2>1, <1>1, <1>2
  <2> QED BY <2>2, <1>1
<1>3. ASSUME q # << >>
      PROVE  /\ q[1] \in TermKey /\ Len(q[1].chars) <= Len(s)
             /\ \A j \in 1 .. Len(q[1].chars) : s[j] = q[1].chars[j]
             /\ o # << >> /\ o[1] = OwedFor(q[1])
             /\ q[1] \in Pausing => Len(q) = 1 /\ s = q[1].chars /\ Len(o) = 1
  <2>1. 1 \in 1 .. Len(q) /\ 2 \in 1 .. Len(q) + 1 /\ Len(q) + 1 \in 1 .. Len(q) + 1 /\ 2 <= Len(q) + 1
    BY <1>1, <1>3
  <2>2. q[1] \in TermKey
    BY <2>1, <1>1
  <2> DEFINE c == q[1].chars
  <2>3. /\ a[1 + 1] = a[1] + Len(c) /\ (\A j \in 1 .. Len(c) : s[a[1] + j] = c[j])
        /\ o[1] = OwedFor(q[1]) /\ (q[1] \in Pausing => Len(q) = 1)
    BY <2>1 DEF Strung
  <2>4. a[2] <= Len(s)
    BY <2>1, <1>1
  <2>5. c \in Seq(Char) /\ Len(c) \in Nat
    BY <2>2, KeyChars
  <2> HIDE DEF c
  <2>6. Len(c) <= Len(s) /\ \A j \in 1 .. Len(c) : s[j] = c[j]
    BY <2>3, <2>4, <2>5, <1>1
  <2>7. ASSUME q[1] \in Pausing PROVE s = c
    <3>1. Len(s) = Len(c)
      BY <2>3, <2>5, <2>7, <1>1, SMTT(30)
    <3> QED BY <3>1, <2>5, <2>6, <1>1, SMTT(30)
  <2>8. o # << >>
    BY <2>1, <1>1
  <2> QED BY <2>2, <2>3, <2>6, <2>7, <2>8, <1>1 DEF c
<1> QED BY <1>2, <1>3

\* The first key is gone.
LEMMA StrungRest ==
    ASSUME NEW q, NEW a, NEW s, NEW o, NEW t \in Seq(Char),
           Strung(q, a, s, o), q # << >>, s = q[1].chars \o t
    PROVE  \E b : Strung(Tail(q), b, t, Tail(o))
<1> DEFINE m == Len(q)
           c == q[1].chars
           k == Len(c)
           u == Tail(o)
           r == Tail(q)
           b == [i \in 1 .. m |-> a[i + 1] - k]
<1>1. /\ q \in Seq(TermKey) /\ s \in Seq(Char) /\ o \in Seq({OwedFor(x) : x \in TermKey})
      /\ m \in Nat /\ m >= 1 /\ Len(o) = m
      /\ a \in [1 .. m + 1 -> Nat] /\ a[1] = 0 /\ a[m + 1] = Len(s)
      /\ \A i, j \in 1 .. m + 1 : i <= j => a[i] <= a[j]
  BY DEF Strung
<1>2. \A i \in 1 .. m :
          /\ a[i + 1] = a[i] + Len(q[i].chars)
          /\ \A j \in 1 .. Len(q[i].chars) : s[a[i] + j] = q[i].chars[j]
          /\ o[i] = OwedFor(q[i])
          /\ q[i] \in Pausing => m = 1
  BY DEF Strung
<1>3. c \in Seq(Char) /\ k \in Nat
  <2>1. q[1] \in TermKey BY <1>1
  <2> QED BY <2>1, KeyChars
<1>4. r \in Seq(TermKey) /\ Len(r) = m - 1 /\ \A i \in 1 .. m - 1 : r[i] = q[i + 1]
  BY <1>1
<1>5. Len(s) = k + Len(t) /\ \A j \in 1 .. Len(t) : s[k + j] = t[j]
  <2> HIDE DEF c
  <2>1. s = c \o t BY DEF c
  <2> QED BY <1>3, <2>1
<1>6. a[2] = k
  <2>1. 1 \in 1 .. m /\ 1 + 1 = 2 BY <1>1
  <2>2. a[1 + 1] = a[1] + k BY <2>1, <1>2
  <2> QED BY <2>1, <2>2, <1>1, <1>3
<1>7. u \in Seq({OwedFor(x) : x \in TermKey}) /\ Len(u) = m - 1 /\ \A j \in 1 .. m - 1 : u[j] = o[j + 1]
  BY <1>1
<1> HIDE DEF m, c, k, u, r
<1>8. ASSUME NEW i \in 1 .. m
      PROVE  i + 1 \in 1 .. m + 1 /\ a[i + 1] >= k /\ a[i + 1] \in Nat /\ a[i + 1] <= Len(s)
  <2>1. i + 1 \in 1 .. m + 1 /\ 2 \in 1 .. m + 1 /\ m + 1 \in 1 .. m + 1 /\ 2 <= i + 1 /\ i + 1 <= m + 1
    BY <1>1
  <2> QED BY <2>1, <1>1, <1>6
<1>9. b \in [1 .. (m - 1) + 1 -> Nat] /\ \A i \in 1 .. m : b[i] = a[i + 1] - k
  <2>1. \A i \in 1 .. m : a[i + 1] - k \in Nat
    BY <1>8, <1>3
  <2>2. (m - 1) + 1 = m
    BY <1>1
  <2> QED BY <2>1, <2>2
<1> HIDE DEF b
<1>10. (m - 1) + 1 = m /\ m \in 1 .. m /\ 1 \in 1 .. m
  BY <1>1
<1>11. b[1] = 0
  <2>1. b[1] = a[1 + 1] - k BY <1>9, <1>10
  <2> QED BY <2>1, <1>6, <1>3
<1>12. b[m] = Len(t)
  <2>1. b[m] = a[m + 1] - k BY <1>9, <1>10
  <2>2. Len(t) \in Nat OBVIOUS
  <2> QED BY <2>1, <2>2, <1>1, <1>3, <1>5
<1>13. ASSUME NEW i \in 1 .. m, NEW j \in 1 .. m, i <= j PROVE b[i] <= b[j]
  <2>1. i + 1 \in 1 .. m + 1 /\ j + 1 \in 1 .. m + 1 /\ i + 1 <= j + 1
    BY <1>1, <1>13
  <2>2. a[i + 1] <= a[j + 1] /\ b[i] = a[i + 1] - k /\ b[j] = a[j + 1] - k
    BY <2>1, <1>1, <1>9
  <2> QED BY <2>2, <1>3, <1>8
<1>14. ASSUME NEW i \in 1 .. m - 1
       PROVE  /\ b[i + 1] = b[i] + Len(r[i].chars)
              /\ \A j \in 1 .. Len(r[i].chars) : t[b[i] + j] = r[i].chars[j]
              /\ u[i] = OwedFor(r[i])
              /\ r[i] \in Pausing => m - 1 = 1
  <2> DEFINE h == i + 1
  <2>1. h \in 1 .. m /\ i \in 1 .. m /\ r[i] = q[h] /\ u[i] = o[h] /\ m # 1
    BY <1>1, <1>4, <1>7
  <2>2. b[i] = a[h] - k /\ b[h] = a[h + 1] - k
    BY <2>1, <1>9
  <2>3. /\ a[h + 1] = a[h] + Len(q[h].chars)
        /\ \A j \in 1 .. Len(q[h].chars) : s[a[h] + j] = q[h].chars[j]
        /\ o[h] = OwedFor(q[h]) /\ (q[h] \in Pausing => m = 1)
    BY <2>1, <1>2
  <2>4. a[h] \in Nat /\ a[h] >= k /\ a[h + 1] <= Len(s)
    BY <2>1, <1>8
  <2>5. q[h] \in TermKey
    BY <2>1, <1>1 DEF m
  <2>6. Len(q[h].chars) \in Nat
    BY <2>5, KeyChars
  <2> HIDE DEF h
  <2>7. ASSUME NEW j \in 1 .. Len(q[h].chars) PROVE t[b[i] + j] = q[h].chars[j]
    <3>1. b[i] + j \in 1 .. Len(t) /\ k + (b[i] + j) = a[h] + j
      <4> DEFINE z == Len(q[h].chars)
                 y == a[h]
                 l == Len(t)
      <4>1. /\ y \in Nat /\ z \in Nat /\ l \in Nat /\ y >= k /\ j \in 1 .. z /\ y + z <= k + l
            /\ b[i] = y - k /\ k \in Nat
        BY <2>2, <2>3, <2>4, <2>6, <1>5, <1>3
      <4> HIDE DEF z, y, l
      <4>2. b[i] + j \in 1 .. l /\ k + (b[i] + j) = y + j
        BY <4>1
      <4> QED BY <4>2 DEF l, y
    <3> QED BY <3>1, <2>3, <1>5
  <2>8. b[h] = b[i] + Len(q[h].chars)
    BY <2>2, <2>3, <2>4, <2>6, <1>3
  <2>9. i + 1 = h BY DEF h
  <2> QED BY <2>1, <2>3, <2>7, <2>8, <2>9
<1>15. Strung(r, b, t, u)
  BY <1>1, <1>4, <1>7, <1>9, <1>10, <1>11, <1>12, <1>13, <1>14 DEF Strung
<1> QED BY <1>15 DEF r, u

\* What belongs to the serial port and the button; a ring that fills is a slip.
SerialTypes ==
    /\ kpc \in {"poll", "valid", "peek", "getc", "peekbuf", "match"}
    /\ rx \in Seq(Char) /\ coming \in Seq(Char) /\ Len(rx) < RxBufLen
    /\ peeked \in Seq(Char) /\ Len(peeked) <= 8
    /\ esc_delay \in {"off", "on", "over"} /\ meta_key \in BOOLEAN
    /\ button \in BOOLEAN /\ button_pressed \in BOOLEAN

\* The button is owed as the menu key until the poll that sees it.
ButtonRight ==
    typed["button"] =
        IF button /\ ~button_pressed THEN <<[event |-> K!Menu, held |-> FALSE]>> ELSE << >>

\* What was seen of the ring is still there.
Looking ==
    /\ kpc \in {"peek", "getc", "peekbuf", "match"} => rx # << >>
    /\ kpc = "getc" => rx[1] # K!Esc
    /\ kpc \in {"peekbuf", "match"} => rx[1] = K!Esc
    /\ kpc = "match" => /\ peeked # << >> /\ Len(peeked) <= Len(rx)
                        /\ \A i \in 1 .. Len(peeked) : peeked[i] = rx[i]

\* The time is kept only behind an escape, and it is over only when all of the first
\* key was looked at.
Waited(q) ==
    /\ esc_delay # "off" => rx # << >> /\ rx[1] = K!Esc
    /\ esc_delay = "over" => /\ q # << >> /\ Len(q[1].chars) <= Len(rx)
                             /\ kpc = "match" => Len(q[1].chars) <= Len(peeked)

\* What the ring holds and what is coming are the keys owed for.
Strings == \E q, a : Strung(q, a, rx \o coming, typed["serial"]) /\ Waited(q)

\* After the escape of alt, the letter is the only character there.
AltHeld ==
    /\ rx = <<"78">> /\ coming = << >> /\ esc_delay = "off"
    /\ typed["serial"] = <<OwedFor(AltX)>>

\* The invariant of the serial port and the button.
SerialInv ==
    SerialTypes /\ ButtonRight /\ Looking /\ (meta_key => AltHeld) /\ (~meta_key => Strings)

\* A prefix, by its elements.
LEMMA PrefixIs ==
    ASSUME NEW S, NEW c \in Seq(S), NEW x \in Seq(S)
    PROVE  K!IsPrefix(c, x) <=> Len(c) <= Len(x) /\ \A i \in 1 .. Len(c) : c[i] = x[i]
<1>1. CASE Len(c) <= Len(x)
  <2>1. Len(c) \in 0 .. Len(c) /\ Len(c) \in 0 .. Len(x)
    BY <1>1
  <2>2. /\ SubSeq(c, 1, Len(c)) \in Seq(S) /\ Len(SubSeq(c, 1, Len(c))) = Len(c)
        /\ \A i \in 1 .. Len(c) : SubSeq(c, 1, Len(c))[i] = c[i]
    BY <2>1, Beginning
  <2>3. /\ SubSeq(x, 1, Len(c)) \in Seq(S) /\ Len(SubSeq(x, 1, Len(c))) = Len(c)
        /\ \A i \in 1 .. Len(c) : SubSeq(x, 1, Len(c))[i] = x[i]
    BY <2>1, Beginning
  <2> DEFINE y == SubSeq(c, 1, Len(c))
             z == SubSeq(x, 1, Len(c))
  <2>4. (y = z) <=> (\A i \in 1 .. Len(c) : y[i] = z[i])
    <3>1. y \in Seq(S) /\ z \in Seq(S) /\ Len(y) = Len(c) /\ Len(z) = Len(c)
      BY <2>2, <2>3
    <3> HIDE DEF y, z
    <3> QED BY <3>1, SMTT(30)
  <2> QED BY <1>1, <2>2, <2>3, <2>4 DEF K!IsPrefix
<1> QED BY <1>1 DEF K!IsPrefix

\* What follows a prefix.
LEMMA SplitIs ==
    ASSUME NEW S, NEW c \in Seq(S), NEW x \in Seq(S), Len(c) <= Len(x),
           \A i \in 1 .. Len(c) : c[i] = x[i]
    PROVE  /\ SubSeq(x, Len(c) + 1, Len(x)) \in Seq(S)
           /\ x = c \o SubSeq(x, Len(c) + 1, Len(x))
<1>1. Len(c) \in 0 .. Len(x) /\ Len(x) \in Nat
  OBVIOUS
<1>2. /\ SubSeq(x, 1, Len(c)) \in Seq(S) /\ Len(SubSeq(x, 1, Len(c))) = Len(c)
      /\ \A i \in 1 .. Len(c) : SubSeq(x, 1, Len(c))[i] = x[i]
  BY <1>1, Beginning
<1>3. SubSeq(x, 1, Len(c)) = c
  BY <1>2
<1>4. SubSeq(x, 1, Len(c)) \o SubSeq(x, Len(c) + 1, Len(x)) = SubSeq(x, 1, Len(x))
  <2>1. 1 \in 1 .. Len(x) + 1 /\ Len(c) \in 1 - 1 .. Len(x) /\ Len(x) \in Len(c) .. Len(x)
    BY <1>1
  <2> QED BY <2>1, ConcatAdjacentSubSeq
<1>5. SubSeq(x, 1, Len(x)) = x
  <2>1. Len(x) \in 0 .. Len(x)
    BY <1>1
  <2>2. /\ SubSeq(x, 1, Len(x)) \in Seq(S) /\ Len(SubSeq(x, 1, Len(x))) = Len(x)
        /\ \A i \in 1 .. Len(x) : SubSeq(x, 1, Len(x))[i] = x[i]
    BY <2>1, Beginning
  <2> QED BY <2>2
<1>6. SubSeq(x, Len(c) + 1, Len(x)) \in Seq(S)
  OBVIOUS
<1> QED BY <1>3, <1>4, <1>5, <1>6

\* The head of a sequence and the rest.
LEMMA FirstOf ==
    ASSUME NEW S, NEW x \in Seq(S), x # << >>, NEW y \in Seq(S)
    PROVE  /\ x[1] \in S /\ Head(x) = x[1] /\ Tail(x) \in Seq(S) /\ x = <<x[1]>> \o Tail(x)
           /\ Len(x) = Len(Tail(x)) + 1
           /\ x \o y = <<x[1]>> \o (Tail(x) \o y) /\ (x \o y)[1] = x[1] /\ x \o y # << >>
<1>1. x[1] \in S /\ Head(x) = x[1] /\ Tail(x) \in Seq(S) /\ Len(x) = Len(Tail(x)) + 1
  OBVIOUS
<1>2. x = <<x[1]>> \o Tail(x)
  <2> DEFINE h == <<x[1]>>
  <2>1. h \in Seq(S) /\ Len(h) = 1 /\ h[1] = x[1]
    BY <1>1
  <2>2. \A i \in 1 .. Len(Tail(x)) : Tail(x)[i] = x[i + 1]
    OBVIOUS
  <2> HIDE DEF h
  <2>3. /\ h \o Tail(x) \in Seq(S) /\ Len(h \o Tail(x)) = Len(Tail(x)) + 1 /\ (h \o Tail(x))[1] = h[1]
        /\ \A i \in 1 .. Len(Tail(x)) : (h \o Tail(x))[i + 1] = Tail(x)[i]
    BY <1>1, <2>1, OneInFront
  <2>4. ASSUME NEW j \in 1 .. Len(x) PROVE (h \o Tail(x))[j] = x[j]
    <3>1. CASE j = 1
      BY <3>1, <2>1, <2>3
    <3>2. CASE j # 1
      <4>1. j - 1 \in 1 .. Len(Tail(x)) /\ (j - 1) + 1 = j
        BY <3>2, <1>1
      <4> QED BY <4>1, <2>2, <2>3
    <3> QED BY <3>1, <3>2
  <2>5. h \o Tail(x) = x
    BY <1>1, <2>3, <2>4
  <2> QED BY <2>5 DEF h
<1>3. x \o y \in Seq(S) /\ Len(x \o y) = Len(x) + Len(y)
      /\ \A i \in 1 .. Len(x) + Len(y) : (x \o y)[i] = IF i <= Len(x) THEN x[i] ELSE y[i - Len(x)]
  BY ConcatProperties
<1>4. (x \o y)[1] = x[1] /\ x \o y # << >>
  <2>1. 1 \in 1 .. Len(x) + Len(y) /\ 1 <= Len(x) /\ Len(x) + Len(y) # 0
    OBVIOUS
  <2> QED BY <1>3, <2>1
<1>5. x \o y = <<x[1]>> \o (Tail(x) \o y)
  <2>1. <<x[1]>> \in Seq(S)
    BY <1>1
  <2>2. (<<x[1]>> \o Tail(x)) \o y = <<x[1]>> \o (Tail(x) \o y)
    BY <1>1, <2>1, Regrouped
  <2> QED BY <1>2, <2>2
<1> QED BY <1>1, <1>2, <1>4, <1>5

\* The interrupt moves one character to the ring.
LEMMA OneMoves ==
    ASSUME NEW S, NEW x \in Seq(S), NEW y \in Seq(S), y # << >>
    PROVE  /\ Append(x, Head(y)) \in Seq(S) /\ Tail(y) \in Seq(S)
           /\ Append(x, Head(y)) \o Tail(y) = x \o y
           /\ Len(Append(x, Head(y))) = Len(x) + 1 /\ Len(y) = Len(Tail(y)) + 1
           /\ \A i \in 1 .. Len(x) : Append(x, Head(y))[i] = x[i]
<1>1. Head(y) = y[1] /\ y[1] \in S /\ Tail(y) \in Seq(S) /\ y = <<y[1]>> \o Tail(y) /\ Len(y) = Len(Tail(y)) + 1
  BY FirstOf
<1>2. Append(x, y[1]) \in Seq(S) /\ Len(Append(x, y[1])) = Len(x) + 1
      /\ \A i \in 1 .. Len(x) : Append(x, y[1])[i] = x[i]
  BY <1>1
<1>3. Append(x, y[1]) = x \o <<y[1]>>
  BY <1>1
<1>4. (x \o <<y[1]>>) \o Tail(y) = x \o (<<y[1]>> \o Tail(y))
  <2>1. <<y[1]>> \in Seq(S)
    BY <1>1
  <2> QED BY <1>1, <2>1, Regrouped
<1> QED BY <1>1, <1>2, <1>3, <1>4

\* What the first characters of a string say of its first key.
Opens(t, s, o) ==
    \/ s[1] # K!Esc /\ t.chars = <<s[1]>> /\ t.key = K!Plain(s[1])
    \/ s[1] = K!Esc /\ \E r \in K!Sequence : t.chars = <<K!Esc>> \o r /\ t.key = K!Event(r, {}, FALSE)
    \/ t = BareEsc /\ s = <<K!Esc>> /\ Len(o) = 1
    \/ t = AltX /\ s = <<K!Esc, "78">> /\ Len(o) = 1

\* The first characters of what is there determine its first key.
LEMMA FirstKey ==
    ASSUME NEW q, NEW a, NEW s, NEW o, Strung(q, a, s, o), s # << >>
    PROVE  /\ q # << >> /\ o # << >> /\ o[1] = OwedFor(q[1]) /\ q[1] \in TermKey
           /\ Len(q[1].chars) <= Len(s) /\ \A j \in 1 .. Len(q[1].chars) : s[j] = q[1].chars[j]
           /\ Opens(q[1], s, o)
<1>1. /\ q # << >> /\ o # << >> /\ o[1] = OwedFor(q[1]) /\ q[1] \in TermKey
      /\ Len(q[1].chars) <= Len(s) /\ \A j \in 1 .. Len(q[1].chars) : s[j] = q[1].chars[j]
      /\ q[1] \in Pausing => s = q[1].chars /\ Len(o) = 1
  BY StrungFirst
<1> DEFINE t == q[1]
<1> HIDE DEF t
<1>2. CASE \E c \in {"78", "58"} : t = [chars |-> <<c>>, key |-> K!Plain(c)]
  <2>1. PICK c \in {"78", "58"} : t = [chars |-> <<c>>, key |-> K!Plain(c)]
    BY <1>2
  <2>2. t.chars = <<c>> /\ t.key = K!Plain(c) /\ c # K!Esc
    BY <2>1 DEF K!Esc
  <2>3. s[1] = c
    BY <1>1, <2>2 DEF t, Opens
  <2> QED BY <1>1, <2>2, <2>3 DEF t, Opens
<1>3. CASE \E r \in K!Sequence : t = [chars |-> <<K!Esc>> \o r, key |-> K!Event(r, {}, FALSE)]
  <2>1. PICK r \in K!Sequence : t = [chars |-> <<K!Esc>> \o r, key |-> K!Event(r, {}, FALSE)]
    BY <1>3
  <2>2. t.chars = <<K!Esc>> \o r /\ t.key = K!Event(r, {}, FALSE)
    BY <2>1
  <2>3. (<<K!Esc>> \o r)[1] = K!Esc /\ Len(<<K!Esc>> \o r) = Len(r) + 1 /\ Len(r) > 0 /\ Len(r) \in Nat
    BY EscapeIs
  <2>4. 1 \in 1 .. Len(t.chars)
    BY <2>2, <2>3
  <2>5. s[1] = K!Esc
    BY <1>1, <2>2, <2>3, <2>4 DEF t, Opens
  <2> QED BY <1>1, <2>2, <2>5 DEF t, Opens
<1>4. CASE t = BareEsc \/ t = AltX
  <2>1. t \in Pausing
    BY <1>1, <1>4, KeyForms DEF t, Opens
  <2> QED BY <1>1, <1>4, <2>1, PausedChars DEF t, Opens
<1> QED BY <1>1, <1>2, <1>3, <1>4, KeyForms DEF t, Opens

\* Alt is added to the letter that follows its escape.
LEMMA AltXKey ==
    /\ [K!Plain("78") EXCEPT !.mods = @ \cup {"alt"}] = AltX.key
    /\ OwedFor(AltX).event = AltX.key
    /\ OwedFor(BareEsc).event = K!Event(<<K!Esc>>, {}, FALSE)
<1>1. K!Plain("78") = [code |-> <<"X">>, mods |-> {}, up |-> FALSE]
  BY DEF K!Plain, K!Event
<1>2. K!Plain("78").mods \cup {"alt"} = {"alt"}
  BY <1>1
<1>4. [K!Plain("78") EXCEPT !.mods = @ \cup {"alt"}] = [K!Plain("78") EXCEPT !.mods = {"alt"}]
  BY <1>2, Zenon
<1> QED BY <1>4 DEF AltX, BareEsc, OwedFor

\* The invariant without the keyboard.
Serially == KeysTyped /\ SerialInv

\* A step that takes nothing and looks at nothing.
LEMMA StringsStay ==
    ASSUME (meta_key => AltHeld) /\ (~meta_key => Strings),
           UNCHANGED <<rx, coming, meta_key, esc_delay>>, typed'["serial"] = typed["serial"],
           kpc' # "match" \/ UNCHANGED <<kpc, peeked>>
    PROVE  (meta_key' => AltHeld') /\ (~meta_key' => Strings')
<1>1. ASSUME meta_key PROVE AltHeld'
  BY <1>1 DEF AltHeld
<1>2. ASSUME ~meta_key PROVE Strings'
  <2>1. PICK q, a : Strung(q, a, rx \o coming, typed["serial"]) /\ Waited(q)
    BY <1>2 DEF Strings
  <2>2. Waited(q)'
    BY <2>1 DEF Waited
  <2> QED BY <2>1, <2>2 DEF Strings
<1> QED BY <1>1, <1>2

\* What leaves the serial port and its keys alone.
LEMMA SerialStill ==
    ASSUME SerialInv, UNCHANGED <<rx, peeked, esc_delay, meta_key, coming>>,
           typed'["serial"] = typed["serial"],
           kpc' = kpc \/ kpc' \in {"poll", "valid"},
           button' \in BOOLEAN, button_pressed' \in BOOLEAN, ButtonRight'
    PROVE  SerialInv'
<1>1. SerialTypes'
  BY DEF SerialInv, SerialTypes
<1>2. Looking'
  BY DEF SerialInv, Looking
<1>3. (meta_key' => AltHeld') /\ (~meta_key' => Strings')
  BY StringsStay DEF SerialInv
<1> QED BY <1>1, <1>2, <1>3 DEF SerialInv

\* A step of the keyboard and of its user.
LEMMA KeyboardMoves ==
    ASSUME Serially,
           \/ K!Poll \/ K!FlagsTimeout
           \/ \E k \in K!Modifier \cup K!Ordinary, up \in BOOLEAN : K!Type(k, up)
           \/ \E k \in K!Modifier \cup K!Ordinary, up \in BOOLEAN, n \in 0 .. 2 : K!CutOff(k, up, n)
    PROVE  SerialInv'
<1>1. "serial" \in K!Source /\ "button" \in K!Source /\ DOMAIN typed = K!Source
  BY DEF K!Source, Serially, KeysTyped
<1>2. button \in BOOLEAN /\ button_pressed \in BOOLEAN /\ ButtonRight /\ SerialInv
  BY DEF Serially, SerialInv, SerialTypes
<1>3. CASE K!Poll
  <2>1. /\ (button => button_pressed) /\ button_pressed' \in {button_pressed, button}
        /\ UNCHANGED <<rx, peeked, esc_delay, meta_key, button, coming>>
    BY <1>3 DEF K!Poll, K!serial
  <2>2. kpc' \in {"poll", "valid"}
    BY <1>3 DEF K!Poll, K!Decode
  <2>3. typed' = typed \/ \E x : typed' = [typed EXCEPT !["ps2"] = x]
    BY <1>3 DEF K!Poll, K!Decode, K!Return, K!ReturnKey, K!history
  <2>4. typed'["serial"] = typed["serial"] /\ typed'["button"] = typed["button"]
    BY <1>1, <2>3
  <2>5. button_pressed' \in BOOLEAN /\ button' \in BOOLEAN /\ ButtonRight'
    BY <1>2, <2>1, <2>4 DEF ButtonRight
  <2> QED BY <1>2, <2>1, <2>2, <2>4, <2>5, SerialStill
<1>4. CASE K!FlagsTimeout
  <2>1. UNCHANGED <<kpc, rx, peeked, esc_delay, meta_key, button, button_pressed, coming, typed>>
    BY <1>4 DEF K!FlagsTimeout, K!serial
  <2>2. ButtonRight'
    BY <1>2, <2>1 DEF ButtonRight
  <2> QED BY <1>2, <2>1, <2>2, SerialStill
<1>5. CASE \E k \in K!Modifier \cup K!Ordinary, up \in BOOLEAN : K!Type(k, up)
  <2>1. PICK k \in K!Modifier \cup K!Ordinary, up \in BOOLEAN : K!Type(k, up)
    BY <1>5
  <2>2. UNCHANGED <<kpc, rx, peeked, esc_delay, meta_key, button, button_pressed, coming>>
    BY <2>1 DEF K!Type, K!serial, K!decoder
  <2>3. typed' = typed \/ \E x : typed' = [typed EXCEPT !["ps2"] = x]
    BY <2>1 DEF K!Type
  <2>4. typed'["serial"] = typed["serial"] /\ typed'["button"] = typed["button"]
    BY <1>1, <2>3
  <2>5. ButtonRight'
    BY <1>2, <2>2, <2>4 DEF ButtonRight
  <2> QED BY <1>2, <2>2, <2>4, <2>5, SerialStill
<1>6. CASE \E k \in K!Modifier \cup K!Ordinary, up \in BOOLEAN, n \in 0 .. 2 : K!CutOff(k, up, n)
  <2>1. PICK k \in K!Modifier \cup K!Ordinary, up \in BOOLEAN, n \in 0 .. 2 : K!CutOff(k, up, n)
    BY <1>6
  <2>2. UNCHANGED <<kpc, rx, peeked, esc_delay, meta_key, button, button_pressed, coming, typed>>
    BY <2>1 DEF K!CutOff, K!serial, K!decoder, K!history
  <2>3. ButtonRight'
    BY <1>2, <2>2 DEF ButtonRight
  <2> QED BY <1>2, <2>2, <2>3, SerialStill
<1> QED BY <1>3, <1>4, <1>5, <1>6

\* The button is returned once for each push.
LEMMA ButtonPolled ==
    ASSUME Serially, K!PollButton
    PROVE  KeysTyped' /\ SerialInv'
<1>1. kpc = "poll" /\ button /\ ~button_pressed /\ button_pressed' = TRUE
  BY DEF K!PollButton
<1>4. /\ K!Return("button", K!Menu, FALSE)
      /\ UNCHANGED <<kpc, rx, peeked, esc_delay, meta_key, who, button, coming>>
  BY DEF K!PollButton, K!serial
<1>5. typed["button"] = <<[event |-> K!Menu, held |-> FALSE]>> /\ "button" \in K!Source
  BY <1>1 DEF Serially, SerialInv, ButtonRight, K!Source
<1>6. DOMAIN typed' = K!Source /\ wrong' = FALSE
      /\ typed' = [typed EXCEPT !["button"] = Tail(typed["button"])]
  <2>1. typed["button"] # << >> /\ typed["button"][1].event = K!Menu
    BY <1>5
  <2> QED BY <1>4, <1>5, <2>1, ReturnedRight DEF Serially
<1>7. typed'["button"] = << >> /\ typed'["serial"] = typed["serial"]
  <2>1. "serial" \in K!Source /\ DOMAIN typed = K!Source
    BY DEF K!Source, Serially, KeysTyped
  <2>2. Tail(typed["button"]) = << >>
    BY <1>5
  <2> QED BY <1>5, <1>6, <2>1, <2>2
<1>8. KeysTyped'
  BY <1>4, <1>6 DEF Serially, KeysTyped
<1>9. ButtonRight' /\ button' \in BOOLEAN /\ button_pressed' \in BOOLEAN
  BY <1>1, <1>4, <1>7 DEF Serially, SerialInv, SerialTypes, ButtonRight
<1> QED BY <1>4, <1>7, <1>8, <1>9, SerialStill DEF Serially

\* USART_GetValid and USART_Peekc take nothing from the ring.
LEMMA RingLookedAt ==
    ASSUME Serially, K!USART_GetValid \/ K!USART_Peekc
    PROVE  KeysTyped' /\ SerialInv'
<1>1. UNCHANGED <<keybuf, key_flags, old_key_code, button_pressed, rx, peeked, esc_delay, meta_key,
                  who, button, scan, coming, down, cut, typed, wrong>>
  BY DEF K!USART_GetValid, K!USART_Peekc, K!decoder, K!serial, K!user, K!history
<1>2. \/ rx = << >> /\ kpc' = "poll"
      \/ rx # << >> /\ kpc' = "peek"
      \/ rx # << >> /\ rx[1] = K!Esc /\ kpc' = "peekbuf"
      \/ rx # << >> /\ rx[1] # K!Esc /\ kpc' = "getc"
  BY DEF K!USART_GetValid, K!USART_Peekc, Serially, SerialInv, Looking
<1>3. KeysTyped'
  BY <1>1 DEF Serially, KeysTyped
<1>4. SerialTypes' /\ ButtonRight' /\ Looking'
  BY <1>1, <1>2 DEF Serially, SerialInv, SerialTypes, ButtonRight, Looking
<1>5. (meta_key' => AltHeld') /\ (~meta_key' => Strings')
  BY <1>1, <1>2, StringsStay DEF Serially, SerialInv
<1> QED BY <1>3, <1>4, <1>5 DEF SerialInv

\* The first key is returned and the string is the rest.
LEMMA FirstReturned ==
    ASSUME Serially, NEW q, NEW a, Strung(q, a, rx \o coming, typed["serial"]), q # << >>,
           K!Return("serial", q[1].key, FALSE), NEW r \in Seq(Char), rx' = r,
           rx \o coming = q[1].chars \o (r \o coming), coming' = coming, esc_delay' = "off"
    PROVE  /\ DOMAIN typed' = K!Source /\ wrong' = FALSE /\ Strings'
           /\ typed'["button"] = typed["button"]
<1>1. typed["serial"] # << >> /\ typed["serial"][1] = OwedFor(q[1])
  BY StrungFirst
<1>2. typed["serial"][1].event = q[1].key
  BY <1>1 DEF OwedFor
<1>3. "serial" \in K!Source /\ "button" \in K!Source /\ DOMAIN typed = K!Source
  BY DEF K!Source, Serially, KeysTyped
<1>4. DOMAIN typed' = K!Source /\ wrong' = FALSE
      /\ typed' = [typed EXCEPT !["serial"] = Tail(typed["serial"])]
  BY <1>1, <1>2, <1>3, ReturnedRight DEF Serially
<1>5. typed'["serial"] = Tail(typed["serial"]) /\ typed'["button"] = typed["button"]
  BY <1>3, <1>4
<1>6. r \o coming \in Seq(Char)
  BY DEF Serially, SerialInv, SerialTypes
<1>7. PICK b : Strung(Tail(q), b, r \o coming, Tail(typed["serial"]))
  BY <1>6, StrungRest
<1>8. Waited(Tail(q))'
  BY DEF Waited
<1>9. Strings'
  BY <1>5, <1>7, <1>8 DEF Strings
<1> QED BY <1>4, <1>5, <1>9

\* A character that is not escape is a key, with alt if escape came before it.
LEMMA CharTaken ==
    ASSUME Serially, K!USART_Getc
    PROVE  KeysTyped' /\ SerialInv'
<1>1. /\ kpc = "getc" /\ rx # << >> /\ rx[1] # K!Esc /\ rx \in Seq(Char) /\ coming \in Seq(Char)
      /\ meta_key \in BOOLEAN
  BY DEF K!USART_Getc, Serially, SerialInv, Looking, SerialTypes
<1>2. /\ Head(rx) = rx[1] /\ Tail(rx) \in Seq(Char) /\ Len(rx) = Len(Tail(rx)) + 1
      /\ rx \o coming = <<rx[1]>> \o (Tail(rx) \o coming) /\ (rx \o coming)[1] = rx[1]
      /\ rx \o coming # << >>
  BY <1>1, FirstOf
<1>3. /\ kpc' = "poll" /\ rx' = Tail(rx) /\ meta_key' = FALSE
      /\ K!Return("serial", IF meta_key THEN [K!Plain(rx[1]) EXCEPT !.mods = @ \cup {"alt"}]
                            ELSE K!Plain(rx[1]), FALSE)
      /\ UNCHANGED <<keybuf, key_flags, old_key_code, button_pressed, peeked, esc_delay,
                     who, button, scan, coming, down, cut>>
  BY <1>1, <1>2 DEF K!USART_Getc, K!decoder, K!user
<1>4. DOMAIN typed' = K!Source /\ wrong' = FALSE /\ Strings' /\ typed'["button"] = typed["button"]
  <2>1. CASE ~meta_key
    <3>1. PICK q, a : Strung(q, a, rx \o coming, typed["serial"]) /\ Waited(q)
      BY <2>1 DEF Serially, SerialInv, Strings
    <3>2. esc_delay = "off"
      BY <3>1, <1>1 DEF Waited
    <3>3. /\ q # << >>
          /\ Opens(q[1], rx \o coming, typed["serial"])
      BY <3>1, <1>2, FirstKey
    <3>4. <<K!Esc>>[1] = K!Esc /\ <<K!Esc, "78">>[1] = K!Esc
      OBVIOUS
    <3>5. q[1].chars = <<rx[1]>> /\ q[1].key = K!Plain(rx[1])
      BY <3>3, <3>4, <1>1, <1>2 DEF Opens
    <3>6. K!Return("serial", q[1].key, FALSE)
      BY <3>5, <1>3, <2>1
    <3> QED BY <3>1, <3>2, <3>3, <3>5, <3>6, <1>2, <1>3, FirstReturned
  <2>2. CASE meta_key
    <3>1. AltHeld
      BY <2>2 DEF Serially, SerialInv
    <3>2. rx[1] = "78" /\ Tail(rx) = << >>
      BY <3>1 DEF AltHeld
    <3>3. K!Return("serial", AltX.key, FALSE)
      BY <3>2, <1>3, <2>2, AltXKey
    <3>4. typed["serial"] # << >> /\ typed["serial"][1].event = AltX.key /\ Tail(typed["serial"]) = << >>
      <4> DEFINE x == OwedFor(AltX)
      <4>1. typed["serial"] = <<x>>
        BY <3>1 DEF AltHeld
      <4>2. x.event = AltX.key
        BY AltXKey
      <4> HIDE DEF x
      <4> QED BY <4>1, <4>2
    <3>5. "serial" \in K!Source /\ "button" \in K!Source /\ DOMAIN typed = K!Source
      BY DEF K!Source, Serially, KeysTyped
    <3>6. DOMAIN typed' = K!Source /\ wrong' = FALSE
          /\ typed' = [typed EXCEPT !["serial"] = Tail(typed["serial"])]
      BY <3>3, <3>4, <3>5, ReturnedRight DEF Serially
    <3>7. typed'["serial"] = << >> /\ typed'["button"] = typed["button"]
      BY <3>4, <3>5, <3>6
    <3>8. PICK a : Strung(<< >>, a, << >>, << >>)
      BY StrungNone
    <3>9. rx' \o coming' = << >> /\ esc_delay' = "off"
      BY <3>1, <3>2, <1>3 DEF AltHeld
    <3>10. Waited(<< >>)'
      BY <3>9 DEF Waited
    <3>11. Strings'
      BY <3>7, <3>8, <3>9, <3>10 DEF Strings
    <3> QED BY <3>6, <3>7, <3>11
  <2> QED BY <1>1, <2>1, <2>2
<1>5. KeysTyped'
  BY <1>3, <1>4 DEF Serially, KeysTyped
<1>6. SerialTypes' /\ ButtonRight' /\ Looking'
  <2>1. Len(rx') < RxBufLen
    <3>1. Len(Tail(rx)) \in Nat /\ Len(rx) < RxBufLen /\ RxBufLen \in Nat
      BY <1>1, <1>2, KeyboardAssumption DEF Serially, SerialInv, SerialTypes
    <3> QED BY <3>1, <1>2, <1>3
  <2> QED BY <2>1, <1>2, <1>3, <1>4 DEF Serially, SerialInv, SerialTypes, ButtonRight, Looking
<1> QED BY <1>3, <1>4, <1>5, <1>6 DEF SerialInv

\* USART_PeekBuf copies the first eight characters of the ring.
LEMMA BufPeeked ==
    ASSUME Serially, K!USART_PeekBuf
    PROVE  KeysTyped' /\ SerialInv'
<1>1. /\ kpc = "peekbuf" /\ rx # << >> /\ rx[1] = K!Esc /\ rx \in Seq(Char) /\ coming \in Seq(Char)
      /\ meta_key \in BOOLEAN
  BY DEF K!USART_PeekBuf, Serially, SerialInv, Looking, SerialTypes
<1> DEFINE n == IF Len(rx) < 8 THEN Len(rx) ELSE 8
<1>2. /\ kpc' = "match" /\ peeked' = SubSeq(rx, 1, n)
      /\ UNCHANGED <<key_flags, old_key_code, button_pressed, rx, esc_delay, meta_key,
                     who, button, scan, coming, down, cut, typed, wrong>>
  BY DEF K!USART_PeekBuf, K!user, K!history
<1>4. n \in 0 .. Len(rx) /\ n > 0 /\ n <= 8 /\ n \in Nat /\ (n = Len(rx) \/ n = 8)
  <2>1. Len(rx) \in Nat /\ Len(rx) > 0
    BY <1>1
  <2> DEFINE l == Len(rx)
  <2> HIDE DEF l
  <2>2. l \in Nat /\ l > 0
    BY <2>1 DEF l
  <2> QED BY <2>2 DEF l
<1> HIDE DEF n
<1>5. /\ peeked' \in Seq(Char) /\ Len(peeked') = n /\ \A i \in 1 .. n : peeked'[i] = rx[i]
  BY <1>1, <1>2, <1>4, Beginning
<1>6. peeked' # << >> /\ Len(peeked') <= 8 /\ Len(peeked') <= Len(rx)
  BY <1>4, <1>5
<1>7. KeysTyped'
  BY <1>2 DEF Serially, KeysTyped
<1>8. SerialTypes' /\ ButtonRight' /\ Looking'
  BY <1>1, <1>2, <1>5, <1>6 DEF Serially, SerialInv, SerialTypes, ButtonRight, Looking
<1>9. ~meta_key
  <2>1. rx # <<"78">>
    <3>1. <<"78">>[1] # K!Esc
      BY DEF K!Esc
    <3> QED BY <3>1, <1>1
  <2> QED BY <2>1 DEF Serially, SerialInv, AltHeld
<1>10. Strings'
  <2>1. PICK q, a : Strung(q, a, rx \o coming, typed["serial"]) /\ Waited(q)
    BY <1>9 DEF Serially, SerialInv, Strings
  <2>2. ASSUME esc_delay = "over" PROVE Len(q[1].chars) <= Len(peeked')
    <3>1. q # << >> /\ Len(q[1].chars) <= Len(rx)
      BY <2>1, <2>2 DEF Waited
    <3>2. q[1] \in TermKey
      BY <2>1, <3>1, StrungFirst
    <3>3. Len(q[1].chars) <= 5 /\ Len(q[1].chars) \in Nat
      BY <3>2, KeyChars
    <3> QED BY <3>1, <3>3, <1>4, <1>5
  <2>3. Waited(q)'
    BY <2>1, <2>2, <1>2 DEF Waited
  <2> QED BY <2>1, <2>3, <1>2 DEF Strings
<1> QED BY <1>2, <1>7, <1>8, <1>9, <1>10 DEF SerialInv

\* At a match, the first key begins with escape.
LEMMA AtMatch ==
    ASSUME Serially, kpc = "match"
    PROVE  /\ ~meta_key /\ rx # << >> /\ rx[1] = K!Esc /\ rx \in Seq(Char) /\ coming \in Seq(Char)
           /\ peeked \in Seq(Char) /\ peeked # << >> /\ Len(peeked) <= Len(rx)
           /\ \A i \in 1 .. Len(peeked) : peeked[i] = rx[i]
           /\ Head(rx) = rx[1] /\ Tail(rx) \in Seq(Char) /\ Len(rx) = Len(Tail(rx)) + 1
           /\ rx \o coming = <<rx[1]>> \o (Tail(rx) \o coming) /\ (rx \o coming)[1] = rx[1]
           /\ rx \o coming # << >> /\ rx \o coming \in Seq(Char)
           /\ \A i \in 1 .. Len(rx) : (rx \o coming)[i] = rx[i]
           /\ Len(rx \o coming) = Len(rx) + Len(coming)
<1>1. /\ rx # << >> /\ rx[1] = K!Esc /\ rx \in Seq(Char) /\ coming \in Seq(Char)
      /\ peeked \in Seq(Char) /\ peeked # << >> /\ Len(peeked) <= Len(rx)
      /\ \A i \in 1 .. Len(peeked) : peeked[i] = rx[i]
  BY DEF Serially, SerialInv, SerialTypes, Looking
<1>2. ~meta_key
  <2>1. rx # <<"78">>
    <3>1. <<"78">>[1] # K!Esc
      BY DEF K!Esc
    <3> QED BY <3>1, <1>1
  <2> QED BY <2>1 DEF Serially, SerialInv, AltHeld
<1>3. /\ Head(rx) = rx[1] /\ Tail(rx) \in Seq(Char) /\ Len(rx) = Len(Tail(rx)) + 1
      /\ rx \o coming = <<rx[1]>> \o (Tail(rx) \o coming) /\ (rx \o coming)[1] = rx[1]
      /\ rx \o coming # << >>
  BY <1>1, FirstOf
<1>4. /\ rx \o coming \in Seq(Char) /\ Len(rx \o coming) = Len(rx) + Len(coming)
      /\ \A i \in 1 .. Len(rx) : (rx \o coming)[i] = rx[i]
  BY <1>1
<1> QED BY <1>1, <1>2, <1>3, <1>4

\* Nothing is taken, and the escape is waited for.
LEMMA EscapeAwaited ==
    ASSUME Serially, K!StartEscape \/ K!AwaitEscape
    PROVE  KeysTyped' /\ SerialInv'
<1>1. /\ kpc = "match" /\ kpc' = "poll" /\ peeked' = << >> /\ esc_delay' = "on"
      /\ UNCHANGED <<keybuf, key_flags, old_key_code, button_pressed, rx, meta_key,
                     who, button, scan, coming, down, cut, typed, wrong>>
  BY DEF K!StartEscape, K!AwaitEscape, K!decoder, K!user, K!history
<1>2. ~meta_key /\ rx # << >> /\ rx[1] = K!Esc
  BY <1>1, AtMatch
<1>3. PICK q, a : Strung(q, a, rx \o coming, typed["serial"])
  BY <1>2 DEF Serially, SerialInv, Strings
<1>4. Waited(q)'
  BY <1>1, <1>2 DEF Waited
<1>5. Strings'
  BY <1>1, <1>3, <1>4 DEF Strings
<1>6. KeysTyped'
  BY <1>1 DEF Serially, KeysTyped
<1>7. SerialTypes' /\ ButtonRight' /\ Looking'
  BY <1>1 DEF Serially, SerialInv, SerialTypes, ButtonRight, Looking
<1> QED BY <1>1, <1>2, <1>5, <1>6, <1>7 DEF SerialInv

\* The cardinality of the model is that of the theorems.
LEMMA SameCount == \A S : K!Cardinality(S) = Cardinality(S)
BY Zenon DEF K!Cardinality, Cardinality

\* The table is finite.
LEMMA MatchesFinite == IsFiniteSet(K!Matches)
<1>1. IsFiniteSet(K!Sequence)
  <2> DEFINE a == <<"48">>
             b == <<"5b", "41">>
             c == <<"5b", "31", "7e">>
             d == <<"5b", "31", "31", "7e">>
  <2>1. K!Sequence = ((({} \cup {a}) \cup {b}) \cup {c}) \cup {d}
    BY DEF K!Sequence
  <2> HIDE DEF a, b, c, d
  <2>2. IsFiniteSet({} \cup {a})
    BY FS_EmptySet, FS_AddElement
  <2>3. IsFiniteSet(({} \cup {a}) \cup {b})
    BY <2>2, FS_AddElement
  <2>4. IsFiniteSet((({} \cup {a}) \cup {b}) \cup {c})
    BY <2>3, FS_AddElement
  <2>5. IsFiniteSet(((({} \cup {a}) \cup {b}) \cup {c}) \cup {d})
    BY <2>4, FS_AddElement
  <2> QED BY <2>1, <2>5
<1>2. K!Matches \in SUBSET K!Sequence
  BY DEF K!Matches
<1> QED BY <1>1, <1>2, FS_Subset

\* A sequence matches if the ring holds all of it.
LEMMA MatchIs ==
    ASSUME Serially, kpc = "match", NEW r \in K!Sequence
    PROVE  r \in K!Matches <=> /\ Len(<<K!Esc>> \o r) <= Len(peeked)
                               /\ \A i \in 1 .. Len(<<K!Esc>> \o r) : (<<K!Esc>> \o r)[i] = peeked[i]
<1>1. <<K!Esc>> \o r \in Seq(Char) /\ peeked \in Seq(Char)
  BY EscapeIs, AtMatch
<1>2. r \in K!Matches <=> K!IsPrefix(<<K!Esc>> \o r, peeked)
  BY DEF K!Matches
<1> DEFINE c == <<K!Esc>> \o r
<1>3. c \in Seq(Char)
  BY <1>1
<1> HIDE DEF c
<1>4. K!IsPrefix(c, peeked) <=> Len(c) <= Len(peeked) /\ \A i \in 1 .. Len(c) : c[i] = peeked[i]
  BY <1>1, <1>3, PrefixIs
<1> QED BY <1>2, <1>4 DEF c

\* The sequence that is there is the first key.
LEMMA MatchIsFirst ==
    ASSUME Serially, kpc = "match", NEW s \in K!Matches,
           NEW q, NEW a, Strung(q, a, rx \o coming, typed["serial"])
    PROVE  q # << >> /\ q[1].chars = <<K!Esc>> \o s /\ q[1].key = K!Event(s, {}, FALSE)
<1> DEFINE c == <<K!Esc>> \o s
           x == rx \o coming
<1>1. s \in K!Sequence
  BY DEF K!Matches
<1>2. /\ c \in Seq(Char) /\ Len(c) = Len(s) + 1 /\ c[1] = K!Esc
      /\ (\A i \in 1 .. Len(s) : c[i + 1] = s[i])
      /\ Len(s) > 0 /\ s[1] \in {"48", "5b"} /\ Len(s) \in Nat /\ s \in Seq(Char)
  BY <1>1, EscapeIs
<1>3. Len(c) <= Len(peeked) /\ \A i \in 1 .. Len(c) : c[i] = peeked[i]
  BY <1>1, MatchIs
<1>4. Len(c) <= Len(rx) /\ \A i \in 1 .. Len(c) : x[i] = c[i]
  <2>1. /\ Len(peeked) <= Len(rx) /\ \A i \in 1 .. Len(peeked) : peeked[i] = rx[i]
        /\ \A i \in 1 .. Len(rx) : x[i] = rx[i]
    BY AtMatch
  <2>2. Len(c) \in Nat /\ Len(peeked) \in Nat /\ Len(rx) \in Nat
    BY <1>2, AtMatch
  <2> HIDE DEF c, x
  <2>3. Len(c) <= Len(rx)
    BY <1>3, <2>1, <2>2
  <2>4. \A i \in 1 .. Len(c) : i \in 1 .. Len(peeked) /\ i \in 1 .. Len(rx)
    BY <1>3, <2>1, <2>2
  <2> QED BY <2>1, <2>3, <2>4, <1>3
<1>5. /\ q # << >> /\ q[1] \in TermKey /\ Opens(q[1], x, typed["serial"])
      /\ Len(q[1].chars) <= Len(x) /\ \A j \in 1 .. Len(q[1].chars) : x[j] = q[1].chars[j]
  <2>1. x # << >>
    BY AtMatch
  <2> HIDE DEF c
  <2> QED BY <2>1, FirstKey, ZenonT(40)
<1>6. x[1] = K!Esc /\ x \in Seq(Char) /\ Len(x) \in Nat /\ Len(x) >= Len(c)
  <2>1. x[1] = K!Esc /\ x \in Seq(Char) /\ Len(x) = Len(rx) + Len(coming) /\ Len(coming) \in Nat
        /\ Len(rx) \in Nat
    BY AtMatch
  <2> HIDE DEF c, x
  <2> QED BY <2>1, <1>4, <1>2
<1> HIDE DEF c, x
<1>7. x[2] = s[1] /\ Len(x) >= 2
  <2>1. 1 \in 1 .. Len(s) /\ 2 \in 1 .. Len(c)
    BY <1>2
  <2>2. c[1 + 1] = s[1]
    BY <2>1, <1>2
  <2> QED BY <2>1, <2>2, <1>2, <1>4, <1>6
<1>8. x # <<K!Esc>> /\ x # <<K!Esc, "78">>
  <2>1. Len(<<K!Esc>>) = 1 /\ <<K!Esc, "78">>[2] = "78" /\ s[1] # "78"
    BY <1>2
  <2> QED BY <2>1, <1>7
<1>9. PICK r \in K!Sequence : q[1].chars = <<K!Esc>> \o r /\ q[1].key = K!Event(r, {}, FALSE)
  BY <1>5, <1>6, <1>8 DEF Opens
<1> DEFINE d == <<K!Esc>> \o r
<1>10. /\ d \in Seq(Char) /\ Len(d) = Len(r) + 1 /\ (\A i \in 1 .. Len(r) : d[i + 1] = r[i])
       /\ Len(r) \in Nat /\ r \in Seq(Char)
  BY EscapeIs
<1>11. \A j \in 1 .. Len(d) : x[j] = d[j]
  BY <1>5, <1>9
<1> HIDE DEF d
<1>12. CASE Len(s) <= Len(r)
  <2>1. ASSUME NEW i \in 1 .. Len(s) PROVE s[i] = r[i]
    <3>1. i + 1 \in 1 .. Len(c) /\ i + 1 \in 1 .. Len(d) /\ i \in 1 .. Len(r)
      BY <1>2, <1>10, <1>12
    <3> QED BY <3>1, <1>2, <1>4, <1>10, <1>11
  <2>2. s = r
    BY <1>1, <1>12, <2>1, SequencesDiffer
  <2> QED BY <2>2, <1>5, <1>9
<1>13. CASE Len(r) <= Len(s)
  <2>1. ASSUME NEW i \in 1 .. Len(r) PROVE r[i] = s[i]
    <3>1. i + 1 \in 1 .. Len(c) /\ i + 1 \in 1 .. Len(d) /\ i \in 1 .. Len(s)
      BY <1>2, <1>10, <1>13
    <3> QED BY <3>1, <1>2, <1>4, <1>10, <1>11
  <2>2. r = s
    BY <1>1, <1>13, <2>1, SequencesDiffer
  <2> QED BY <2>2, <1>5, <1>9
<1>14. Len(s) <= Len(r) \/ Len(r) <= Len(s)
  <2> DEFINE m == Len(s)
             n == Len(r)
  <2>1. m \in Nat /\ n \in Nat
    BY <1>2, <1>10
  <2> HIDE DEF m, n
  <2>2. m <= n \/ n <= m
    BY <2>1
  <2> QED BY <2>2 DEF m, n
<1> QED BY <1>12, <1>13, <1>14

\* The sequence that matches is returned and taken from the ring.
LEMMA SequenceTaken ==
    ASSUME Serially, K!TakeSequence
    PROVE  KeysTyped' /\ SerialInv'
<1> DEFINE s == CHOOSE x \in K!Matches : TRUE
           c == <<K!Esc>> \o s
<1>1. /\ kpc = "match" /\ kpc' = "poll" /\ Cardinality(K!Matches) = 1
      /\ K!USART_GetBuf(c) /\ K!Return("serial", K!Event(s, {}, FALSE), FALSE)
      /\ esc_delay' = "off" /\ peeked' = << >>
      /\ UNCHANGED <<keybuf, key_flags, old_key_code, button_pressed, meta_key,
                     who, button, scan, coming, down, cut>>
  <2>1. K!USART_GetBuf(c) /\ K!Return("serial", K!Event(s, {}, FALSE), FALSE)
    BY DEF K!TakeSequence
  <2> HIDE DEF s, c
  <2>2. kpc = "match" /\ kpc' = "poll" /\ esc_delay' = "off" /\ peeked' = << >>
    BY DEF K!TakeSequence
  <2>3. UNCHANGED <<keybuf, key_flags, old_key_code, button_pressed, meta_key,
                    who, button, scan, coming, down, cut>>
    BY DEF K!TakeSequence, K!decoder, K!user
  <2>4. Cardinality(K!Matches) = 1
    BY SameCount DEF K!TakeSequence
  <2> QED BY <2>1, <2>2, <2>3, <2>4
<1>2. s \in K!Matches
  <2>1. K!Matches # {}
    BY <1>1, FS_EmptySet
  <2> QED BY <2>1
<1>3. s \in K!Sequence
  BY <1>2 DEF K!Matches
<1> HIDE DEF s
<1>4. c \in Seq(Char) /\ Len(c) \in Nat /\ Len(c) > 0
  BY <1>3, EscapeIs
<1>5. Len(c) <= Len(peeked) /\ \A i \in 1 .. Len(c) : c[i] = peeked[i]
  BY <1>1, <1>2, <1>3, MatchIs
<1> HIDE DEF c
<1>6. Len(c) <= Len(rx) /\ \A i \in 1 .. Len(c) : c[i] = rx[i]
  <2>1. /\ Len(peeked) <= Len(rx) /\ \A i \in 1 .. Len(peeked) : peeked[i] = rx[i]
        /\ Len(peeked) \in Nat /\ Len(rx) \in Nat
    BY <1>1, AtMatch
  <2>2. \A i \in 1 .. Len(c) : i \in 1 .. Len(peeked)
    BY <1>4, <1>5, <2>1
  <2> QED BY <1>4, <1>5, <2>1, <2>2
<1> DEFINE r == SubSeq(rx, Len(c) + 1, Len(rx))
<1>7. rx \in Seq(Char) /\ coming \in Seq(Char) /\ ~meta_key
  BY <1>1, AtMatch
<1>8. r \in Seq(Char) /\ rx = c \o r
  BY <1>4, <1>6, <1>7, SplitIs
<1>9. rx' = r
  <2>1. K!IsPrefix(c, rx)
    BY <1>4, <1>6, <1>7, PrefixIs
  <2> QED BY <2>1, <1>1 DEF K!USART_GetBuf
<1> HIDE DEF r
<1>10. rx \o coming = c \o (r \o coming)
  BY <1>4, <1>7, <1>8, Regrouped, SMTT(30)
<1>11. PICK q, a : Strung(q, a, rx \o coming, typed["serial"])
  BY <1>7 DEF Serially, SerialInv, Strings
<1>12. q # << >> /\ q[1].chars = c /\ q[1].key = K!Event(s, {}, FALSE)
  BY <1>1, <1>2, <1>11, MatchIsFirst DEF c
<1>13. DOMAIN typed' = K!Source /\ wrong' = FALSE /\ Strings' /\ typed'["button"] = typed["button"]
  BY <1>1, <1>8, <1>9, <1>10, <1>11, <1>12, FirstReturned
<1>14. KeysTyped'
  BY <1>1, <1>13 DEF Serially, KeysTyped
<1>15. Len(rx') < RxBufLen
  <2>1. Len(rx) = Len(c) + Len(r) /\ Len(r) \in Nat /\ Len(rx) \in Nat
    BY <1>4, <1>7, <1>8, ConcatProperties
  <2>2. Len(rx) < RxBufLen /\ RxBufLen \in Nat
    BY KeyboardAssumption DEF Serially, SerialInv, SerialTypes
  <2> QED BY <2>1, <2>2, <1>1, <1>4, <1>9
<1>16. SerialTypes' /\ ButtonRight' /\ Looking'
  BY <1>1, <1>8, <1>9, <1>13, <1>15 DEF Serially, SerialInv, SerialTypes, ButtonRight, Looking
<1> QED BY <1>1, <1>7, <1>13, <1>14, <1>16 DEF SerialInv

\* No sequence came in time: what is there is a key that the terminal pauses after.
LEMMA NoSequence ==
    ASSUME Serially, kpc = "match", Cardinality(K!Matches) = 0, esc_delay = "over"
    PROVE  \E q, a : /\ Strung(q, a, rx \o coming, typed["serial"])
                     /\ q # << >> /\ Len(typed["serial"]) = 1 /\ coming = << >> /\ peeked = rx
                     /\ \/ q[1] = BareEsc /\ rx = <<K!Esc>>
                        \/ q[1] = AltX /\ rx = <<K!Esc, "78">>
<1>1. PICK q, a : Strung(q, a, rx \o coming, typed["serial"]) /\ Waited(q)
  BY AtMatch DEF Serially, SerialInv, Strings
<1>2. q # << >> /\ Len(q[1].chars) <= Len(rx) /\ Len(q[1].chars) <= Len(peeked)
  BY <1>1 DEF Waited
<1> DEFINE x == rx \o coming
           n == Len(q[1].chars)
<1>3. /\ Opens(q[1], x, typed["serial"]) /\ q[1] \in TermKey
      /\ \A j \in 1 .. n : x[j] = q[1].chars[j]
  <2>1. x # << >>
    BY AtMatch
  <2>2. Strung(q, a, x, typed["serial"])
    BY <1>1
  <2> HIDE DEF x
  <2>3. Opens(q[1], x, typed["serial"])
    BY <2>1, <2>2, FirstKey
  <2>4. q[1] \in TermKey
    BY <2>1, <2>2, FirstKey
  <2>5. \A j \in 1 .. Len(q[1].chars) : x[j] = q[1].chars[j]
    BY <2>1, <2>2, FirstKey
  <2> QED BY <2>3, <2>4, <2>5
<1>4. n \in Nat /\ n <= Len(rx) /\ n <= Len(peeked)
  BY <1>2, <1>3, KeyChars
<1>5. /\ rx \in Seq(Char) /\ coming \in Seq(Char) /\ peeked \in Seq(Char) /\ Len(peeked) <= Len(rx)
      /\ \A i \in 1 .. Len(peeked) : peeked[i] = rx[i]
      /\ x[1] = K!Esc /\ Len(x) = Len(rx) + Len(coming)
      /\ (\A i \in 1 .. Len(rx) : x[i] = rx[i]) /\ x \in Seq(Char)
  BY AtMatch
<1>6. K!Matches = {}
  BY MatchesFinite, FS_EmptySet
<1> HIDE DEF x, n
<1>7. ASSUME NEW r \in K!Sequence, q[1].chars = <<K!Esc>> \o r PROVE FALSE
  <2> DEFINE c == <<K!Esc>> \o r
  <2>1. Len(c) = n /\ \A j \in 1 .. n : c[j] = x[j]
    BY <1>3, <1>7 DEF n
  <2> HIDE DEF c
  <2>2. \A j \in 1 .. n : j \in 1 .. Len(peeked) /\ j \in 1 .. Len(rx)
    BY <1>4, <1>5
  <2>3. \A j \in 1 .. n : c[j] = peeked[j]
    BY <2>1, <2>2, <1>5
  <2>4. r \in K!Matches
    BY <1>4, <2>1, <2>3, MatchIs DEF c
  <2> QED BY <2>4, <1>6
<1>8. \/ q[1] = BareEsc /\ x = <<K!Esc>> /\ Len(typed["serial"]) = 1
      \/ q[1] = AltX /\ x = <<K!Esc, "78">> /\ Len(typed["serial"]) = 1
  BY <1>3, <1>5, <1>7 DEF Opens
<1>9. Len(x) = n
  <2>1. Len(<<K!Esc>>) = 1 /\ Len(<<K!Esc, "78">>) = 2
    OBVIOUS
  <2>2. x = q[1].chars
    BY <1>8, PausedChars
  <2> QED BY <2>2 DEF n
<1>10. Len(rx) = n /\ Len(coming) = 0 /\ Len(peeked) = n
  <2> DEFINE l == Len(rx)
             m == Len(coming)
             p == Len(peeked)
  <2>1. l \in Nat /\ m \in Nat /\ p \in Nat /\ n \in Nat /\ n = l + m /\ n <= l /\ n <= p /\ p <= l
    BY <1>4, <1>5, <1>9
  <2> HIDE DEF l, m, p
  <2>2. l = n /\ m = 0 /\ p = n
    BY <2>1
  <2> QED BY <2>2 DEF l, m, p
<1>11. coming = << >> /\ x = rx
  <2>1. coming = << >>
    BY <1>5, <1>10
  <2> QED BY <2>1, <1>5 DEF x
<1>12. peeked = rx
  BY <1>5, <1>10
<1> QED BY <1>1, <1>2, <1>8, <1>11, <1>12

\* The rest of one character is nothing.
LEMMA NoneLeft ==
    ASSUME NEW S, NEW x \in Seq(S), Len(x) = 1
    PROVE  Tail(x) = << >>
<1>1. x # << >>
  OBVIOUS
<1>2. Tail(x) \in Seq(S) /\ Len(Tail(x)) = 0
  BY <1>1, HeadTailProperties
<1> QED BY <1>2, EmptySeq

\* After the delay an escape is itself, or alt for the character behind it.
LEMMA EscapeResolved ==
    ASSUME Serially, K!EscapeOver
    PROVE  KeysTyped' /\ SerialInv'
<1>1. /\ kpc = "match" /\ kpc' = "poll" /\ esc_delay = "over"
      /\ esc_delay' = "off" /\ peeked' = << >>
      /\ IF Len(peeked) = 2
         THEN meta_key' = TRUE /\ UNCHANGED <<typed, wrong>>
         ELSE K!Return("serial", K!Event(<<K!Esc>>, {}, FALSE), FALSE) /\ UNCHANGED meta_key
      /\ UNCHANGED <<keybuf, key_flags, old_key_code, button_pressed,
                     who, button, scan, coming, down, cut>>
  BY DEF K!EscapeOver, K!decoder, K!user, K!history
<1>2. Cardinality(K!Matches) = 0
  BY SameCount DEF K!EscapeOver
<1>3. PICK q, a :
          /\ Strung(q, a, rx \o coming, typed["serial"])
          /\ q # << >> /\ Len(typed["serial"]) = 1 /\ coming = << >> /\ peeked = rx
          /\ \/ q[1] = BareEsc /\ rx = <<K!Esc>>
             \/ q[1] = AltX /\ rx = <<K!Esc, "78">>
  BY <1>1, <1>2, NoSequence
<1>4. typed["serial"] # << >> /\ typed["serial"][1] = OwedFor(q[1])
      /\ typed["serial"] \in Seq({OwedFor(t) : t \in TermKey})
  BY <1>3, StrungFirst DEF Strung
<1>5. /\ ~meta_key /\ Tail(rx) \in Seq(Char) /\ Len(rx) = Len(Tail(rx)) + 1 /\ rx \in Seq(Char)
      /\ rx' = Tail(rx)
  <2>1. rx # << >>
    BY <1>1, AtMatch
  <2>2. rx' = Tail(rx)
    BY <2>1 DEF K!EscapeOver
  <2> QED BY <2>2, <1>1, AtMatch
<1>6. Len(rx') < RxBufLen
  <2>1. Len(Tail(rx)) \in Nat /\ Len(rx) < RxBufLen /\ RxBufLen \in Nat
    BY <1>5, KeyboardAssumption DEF Serially, SerialInv, SerialTypes
  <2> QED BY <2>1, <1>5
<1>7. CASE q[1] = AltX /\ rx = <<K!Esc, "78">>
  <2>1. Len(peeked) = 2 /\ Tail(rx) = <<"78">>
    BY <1>3, <1>7
  <2>2. meta_key' = TRUE /\ UNCHANGED <<typed, wrong>>
    BY <1>1, <2>1
  <2>3. typed["serial"] = <<OwedFor(AltX)>>
    BY <1>3, <1>4, <1>7
  <2>4. AltHeld'
    BY <1>1, <1>3, <1>5, <2>1, <2>2, <2>3 DEF AltHeld
  <2>5. KeysTyped'
    BY <1>1, <2>2 DEF Serially, KeysTyped
  <2>6. SerialTypes' /\ ButtonRight' /\ Looking'
    BY <1>1, <1>5, <1>6, <2>2 DEF Serially, SerialInv, SerialTypes, ButtonRight, Looking
  <2> QED BY <2>2, <2>4, <2>5, <2>6 DEF SerialInv
<1>8. CASE q[1] = BareEsc /\ rx = <<K!Esc>>
  <2>1. Len(peeked) = 1 /\ Tail(rx) = << >>
    BY <1>3, <1>8
  <2>2. meta_key' = meta_key /\ K!Return("serial", K!Event(<<K!Esc>>, {}, FALSE), FALSE)
    <3>1. Len(peeked) # 2
      BY <2>1
    <3> QED BY <3>1, <1>1
  <2>3. typed["serial"][1].event = K!Event(<<K!Esc>>, {}, FALSE)
    BY <1>4, <1>8, AltXKey
  <2>4. "serial" \in K!Source /\ "button" \in K!Source /\ DOMAIN typed = K!Source
    BY DEF K!Source, Serially, KeysTyped
  <2>5. DOMAIN typed' = K!Source /\ wrong' = FALSE
        /\ typed' = [typed EXCEPT !["serial"] = Tail(typed["serial"])]
    BY <1>4, <2>2, <2>3, <2>4, ReturnedRight DEF Serially
  <2>6. Tail(typed["serial"]) = << >>
    BY <1>3, <1>4, NoneLeft
  <2>7. typed'["serial"] = << >> /\ typed'["button"] = typed["button"]
    BY <2>4, <2>5, <2>6
  <2>8. PICK b : Strung(<< >>, b, << >>, << >>)
    BY StrungNone
  <2>9. rx' \o coming' = << >>
    BY <1>1, <1>3, <1>5, <2>1
  <2>10. Waited(<< >>)'
    BY <1>1 DEF Waited
  <2>11. Strings'
    BY <2>7, <2>8, <2>9, <2>10 DEF Strings
  <2>12. KeysTyped'
    BY <1>1, <2>5 DEF Serially, KeysTyped
  <2>13. SerialTypes' /\ ButtonRight' /\ Looking'
    BY <1>1, <1>5, <1>6, <2>2, <2>7 DEF Serially, SerialInv, SerialTypes, ButtonRight, Looking
  <2> QED BY <1>5, <2>2, <2>11, <2>12, <2>13 DEF SerialInv
<1> QED BY <1>3, <1>7, <1>8

\* The delay runs out only when the whole key is in the ring.
LEMMA TimePasses ==
    ASSUME Serially, K!Expire
    PROVE  KeysTyped' /\ SerialInv'
<1>1. /\ esc_delay = "on" /\ coming = << >> /\ (kpc = "match" => Len(peeked) = Len(rx))
      /\ esc_delay' = "over"
      /\ UNCHANGED <<kpc, keybuf, key_flags, old_key_code, button_pressed, rx, peeked, meta_key,
                     who, button, scan, coming, down, cut, typed, wrong>>
  BY DEF K!Expire, K!decoder, K!user, K!history
<1>2. ~meta_key /\ rx \in Seq(Char)
  BY <1>1 DEF Serially, SerialInv, AltHeld, SerialTypes
<1>3. PICK q, a : Strung(q, a, rx \o coming, typed["serial"]) /\ Waited(q)
  BY <1>2 DEF Serially, SerialInv, Strings
<1>4. rx # << >> /\ rx[1] = K!Esc
  BY <1>1, <1>3 DEF Waited
<1>5. rx \o coming = rx
  BY <1>1, <1>2
<1>6. q # << >> /\ Len(q[1].chars) <= Len(rx)
  BY <1>3, <1>4, <1>5, FirstKey
<1>7. Waited(q)'
  BY <1>1, <1>4, <1>6 DEF Waited
<1>8. Strings'
  BY <1>1, <1>3, <1>7 DEF Strings
<1>9. KeysTyped'
  BY <1>1 DEF Serially, KeysTyped
<1>10. SerialTypes' /\ ButtonRight' /\ Looking'
  BY <1>1 DEF Serially, SerialInv, SerialTypes, ButtonRight, Looking
<1> QED BY <1>1, <1>2, <1>8, <1>9, <1>10 DEF SerialInv

\* The interrupt stores a character where there is room.
LEMMA CharReceived ==
    ASSUME Serially, K!ISR_USART, ~slip'
    PROVE  KeysTyped' /\ SerialInv'
<1>1. /\ coming # << >> /\ coming \in Seq(Char) /\ rx \in Seq(Char) /\ RxBufLen \in Nat
      /\ Len(rx) < RxBufLen
  BY KeyboardAssumption DEF K!ISR_USART, Serially, SerialInv, SerialTypes
<1> DEFINE y == Append(rx, Head(coming))
<1>2. /\ y \in Seq(Char) /\ Tail(coming) \in Seq(Char) /\ y \o Tail(coming) = rx \o coming
      /\ Len(y) = Len(rx) + 1 /\ Len(coming) = Len(Tail(coming)) + 1
      /\ \A i \in 1 .. Len(rx) : y[i] = rx[i]
  BY <1>1, OneMoves
<1> HIDE DEF y
<1>3. Len(rx) \in Nat /\ Len(Tail(coming)) \in Nat
  BY <1>1, <1>2
<1>4. Len(rx) + 1 # RxBufLen /\ Len(y) < RxBufLen /\ Len(rx) <= Len(y)
  <2>1. Len(rx) + 1 # RxBufLen
    BY DEF K!ISR_USART, K!Slips
  <2> QED BY <2>1, <1>1, <1>2, <1>3
<1>5. /\ rx' = y /\ coming' = Tail(coming)
      /\ UNCHANGED <<kpc, keybuf, key_flags, old_key_code, button_pressed, peeked, esc_delay, meta_key,
                     who, button, scan, down, cut, typed, wrong>>
  BY <1>4 DEF K!ISR_USART, K!decoder, K!history, y
<1>6. rx # << >> => y # << >> /\ y[1] = rx[1]
  <2>1. rx # << >> => 1 \in 1 .. Len(rx)
    BY <1>1
  <2>2. y # << >>
    BY <1>2, <1>3
  <2> QED BY <2>1, <2>2, <1>2
<1>7. ASSUME kpc = "match"
      PROVE  /\ peeked # << >> /\ Len(peeked) <= Len(y)
             /\ \A i \in 1 .. Len(peeked) : peeked[i] = y[i]
  <2>1. /\ peeked \in Seq(Char) /\ peeked # << >> /\ Len(peeked) <= Len(rx)
        /\ \A i \in 1 .. Len(peeked) : peeked[i] = rx[i]
    BY <1>7, AtMatch
  <2>2. Len(peeked) \in Nat /\ \A i \in 1 .. Len(peeked) : i \in 1 .. Len(rx)
    BY <2>1, <1>3
  <2> QED BY <2>1, <2>2, <1>2, <1>3, <1>4
<1>8. ~meta_key
  BY <1>1 DEF Serially, SerialInv, AltHeld
<1>9. Strings'
  <2>1. PICK q, a : Strung(q, a, rx \o coming, typed["serial"]) /\ Waited(q)
    BY <1>8 DEF Serially, SerialInv, Strings
  <2>2. ASSUME esc_delay = "over" PROVE q # << >> /\ Len(q[1].chars) <= Len(y)
    <3>1. q # << >> /\ Len(q[1].chars) <= Len(rx)
      BY <2>1, <2>2 DEF Waited
    <3>2. q[1] \in TermKey
      BY <2>1, <3>1, StrungFirst
    <3>3. Len(q[1].chars) \in Nat
      BY <3>2, KeyChars
    <3> DEFINE m == Len(q[1].chars)
               l == Len(rx)
    <3>4. m \in Nat /\ l \in Nat /\ m <= l /\ Len(y) = l + 1
      BY <3>1, <3>3, <1>2, <1>3
    <3> HIDE DEF m, l
    <3>5. m <= Len(y)
      BY <3>4
    <3> QED BY <3>1, <3>5 DEF m
  <2>3. Waited(q)'
    BY <2>1, <2>2, <1>5, <1>6 DEF Waited
  <2> QED BY <2>1, <2>3, <1>2, <1>5 DEF Strings
<1>10. KeysTyped'
  BY <1>5 DEF Serially, KeysTyped
<1>11. Looking'
  BY <1>5, <1>6, <1>7 DEF Serially, SerialInv, Looking
<1>12. SerialTypes' /\ ButtonRight'
  BY <1>2, <1>4, <1>5 DEF Serially, SerialInv, SerialTypes, ButtonRight
<1> QED BY <1>5, <1>8, <1>9, <1>10, <1>11, <1>12 DEF SerialInv

\* The button is pushed or let go.
LEMMA ButtonMoved ==
    ASSUME Serially, K!Push \/ K!LetGo
    PROVE  KeysTyped' /\ SerialInv'
<1>1. UNCHANGED <<kpc, keybuf, key_flags, old_key_code, button_pressed, rx, peeked, esc_delay, meta_key,
                  who, scan, coming, down, cut, wrong>>
  BY DEF K!Push, K!LetGo, K!decoder, K!serial, K!history
<1>2. DOMAIN typed' = K!Source /\ typed'["serial"] = typed["serial"] /\ ButtonRight' /\ button' \in BOOLEAN
  <2>1. "serial" \in K!Source /\ "button" \in K!Source /\ DOMAIN typed = K!Source
    BY DEF K!Source, Serially, KeysTyped
  <2>2. CASE K!Push
    <3>1. /\ ~button /\ ~button_pressed /\ button' = TRUE /\ button_pressed' = button_pressed
          /\ typed' = [typed EXCEPT !["button"] = <<[event |-> K!Menu, held |-> FALSE]>>]
      BY <2>2, <1>1 DEF K!Push
    <3> QED BY <2>1, <3>1 DEF ButtonRight
  <2>3. CASE K!LetGo
    <3>1. typed' = typed /\ button' = FALSE /\ typed["button"] = << >>
      BY <2>3 DEF K!LetGo, K!history
    <3> QED BY <2>1, <3>1 DEF ButtonRight
  <2> QED BY <2>2, <2>3
<1>3. KeysTyped'
  BY <1>1, <1>2 DEF Serially, KeysTyped
<1>4. SerialTypes' /\ Looking'
  BY <1>1, <1>2 DEF Serially, SerialInv, SerialTypes, Looking
<1>5. (meta_key' => AltHeld') /\ (~meta_key' => Strings')
  BY <1>1, <1>2, StringsStay DEF Serially, SerialInv
<1> QED BY <1>2, <1>3, <1>4, <1>5 DEF SerialInv

\* No key that is sent at any time is one of those that need a pause.
LEMMA NoPauseAfter ==
    ASSUME NEW t \in K!TerminalKey
    PROVE  t \notin Pausing
<1>1. t \in TermKey
  BY DEF TermKey
<1>2. t \in Pausing => t.chars = <<K!Esc>> \/ t.chars = <<K!Esc, "78">>
  BY <1>1, KeyForms, PausedChars
<1>3. CASE \E c \in {"78", "58"} : t = [chars |-> <<c>>, key |-> K!Plain(c)]
  <2>1. PICK c \in {"78", "58"} : t = [chars |-> <<c>>, key |-> K!Plain(c)]
    BY <1>3
  <2>2. t.chars = <<c>>
    BY <2>1
  <2>3. t.chars[1] # K!Esc
    BY <2>2 DEF K!Esc
  <2>4. <<K!Esc>>[1] = K!Esc /\ <<K!Esc, "78">>[1] = K!Esc
    OBVIOUS
  <2> QED BY <1>2, <2>3, <2>4
<1>4. CASE \E s \in K!Sequence : t = [chars |-> <<K!Esc>> \o s, key |-> K!Event(s, {}, FALSE)]
  <2>1. PICK s \in K!Sequence : t = [chars |-> <<K!Esc>> \o s, key |-> K!Event(s, {}, FALSE)]
    BY <1>4
  <2> DEFINE c == <<K!Esc>> \o s
  <2>2. t.chars = c
    BY <2>1
  <2>3. /\ Len(c) = Len(s) + 1 /\ (\A i \in 1 .. Len(s) : c[i + 1] = s[i])
        /\ Len(s) > 0 /\ s[1] \in {"48", "5b"} /\ Len(s) \in Nat
    BY EscapeIs
  <2> HIDE DEF c
  <2>4. Len(c) # 1 /\ c[2] \in {"48", "5b"}
    <3>1. 1 \in 1 .. Len(s) /\ 1 + 1 = 2 /\ Len(s) + 1 # 1
      BY <2>3
    <3>2. c[1 + 1] = s[1]
      BY <2>3, <3>1
    <3> QED BY <2>3, <3>1, <3>2
  <2>5. Len(<<K!Esc>>) = 1 /\ <<K!Esc, "78">>[2] = "78" /\ "78" \notin {"48", "5b"}
    OBVIOUS
  <2> QED BY <1>2, <2>2, <2>4, <2>5
<1> QED BY <1>3, <1>4 DEF K!TerminalKey

\* The event that is owed for a key.
LEMMA OwedEvent == \A t : OwedFor(t).event = t.key
BY DEF OwedFor

\* A key of the terminal is sent behind the others.
LEMMA KeySent ==
    ASSUME Serially, NEW t, K!Send(t), ~slip',
           t \in K!TerminalKey \/ (t \in K!PausedKey /\ K!Resolved)
    PROVE  KeysTyped' /\ SerialInv'
<1>0. K!PausedKey = Pausing \cup {K!AltEscape} /\ t # K!AltEscape
  BY DEF K!PausedKey, Pausing, BareEsc, AltX, K!Send, K!Slips
<1>1. /\ coming = << >>
      /\ \A n \in 1 .. Len(typed["serial"]) :
             typed["serial"][n].event \notin {p.key : p \in Pausing}
      /\ coming' = t.chars
      /\ typed' = [typed EXCEPT !["serial"] = Append(@, [event |-> t.key, held |-> FALSE])]
      /\ UNCHANGED <<kpc, keybuf, key_flags, old_key_code, button_pressed, rx, peeked, esc_delay,
                     meta_key, who, button, scan, down, cut, wrong>>
  BY <1>0 DEF K!Send, K!decoder, K!serial
<1>2. t \in TermKey
  BY <1>0 DEF TermKey
<1>3. t.chars \in Seq(Char) /\ rx \in Seq(Char) /\ meta_key \in BOOLEAN
  BY <1>2, KeyChars DEF Serially, SerialInv, SerialTypes
<1>4. ~meta_key
  <2> SUFFICES ASSUME meta_key PROVE FALSE
    BY <1>3
  <2> DEFINE x == OwedFor(AltX)
  <2>1. typed["serial"] = <<x>>
    BY DEF Serially, SerialInv, AltHeld
  <2>2. x.event = AltX.key
    BY AltXKey
  <2> HIDE DEF x
  <2>3. Len(typed["serial"]) = 1 /\ typed["serial"][1] = x
    BY <2>1
  <2>4. AltX \in Pausing
    BY <1>2, KeyForms
  <2>5. 1 \in 1 .. Len(typed["serial"]) /\ typed["serial"][1].event = AltX.key
    BY <2>2, <2>3
  <2> QED BY <1>1, <2>4, <2>5
<1>5. PICK q, a : Strung(q, a, rx \o coming, typed["serial"]) /\ Waited(q)
  BY <1>4 DEF Serially, SerialInv, Strings
<1>6. q \in Seq(TermKey) /\ Len(typed["serial"]) = Len(q)
      /\ \A i \in 1 .. Len(q) : typed["serial"][i] = OwedFor(q[i])
  BY <1>5 DEF Strung
<1>7. ASSUME NEW i \in 1 .. Len(q) PROVE q[i] \notin Pausing
  <2>1. typed["serial"][i].event = q[i].key
    BY <1>6, OwedEvent
  <2>2. i \in 1 .. Len(typed["serial"])
    BY <1>6
  <2> QED BY <1>1, <2>1, <2>2
<1>8. rx \o coming = rx
  BY <1>1, <1>3
<1>9. t \in Pausing => q = << >>
  <2> SUFFICES ASSUME t \in Pausing, q # << >> PROVE FALSE
    OBVIOUS
  <2>1. K!Resolved
    BY NoPauseAfter
  <2>2. rx = << >>
    BY <2>1 DEF K!Resolved
  <2>3. q[1] \in TermKey /\ Len(q[1].chars) <= Len(rx)
    BY <1>5, <1>8, StrungFirst
  <2>4. Len(q[1].chars) > 0 /\ Len(q[1].chars) \in Nat
    BY <2>3, KeyChars
  <2>5. Len(rx) = 0
    BY <2>2
  <2> QED BY <2>3, <2>4, <2>5
<1>10. PICK b : Strung(Append(q, t), b, (rx \o coming) \o t.chars, Append(typed["serial"], OwedFor(t)))
  BY <1>2, <1>5, <1>7, <1>9, StrungAppend
<1>11. (rx \o coming) \o t.chars = rx' \o coming'
  BY <1>1, <1>8
<1>12. DOMAIN typed' = K!Source /\ typed'["serial"] = Append(typed["serial"], OwedFor(t))
       /\ typed'["button"] = typed["button"]
  <2>1. "serial" \in K!Source /\ "button" \in K!Source /\ DOMAIN typed = K!Source
    BY DEF K!Source, Serially, KeysTyped
  <2> QED BY <1>1, <2>1 DEF OwedFor
<1>13. Waited(Append(q, t))'
  <2>1. Append(q, t) # << >> /\ (q # << >> => Append(q, t)[1] = q[1])
    <3>1. q \in Seq(TermKey) /\ t \in TermKey
      BY <1>2, <1>6
    <3> QED BY <3>1
  <2> QED BY <2>1, <1>1, <1>5 DEF Waited
<1>14. Strings'
  BY <1>10, <1>11, <1>12, <1>13 DEF Strings
<1>15. KeysTyped'
  BY <1>1, <1>12 DEF Serially, KeysTyped
<1>16. SerialTypes' /\ ButtonRight' /\ Looking'
  BY <1>1, <1>3, <1>12 DEF Serially, SerialInv, SerialTypes, ButtonRight, Looking
<1> QED BY <1>1, <1>4, <1>14, <1>15, <1>16 DEF SerialInv

\* The two halves share the code's variables and not a key: what the one does leaves
\* the other as it is.
LEMMA KeyboardLeft ==
    ASSUME KeysTyped,
           \/ K!USART_GetValid \/ K!USART_Peekc \/ K!USART_Getc
           \/ (K!USART_PeekBuf /\ keybuf' = keybuf)
           \/ K!TakeSequence \/ K!StartEscape \/ K!EscapeOver \/ K!AwaitEscape
           \/ K!Expire \/ K!ISR_USART \/ K!LetGo \/ K!Push
           \/ \E t : K!Send(t)
    PROVE  /\ UNCHANGED <<keybuf, scan, key_flags, old_key_code, down, active, cut, who>>
           /\ typed'["ps2"] = typed["ps2"]
<1>1. "ps2" \in K!Source /\ DOMAIN typed = K!Source
  BY DEF K!Source, KeysTyped
<1>2. UNCHANGED <<keybuf, scan, key_flags, old_key_code, down, active, cut, who>>
  BY DEF K!USART_GetValid, K!USART_Peekc, K!USART_Getc, K!USART_PeekBuf, K!TakeSequence,
         K!StartEscape, K!EscapeOver, K!AwaitEscape, K!Expire, K!ISR_USART, K!LetGo, K!Push,
         K!Send, K!decoder, K!user
<1>3. typed' = typed \/ \E s \in {"button", "serial"} : \E x : typed' = [typed EXCEPT ![s] = x]
  BY DEF K!USART_GetValid, K!USART_Peekc, K!USART_Getc, K!USART_PeekBuf, K!TakeSequence,
         K!StartEscape, K!EscapeOver, K!AwaitEscape, K!Expire, K!ISR_USART, K!LetGo, K!Push,
         K!Send, K!Return, K!history
<1>4. typed'["ps2"] = typed["ps2"]
  BY <1>1, <1>3
<1> QED BY <1>2, <1>4

-----------------------------------------------------------------------------
\* The inductive invariant: until the first slip the two halves keep apart.
KeysInv ==
    slip \in BOOLEAN /\ (slip \/ (KeysTyped /\ PS2Inv /\ SerialInv))

\* Nothing is typed at first.
LEMMA KeysInitially ==
    ASSUME K!KeyInit PROVE KeysInv
<1>1. /\ who \in Users /\ kpc = "poll" /\ keybuf = << >> /\ key_flags = {} /\ old_key_code = K!NoKey
      /\ button = FALSE /\ button_pressed = FALSE /\ rx = << >> /\ peeked = << >>
      /\ esc_delay = "off" /\ meta_key = FALSE /\ scan = << >> /\ coming = << >> /\ down = {}
      /\ active = {} /\ slip = FALSE
      /\ cut = FALSE /\ typed = [s \in K!Source |-> << >>] /\ wrong = FALSE
  BY DEF K!KeyInit
<1>2. DOMAIN typed = K!Source /\ typed["ps2"] = << >> /\ typed["serial"] = << >> /\ typed["button"] = << >>
  BY <1>1 DEF K!Source
<1>3. Len(<< >>) = 0 /\ << >> \in Seq(Sign) /\ << >> \in Seq(Char) /\ << >> \o << >> = << >>
  OBVIOUS
<1>4. KeysTyped
  BY <1>1, <1>2 DEF KeysTyped
<1>5. PS2Inv
  <2>1. PICK w : Laid(<< >>, w, << >>, << >>, {}) /\ w[1].down = {}
    <3>1. {} \in SUBSET KeySet
      OBVIOUS
    <3> QED BY <3>1, LaidNone
  <2>2. Arriving = << >>
    BY <1>1, <1>3 DEF Arriving
  <2>3. Recalls(old_key_code, {})
    BY <1>1, NoKeyRecalled
  <2>4. Laid(<< >>, w, Arriving, typed["ps2"], Down) /\ key_flags = w[1].down \cap K!Modifier
        /\ Recalls(old_key_code, w[1].down)
    <3>1. Down = {}
      BY <1>1 DEF Down
    <3> QED BY <3>1, <1>1, <1>2, <2>1, <2>2, <2>3
  <2>5. Queued
    <3> DEFINE q == << >>
    <3>1. q = << >>
      OBVIOUS
    <3> HIDE DEF q
    <3>2. Laid(q, w, Arriving, typed["ps2"], Down)
      BY <2>4, <3>1
    <3> QED BY <2>4, <3>1, <3>2 DEF Queued
  <2>6. PS2Types
    <3>1. Len(keybuf) <= 7
      BY <1>1, <1>3
    <3>2. keybuf \in Seq(Sign) /\ scan \in Seq(Sign)
      BY <1>1, <1>3
    <3>3. key_flags \in SUBSET K!Modifier /\ down \in SUBSET KeySet /\ "pause" \notin down
          /\ active \in SUBSET (down \cap K!Modifier)
      BY <1>1
    <3> QED BY <1>1, <3>1, <3>2, <3>3 DEF PS2Types
  <2> QED BY <1>1, <2>5, <2>6 DEF PS2Inv
<1>6. SerialInv
  <2>1. PICK a : Strung(<< >>, a, << >>, << >>)
    BY StrungNone
  <2>2. Waited(<< >>)
    BY <1>1 DEF Waited
  <2>3. Strings
    BY <1>1, <1>2, <1>3, <2>1, <2>2 DEF Strings
  <2>4. 0 < RxBufLen
    BY KeyboardAssumption
  <2>5. SerialTypes /\ ButtonRight /\ Looking
    <3>1. rx \in Seq(Char) /\ coming \in Seq(Char) /\ peeked \in Seq(Char)
      BY <1>1, <1>3
    <3>2. Len(rx) < RxBufLen /\ Len(peeked) <= 8
      BY <1>1, <1>3, <2>4
    <3> QED BY <1>1, <1>2, <3>1, <3>2 DEF SerialTypes, ButtonRight, Looking
  <2> QED BY <1>1, <2>3, <2>5 DEF SerialInv
<1> QED BY <1>1, <1>4, <1>5, <1>6 DEF KeysInv

\* A slip is not forgotten.
LEMMA SlipsStay ==
    ASSUME slip \in BOOLEAN, K!KeyNext
    PROVE  slip' \in BOOLEAN /\ (slip => slip')
<1>1. slip' = slip \/ \E now : K!Slips(now)
  BY DEF K!KeyNext, K!OSD_GetKeyCode, K!Types, K!PollButton, K!Poll, K!Decode, K!FlagsTimeout,
         K!USART_GetValid, K!USART_Peekc, K!USART_Getc, K!USART_PeekBuf, K!TakeSequence,
         K!StartEscape, K!EscapeOver, K!AwaitEscape, K!Expire, K!ISR_USART, K!LetGo, K!Push,
         K!Send, K!Type, K!CutOff, K!history
<1> QED BY <1>1 DEF K!Slips

\* Every step of the decoder, of the interrupt and of the user keeps it.
LEMMA KeysStep ==
    ASSUME KeysInv, K!KeyNext
    PROVE  KeysInv'
<1>1. slip' \in BOOLEAN /\ (slip => slip')
  BY SlipsStay DEF KeysInv
<1> SUFFICES ASSUME ~slip' PROVE KeysTyped' /\ PS2Inv' /\ SerialInv'
  BY <1>1 DEF KeysInv
<1>2. KeysTyped /\ PS2Inv /\ SerialInv /\ Serially
  BY <1>1 DEF KeysInv, Serially
<1>3. CASE K!PollButton
  <2>1. scan' = scan
    BY <1>3 DEF K!PollButton, K!Slips
  <2> QED BY <1>2, <1>3, <2>1, ButtonPolled, ButtonLeavesKeys
<1>4. CASE K!Poll
  BY <1>2, <1>4, PolledPS2, KeyboardMoves
<1>5. CASE K!FlagsTimeout
  <2>1. scan = << >>
    BY <1>5 DEF K!FlagsTimeout, K!Slips
  <2> QED BY <1>2, <1>5, <2>1, FlagsForgotten, KeyboardMoves
<1>6. CASE \E k \in K!Modifier \cup K!Ordinary, up \in BOOLEAN : K!Type(k, up)
  BY <1>2, <1>6, KeyPressed, KeyboardMoves
<1>7. CASE \E k \in K!Modifier \cup K!Ordinary, up \in BOOLEAN, n \in 0 .. 2 : K!CutOff(k, up, n)
  BY <1>2, <1>7, KeyCutOff, KeyboardMoves
<1>8. CASE \/ K!USART_GetValid \/ K!USART_Peekc \/ K!USART_Getc
           \/ K!USART_PeekBuf
           \/ K!TakeSequence \/ K!StartEscape \/ K!EscapeOver \/ K!AwaitEscape
           \/ K!Expire \/ K!ISR_USART \/ K!LetGo \/ K!Push
           \/ (\E t \in K!TerminalKey : K!Send(t)) \/ (\E t \in K!PausedKey : K!Resolved /\ K!Send(t))
  <2>1. K!USART_PeekBuf => keybuf' = keybuf
    BY DEF K!USART_PeekBuf, K!Slips
  <2>2. UNCHANGED <<keybuf, scan, key_flags, old_key_code, down, active, cut, who>>
        /\ typed'["ps2"] = typed["ps2"]
    BY <1>2, <1>8, <2>1, KeyboardLeft
  <2>3. PS2Inv'
    BY <1>2, <2>2, KeyboardStill
  <2>4. KeysTyped' /\ SerialInv'
    <3>1. (\E t \in K!TerminalKey : K!Send(t)) => KeysTyped' /\ SerialInv'
      BY <1>2, KeySent
    <3>2. (\E t \in K!PausedKey : K!Resolved /\ K!Send(t)) => KeysTyped' /\ SerialInv'
      BY <1>2, KeySent
    <3>3. K!ISR_USART => KeysTyped' /\ SerialInv'
      BY <1>2, CharReceived
    <3> QED BY <3>1, <3>2, <3>3, <1>2, <1>8, RingLookedAt, CharTaken, BufPeeked, SequenceTaken,
               EscapeAwaited, EscapeResolved, TimePasses, ButtonMoved
  <2> QED BY <2>3, <2>4
<1> QED BY <1>3, <1>4, <1>5, <1>6, <1>7, <1>8 DEF K!KeyNext, K!OSD_GetKeyCode, K!Types

\* Printing does not disturb it.
LEMMA KeysStill ==
    ASSUME KeysInv, UNCHANGED keyVars PROVE KeysInv'
<1>1. KeysTyped => KeysTyped'
  BY DEF keyVars, KeysTyped
<1>2. PS2Inv => PS2Inv'
  BY KeyboardStill DEF keyVars
<1>3. SerialInv => SerialInv'
  BY SerialStill DEF keyVars, SerialInv, SerialTypes, ButtonRight
<1>4. slip' = slip
  BY DEF keyVars
<1> QED BY <1>1, <1>2, <1>3, <1>4 DEF KeysInv

\* It implies the types and that nothing wrong was returned.
LEMMA KeysInvEnough ==
    ASSUME KeysInv PROVE KeyInv
<1> SUFFICES ASSUME ~slip PROVE K!TypeOK /\ ~wrong
  BY DEF KeyInv, K!KeyInv, K!KeysRight
<1>1. KeysTyped /\ PS2Types /\ SerialTypes /\ slip \in BOOLEAN
  BY DEF KeysInv, PS2Inv, SerialInv
<1>2. who \in Users /\ DOMAIN typed = K!Source /\ wrong = FALSE
  BY <1>1 DEF KeysTyped
<1>3. Len(keybuf) <= 8
  <2>1. keybuf \in Seq(Sign) /\ Len(keybuf) <= 7
    BY <1>1 DEF PS2Types
  <2> QED BY <2>1
<1>4. {button, button_pressed, cut, wrong, slip} \in SUBSET BOOLEAN
  BY <1>1, <1>2 DEF PS2Types, SerialTypes
<1>5. down \in SUBSET (K!Modifier \cup K!Ordinary) /\ active \in SUBSET (down \cap K!Modifier)
  BY <1>1 DEF PS2Types, KeySet
<1> QED BY <1>1, <1>2, <1>3, <1>4, <1>5 DEF PS2Types, SerialTypes, K!TypeOK

\* For any ring and any sources that are used together: until the first slip
\* OSD_GetKeyCode returns each source's keys once, in the order they were typed and with
\* the modifiers that were held, however its polls, the receive interrupt and the delays
\* fall between the bytes of a key, and marks none as repeated that was released.  Nothing
\* is assumed of the user: what the slips are is in Keyboard.
THEOREM KeysCorrect == TerminalSpec => []KeyInv
<1>1. TerminalInit => KeysInv
  BY KeysInitially DEF TerminalInit
<1>2. KeysInv /\ [TerminalNext]_allVars => KeysInv'
  <2> SUFFICES ASSUME KeysInv, [TerminalNext]_allVars PROVE KeysInv'
    OBVIOUS
  <2>1. CASE Prints
    BY <2>1, KeysStill DEF Prints
  <2>2. CASE TypesAndReads
    BY <2>2, KeysStep DEF TypesAndReads
  <2>3. CASE UNCHANGED allVars
    BY <2>3, KeysStill DEF allVars
  <2> QED BY <2>1, <2>2, <2>3 DEF TerminalNext
<1>3. KeysInv => KeyInv
  BY KeysInvEnough
<1> QED BY <1>1, <1>2, <1>3, PTL DEF TerminalSpec
=============================================================================
