----------------------------- MODULE MCChannels -----------------------------
(* Channels for TLC.  Bytes of 2 bits, sectors of 2 MFM words, flux bursts   *)
(* of 4 words and a bounce buffer of 2 words: the same relations of sizes as *)
(* in the code (a burst is several buffers, a track no multiple of either).  *)
EXTENDS Channels, TLC

OneDrive == {<<0, 0>>}
TwoDrives == {<<0, 0>>, <<0, 1>>}
TwoChannels == {<<0, 0>>, <<1, 0>>}

K(kind, bits, pre) == [kind |-> kind, bits |-> bits, pre |-> pre]

\* Every kind of chunk, one without bits, and a last byte that is not full.
SomeTapes ==
    {[chunks |-> <<K("data", 3, 0), K("other", 7, 0), K("gap", 0, 0), K("tone", 2, 0),
                   K("dummy", 4, 1)>>,
      start |-> <<0, 3, 3, 3, 5, 9>>],
     [chunks |-> <<K("gap", 2, 0), K("data", 2, 0)>>, start |-> <<0, 2, 4>>]}

SomeTapeAsks ==
    [dir : {"read"}, drive : TapeDrive, addr : {0, 2, 6}, size : {0, 3}]
    \cup [dir : {"write"}, drive : TapeDrive, addr : {0}, size : {1}]

\* Intact sectors, and one of every kind that has to be refused.
Good(sector, data) ==
    [syncs |-> 2, words |-> BodyWords, good |-> TRUE, track |-> 1, sector |-> sector, data |-> data]
Bad ==
    {[Good(0, "bad") EXCEPT !.syncs = 1], [Good(0, "bad") EXCEPT !.words = BodyWords - 1],
     [Good(0, "bad") EXCEPT !.good = FALSE], [Good(0, "bad") EXCEPT !.track = 0],
     [Good(0, "bad") EXCEPT !.sector = LastSector + 1]}
SomeImages == Bad \cup {Good(0, "new"), Good(0, "next"), Good(1, "new")}
SomeStreams ==
    [track : {1}, images :
        {<<Good(0, "new"), Good(0, "next")>>, <<Good(0, "new"), Good(1, "new")>>}
        \cup {<<b, Good(0, "new")>> : b \in Bad}]

\* Tracks of different lengths, one missing and one with a wrong header.
F(at, good, number, len, off) ==
    [at |-> at, good |-> good, number |-> number, len |-> len, off |-> off]
SomeFluxDisks ==
    {[first |-> 0, last |-> 2, revs |-> 2,
      track |-> (0 :> F(6, TRUE, 0, <<7, 5>>, <<2, 16>>) @@ 1 :> F(32, TRUE, 1, <<3, 6>>, <<0, 8>>)
                 @@ 2 :> F(0, TRUE, 2, <<1, 1>>, <<0, 0>>))]}
SomeOddDisks ==
    {[first |-> 0, last |-> 0, revs |-> 1, track |-> (0 :> F(7, TRUE, 0, <<7>>, <<0>>))]}
=============================================================================
