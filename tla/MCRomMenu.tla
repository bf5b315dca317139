----------------------------- MODULE MCRomMenu -----------------------------
(* RomMenu for TLC.  With a window of 3 lines, directories that fit into it, *)
(* fill it and need several pages, in every order on the card or in some.    *)
(* Buffers of 4 bytes and chunks of 2; files and regions that fill buffers,  *)
(* end inside one or fit several times, empty files and bad ones.            *)
EXTENDS RomMenu

AllDirectories ==
    {<< >>, <<2, 1>>} \cup
    {d \in [1 .. 4 -> 1 .. 4] : IsInjective(d)} \cup
    {<<7, 2, 5, 3, 6, 1, 4>>, <<1, 2, 3, 4, 5, 6, 7, 8, 9>>, <<9, 8, 7, 6, 5, 4, 3, 2, 1>>}

FewDirectories == {<<2, 1>>, <<5, 2, 1, 4, 3, 6>>}

AllPatterns == {0 .. 9, {2, 3, 4, 6, 7, 8}, {1, 5, 8, 9}, {}}

Job(f, b, s, l, v, sp) ==
    [format |-> f, base |-> b, size |-> s, len |-> l, verify |-> v, spec |-> sp]
Block(g, st, s, f) == [good |-> g, start |-> st, size |-> s, from |-> f]

Lengths == [n \in 1 .. 9 |-> IF n % 3 = 0 THEN 2 ELSE IF n % 3 = 1 THEN 6 ELSE 7]

AllJobs ==
    {Job("plain", 1, s, l, v, << >>) : s \in {0, 2, 6}, l \in {2, 3, 6}, v \in BOOLEAN} \cup
    {Job("plain", 1, s, 7, v, << >>) : s \in {0, 5}, v \in BOOLEAN} \cup
    {Job("plain", 1, 0, 0, FALSE, << >>)} \cup
    {Job("prg", 0, s, l, v, 2) : s \in {0, 4}, l \in {0, 1, 6, 7}, v \in BOOLEAN} \cup
    {Job("crt", 1, 0, 7, FALSE, <<Block(TRUE, 0, 3, 1), Block(g, 4, 2, 5)>>) : g \in BOOLEAN} \cup
    {Job("swizzle", 1, 0, l, FALSE, s) : l \in {3, 4},
        s \in {<<2, 1>>, <<1, -1>>, <<0, 1>>, <<1, -2>>, <<1, 3>>, <<1>>}} \cup
    {Job("data", 1, 2, 0, v, << >>) : v \in BOOLEAN} \cup
    {Job("download", 1, s, 0, FALSE, << >>) : s \in {3, 5, 7}}

ASSUME \A j \in AllJobs : JobFits(j)

\* Calls that the code is not prepared for: an empty file to fill a region with, a
\* region that is not a multiple of its file, a download of a whole memory.
EmptyFile == {Job("plain", 1, 2, 0, FALSE, << >>)}
OddRegion == {Job("plain", 1, 5, 2, FALSE, << >>)}
NoSize == {Job("download", 1, 0, 0, FALSE, << >>)}

\* A verified upload, in which a failure of the card is not noticed.
Verified == {Job("plain", 1, 0, 6, TRUE, << >>)}
=============================================================================
