-------------------------------- MODULE Heap --------------------------------
(***************************************************************************)
(* What malloc and free promise (freelist.h, libc/malloc.c, ff_malloc.c):  *)
(* an allocation returns memory that overlaps no live block and lies in    *)
(* what sbrk has handed out; free gives up exactly one block.  Memory is   *)
(* counted in units of a block header; a live block maps its first unit to *)
(* its size, its own header included.                                      *)
(***************************************************************************)
EXTENDS Naturals

CONSTANTS Unit          \* the addresses

VARIABLES
    live,               \* size of the live block at each unit, 0: none there
    arena               \* the units obtained from sbrk so far

vars == <<live, arena>>

\* The units of a block of n units at a.
Span(a, n) == {u \in Unit : a <= u /\ u < a + n}

Used == UNION {Span(a, live[a]) : a \in Unit}

Init == live = [u \in Unit |-> 0] /\ arena = {}

Alloc ==
    \E a \in arena :
        LET n == live'[a]
        IN /\ n # 0 /\ a + n - 1 \in arena
           /\ Span(a, n) \subseteq arena \ Used
           /\ live' = [live EXCEPT ![a] = n]
           /\ UNCHANGED arena

Free ==
    \E a \in Unit :
        /\ live[a] # 0
        /\ live' = [live EXCEPT ![a] = 0]
        /\ UNCHANGED arena

\* sbrk adds to the arena.
Grow ==
    /\ arena' \in SUBSET Unit /\ arena \subseteq arena'
    /\ UNCHANGED live

Next == Alloc \/ Free \/ Grow

Spec == Init /\ [][Next]_vars
=============================================================================
