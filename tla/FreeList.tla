------------------------------ MODULE FreeList ------------------------------
(***************************************************************************)
(* The firmware's memory allocator (Replay_Boot/freelist.c), used for the  *)
(* C heap (libc/malloc.c) and for FatFs (ff_malloc.c): a circular list of  *)
(* free blocks in address order, searched from where the last search       *)
(* ended, with neighbours joined when a block is freed.                    *)
(*                                                                         *)
(* Memory is an array of units of sizeof(FreeList_Header); a block is its  *)
(* header's address, and next and num are the header fields.  Where there  *)
(* is no header, and in the next field of a block in use, which FreeList   *)
(* never reads, they are 0.  The root of the list is static data at unit   *)
(* 0, below the heap and not adjacent to it.                               *)
(***************************************************************************)
EXTENDS Naturals, FiniteSets

CONSTANTS
    HeapUnits,      \* size of the largest heap, in units
    User            \* the allocator's users, C heap and FatFs: records of
                    \*   units    size of the heap (ff_heap, or up to the stack)
                    \*   grow     what is asked of sbrk at least (1024)
                    \*   request  bound: the largest request, with its header
                    \*   once     ff_sbrk gives its array once; _sbrk never refuses

ASSUME SizeAssumption ==
    /\ HeapUnits \in Nat
    /\ User \subseteq [units : 0 .. HeapUnits, grow : Nat \ {0}, request : Nat,
                       once : BOOLEAN]

Root == 0
Base == 2
Limit == Base + HeapUnits
Addr == Root .. Limit

VARIABLES
    next, num,      \* the header fields
    freeList,       \* where the search starts
    brk,            \* end of what sbrk gave; heapSize is brk - Base
    owned,          \* the blocks callers hold
    request,        \* units asked of FreeList_Alloc, 0: no call in progress
    user            \* whose context it is

listVars == <<next, num, freeList, brk, owned, request, user>>

ListTypeOK ==
    /\ next \in [Addr -> Addr] /\ num \in [Addr -> Nat]
    /\ freeList \in Addr
    /\ brk \in Base .. Limit
    /\ owned \subseteq Addr
    /\ user \in User /\ request \in 0 .. user.request

\* The list of the first call: the root alone.
ListInit ==
    /\ next = [a \in Addr |-> Root] /\ num = [a \in Addr |-> 0]
    /\ freeList = Root /\ brk = Base
    /\ owned = {} /\ request = 0
    /\ user \in User

-----------------------------------------------------------------------------
\* The k-th block that a walk along the list reaches from freeList.
Walk[k \in 0 .. HeapUnits + 1] == IF k = 0 THEN freeList ELSE next[Walk[k - 1]]

\* The walk is back at freeList, and the search has seen every block.
Rounds == {k \in 1 .. HeapUnits + 1 : Walk[k] = freeList}
Length == CHOOSE k \in Rounds : \A j \in Rounds : k <= j

Listed == {Walk[k] : k \in 1 .. Length}

Enough(n) == {k \in 1 .. Length : num[Walk[k]] >= n}

\* Mutant: any address between p and its successor's end is taken.
AfterAny(p, b) == p < b \/ p >= next[p]

\* Where FreeList_Free stops: b lies between p and its successor, or p is the
\* last block and b lies beyond either end.
After(p, b) ==
    \/ p < b /\ b < next[p]
    \/ p >= next[p] /\ (p < b \/ b < next[p])

\* Mutant: b is not joined with the block after it.
LinkBackward(p, b, nx, nm) ==
    LET joins == p + nm[p] = b
    IN /\ next' = IF joins THEN nx ELSE [nx EXCEPT ![p] = b, ![b] = nx[p]]
       /\ num' = IF joins THEN [nm EXCEPT ![p] = nm[p] + nm[b]] ELSE nm

\* FreeList_Free after its search: b is linked in behind p, first joined with
\* the successor of p, then with p.
Link(p, b, nx, nm) ==
    LET s   == nx[p]
        up  == b + nm[b] = s
        bn  == IF up THEN nm[b] + nm[s] ELSE nm[b]
        bx  == IF up THEN nx[s] ELSE s
        low == p + nm[p] = b
        fx  == IF up THEN [nx EXCEPT ![s] = 0] ELSE nx
        fm  == IF up THEN [nm EXCEPT ![s] = 0] ELSE nm
    IN /\ next' = IF low THEN [fx EXCEPT ![b] = 0, ![p] = bx]
                         ELSE [fx EXCEPT ![b] = bx, ![p] = b]
       /\ num' = IF low THEN [fm EXCEPT ![b] = 0, ![p] = nm[p] + bn]
                        ELSE [fm EXCEPT ![b] = bn]

\* The loop starts at freeList; Ordered makes the block it stops at unique.
FreeBlock(b, nm) ==
    \E p \in Listed :
        /\ After(p, b)
        /\ Link(p, b, next, nm)
        /\ freeList' = p

-----------------------------------------------------------------------------
\* FreeList_Alloc is called; sizes are rounded up to units.
Alloc(n) ==
    /\ request = 0 /\ request' = n
    /\ \/ user.once \/ Enough(n) # {}
       \/ brk + n <= Base + user.units /\ brk + user.grow <= Base + user.units  \* bound
    /\ UNCHANGED <<next, num, freeList, brk, owned, user>>

\* Mutant: the rest of a split block is one unit too long.
TakeOffByOne ==
    /\ request # 0 /\ Enough(request) # {}
    /\ LET k == CHOOSE k \in Enough(request) : \A j \in Enough(request) : k <= j
           p == Walk[k]
           rest == num[p] - request
       IN IF rest = 0
          THEN /\ next' = [next EXCEPT ![Walk[k - 1]] = next[p], ![p] = 0]
               /\ owned' = owned \cup {p}
               /\ UNCHANGED num
          ELSE /\ num' = [num EXCEPT ![p] = rest + 1, ![p + rest] = request]
               /\ owned' = owned \cup {p + rest}
               /\ UNCHANGED next
    /\ UNCHANGED <<freeList, brk, user>>
    /\ request' = 0

\* The first block behind freeList that is large enough is unlinked, or its
\* tail is cut off; the next search starts at its predecessor.
Take ==
    /\ request # 0 /\ Enough(request) # {}
    /\ LET k == CHOOSE k \in Enough(request) : \A j \in Enough(request) : k <= j
           p == Walk[k]
           rest == num[p] - request
       IN /\ freeList' = Walk[k - 1]
          /\ IF rest = 0
             THEN /\ next' = [next EXCEPT ![Walk[k - 1]] = next[p], ![p] = 0]
                  /\ owned' = owned \cup {p}
                  /\ UNCHANGED num
             ELSE /\ num' = [num EXCEPT ![p] = rest, ![p + rest] = request]
                  /\ owned' = owned \cup {p + rest}
                  /\ UNCHANGED next
    /\ request' = 0 /\ UNCHANGED <<brk, user>>

\* What sbrk is asked for in turn: the request, but at least user.grow, then a
\* half, a third ... of that until one try was smaller than the request.
Wanted == IF request < user.grow THEN user.grow ELSE request
Tries == {d \in 1 .. Wanted : \A e \in 1 .. d - 1 : Wanted \div e >= request}

\* Mutant: ff_sbrk does not compare the size with its array.
GrantedUnchecked(n) == user.once => brk = Base

Granted(n) == user.once => brk = Base /\ n <= user.units

\* No block is large enough: the first grant of sbrk becomes a free block, and
\* the search goes on, even if the grant is smaller than the request.
Grow ==
    /\ request # 0 /\ Enough(request) = {}
    /\ \E d \in Tries :
          LET n == Wanted \div d
          IN /\ Granted(n) /\ \A e \in Tries : e < d => ~Granted(Wanted \div e)
             /\ brk' = brk + n
             /\ FreeBlock(brk, [num EXCEPT ![brk] = n])
    /\ UNCHANGED <<owned, request, user>>

\* Mutant: the search starts again although sbrk gave nothing.
FailKeepsTrying ==
    /\ request # 0 /\ Enough(request) = {}
    /\ \A d \in Tries : ~Granted(Wanted \div d)
    /\ UNCHANGED listVars

\* Out of memory: FreeList_Alloc returns 0.
Fail ==
    /\ request # 0 /\ Enough(request) = {}
    /\ \A d \in Tries : ~Granted(Wanted \div d)
    /\ request' = 0
    /\ UNCHANGED <<next, num, freeList, brk, owned, user>>

Free(b) ==
    /\ request = 0 /\ b \in owned
    /\ FreeBlock(b, num)
    /\ owned' = owned \ {b}
    /\ UNCHANGED <<brk, request, user>>

ListNext ==
    \/ \E n \in 1 .. user.request : Alloc(n)
    \/ Take \/ Grow \/ Fail
    \/ \E b \in owned : Free(b)

ListSpec == ListInit /\ [][ListNext]_listVars

\* A call of FreeList_Alloc runs to its end.
ListFairSpec == ListSpec /\ WF_listVars(Take \/ Grow \/ Fail)

-----------------------------------------------------------------------------
(* Properties.                                                              *)

Span(b) == b .. b + num[b] - 1

\* No unit is lost and none is in two blocks: free blocks and blocks held by
\* callers split the heap, after any mix of splits, joins and growth.
Partition ==
    /\ UNION {Span(b) : b \in (Listed \ {Root}) \cup owned} = Base .. brk - 1
    /\ owned \cap Listed = {}
    /\ \A a, b \in (Listed \ {Root}) \cup owned : a # b => Span(a) \cap Span(b) = {}

\* The list is circular through the root and in address order, so the loop of
\* FreeList_Free ends, at exactly one block.
Ordered ==
    /\ Root \in Listed /\ freeList \in Listed
    /\ Cardinality({p \in Listed : next[p] <= p}) = 1

\* No two free blocks touch: memory is fragmented only by blocks in use.
Coalesced == \A p \in Listed : p + num[p] # next[p] \/ p = Root

\* Memory is in order before and after every step of the allocator.
ListInv == ListTypeOK /\ Partition /\ Ordered /\ Coalesced

\* The blocks callers hold, as module Heap sees them.
H == INSTANCE Heap WITH
         Unit <- Addr,
         live <- [a \in Addr |-> IF a \in owned THEN num[a] ELSE 0],
         arena <- Base .. brk - 1

\* The allocator keeps the promise of malloc and free: splits, joins and growth
\* are never visible in a block a caller holds.
HeapSpec == H!Spec

\* Every call of FreeList_Alloc returns: growing ends.
AllocReturns == (request # 0) ~> (request = 0)
=============================================================================
