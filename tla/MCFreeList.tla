---------------------------- MODULE MCFreeList ----------------------------
(* FreeList for TLC: FatFs's array, which ff_sbrk gives once and which is   *)
(* smaller than what is asked for first, and a C heap that grows in several *)
(* small pieces.                                                            *)
EXTENDS FreeList

Users == {[units |-> 6, grow |-> 12, request |-> 7, once |-> TRUE],
          [units |-> 8, grow |-> 2, request |-> 3, once |-> FALSE]}
=============================================================================
