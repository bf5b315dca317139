---------------------------- MODULE MCConfigMenu ----------------------------
(* ConfigMenu for TLC.  Heap objects are interchangeable.                   *)
EXTENDS ConfigMenu, TLC

Symmetry == Permutations(Node)
=============================================================================
