-------------------------- MODULE MCVirtualDrives --------------------------
(* VirtualDrives for TLC. Heap identities and drives are interchangeable.  *)
EXTENDS VirtualDrives, TLC

Symmetry == Permutations(FileObj) \cup Permutations(DescObj)
            \cup Permutations(Drive) \cup Permutations(Channel)
=============================================================================
