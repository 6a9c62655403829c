--------------------------- MODULE IPAllocationMC ---------------------------
(* Small instances of IPAllocation for TLC. *)
EXTENDS IPAllocation, TLC

\* create requests are interchangeable
Symmetry == Permutations(Creator)
=============================================================================
