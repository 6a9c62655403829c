------------------------ MODULE InstanceLifecycleMC ------------------------
(* Small instances of InstanceLifecycle for TLC. *)
EXTENDS InstanceLifecycle, TLC

\* every client picks the same name
OneName == [i \in Inst |-> CHOOSE name \in Name : TRUE]

\* names are unique: each instance has its own
OwnName == [i \in Inst |-> i]

\* start, stop and delete requests are interchangeable, and so are nodes
Symmetry == Permutations(Call) \cup Permutations(Node)
=============================================================================
