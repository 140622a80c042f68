------------------------------- MODULE MCRoom -------------------------------
(* Instances of Room. *)
EXTENDS Room, TLC

CONSTANTS orgB

(* every foreign agent belongs to the one peer *)
MCPeerOf == [a \in Foreign |-> orgB]
RoomSymmetry == Permutations(Call) \union Permutations(Side) \union Permutations(Id)
=============================================================================
