------------------------------- MODULE MCRoom -------------------------------
(* Instances of a room for TLC.                                            *)
EXTENDS RoomProps, TLC

\* Clients only occur as members of Clients.
Symmetry == Permutations(Clients)
=============================================================================
