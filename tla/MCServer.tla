------------------------------ MODULE MCServer ------------------------------
(* Instances of the server process for TLC.                                *)
EXTENDS ServerProps, TLC

\* Descriptors and threads only occur as members of their sets.
Symmetry == Permutations(Fds) \cup Permutations(Workers) \cup Permutations(Rooms)

\* What a worker's buffer holds at first, in three environments.
Zeroed    == {Disconnect}
OldPacket == {Disconnect, Request(MSG_JOIN, USER_COUNT)}
AnyPacket == {Disconnect, Unexpected}
=============================================================================
