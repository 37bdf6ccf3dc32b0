------------------------------ MODULE MCRooms ------------------------------
(* The founder and one other user with two connections, one project with    *)
(* one card, two invitations.                                               *)
EXTENDS Rooms, TLC

CONSTANTS founder, member, board, i1, i2, k1, k2, s1, s2, task

MCSocketUser == [s \in Sockets |-> member]
MCCardProject == [c \in Cards |-> board]

Symmetry ==
    Permutations(Invitations) \cup Permutations(Calls) \cup Permutations(Sockets)
=============================================================================
