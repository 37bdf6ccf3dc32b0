-------------------------- MODULE MCChangeRequests --------------------------
(* Two requests that may be about one card, and two reviews at once.        *)
EXTENDS ChangeRequests, TLC

CONSTANTS q1, q2, c1, k1, k2

Symmetry == Permutations(Requests) \cup Permutations(Reviews)
=============================================================================
