----------------------------- MODULE MCPresence -----------------------------
(* Three users, the first with two editors open, two files and two cards.     *)
EXTENDS Presence, TLC

CONSTANTS f1, f2, u1, u2, u3, s1, t1, s2, s3, c1, c2

MCSocketUser ==
    [s \in Sockets |-> IF s = s2 THEN u2 ELSE IF s = s3 THEN u3 ELSE u1]

\* The second and the third user may change places, with their sockets.
Swap == (u2 :> u3) @@ (u3 :> u2) @@ (s2 :> s3) @@ (s3 :> s2)

\* So may the two editors of the first.
Editors == (s1 :> t1) @@ (t1 :> s1)

Symmetry ==
    Permutations(Files) \cup Permutations(Cards) \cup {Swap, Editors}

\* With two users, one socket each.
FewerSymmetries == Permutations(Files) \cup Permutations(Cards)
=============================================================================
