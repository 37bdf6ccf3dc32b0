------------------------------ MODULE MCCards ------------------------------
(* Two projects of one organisation: x with two columns, y with one, and a  *)
(* label of the same name in each.                                          *)
EXTENDS Cards, TLC

CONSTANTS x, y, x1, x2, y1, lx, ly, c1, c2, r1, r2

MCColumnProject == x1 :> x @@ x2 :> x @@ y1 :> y
MCLabelProject == lx :> x @@ ly :> y
MCLabelName == lx :> "bug" @@ ly :> "bug"

\* The two columns of x may change places.
Symmetry ==
    Permutations(CardIds) \cup Permutations(Requests) \cup Permutations({x1, x2})
=============================================================================
