----------------------------- MODULE MCUpkeep -----------------------------
(* Two or three of everything.  Parts that never meet share model values,   *)
(* and so the permutations of them.                                         *)
EXTENDS Upkeep, TLC

CONSTANTS a1, a2, a3, b1, b2, r1, r2, ann, bob, k, x1, x2, x3, p1, p2, p3, c1, c2, doc, draft, m1, m2,
          i1, i2, todo, done, h

MCHomes == {f \in [Tasks -> Boards] : Cardinality({t \in Tasks : f[t] = b1}) = 2}
MCOwnerKind ==
    [o \in Owners |-> IF o = doc THEN "project" ELSE IF o = draft THEN "mail" ELSE "card"]

\* The second card waits for the first; done has every rule for what enters.
MCNeeds == [l \in Lanes |-> IF l = done THEN {"assignee", "facts", "blockers"} ELSE {}]
MCBlockers == [i \in Items |-> IF i = i2 THEN {i1} ELSE {}]
MCStarts == {[lane |-> [i \in Items |-> IF i = i1 THEN l ELSE todo],
               hands |-> [i \in Items |-> H]] : l \in Lanes, H \in SUBSET Hands}
MCRuleSets == {{[lane |-> done, action |-> "assign", to |-> todo],
                [lane |-> todo, action |-> "assign", to |-> todo],
                [lane |-> todo, action |-> "move", to |-> done]}}

Symmetry == Permutations({a1, a2, a3}) \cup Permutations({r1, r2})
=============================================================================
