------------------------------ MODULE MCServer ------------------------------
(* Two or three of everything; windows and delays of a few ticks.  Tokens    *)
(* and runs of the digest never meet: they share model values, and so the    *)
(* permutations of them.                                                     *)
EXTENDS Server, TLC

CONSTANTS s1, s2, k1, caller, j1, j2, l1, l2, t1, t2, t3, h1, h2, e1, merged,
          g1, g2, c1, c2, doing, done, w, u1

MCHubKind == [e \in HubEvents |-> "merged"]
MCHubTickets == [e \in HubEvents |-> Tickets]
MCMappings ==
    {[k \in Kinds |-> IF k = "push" THEN doing ELSE IF k = "merged" THEN done ELSE NoStage]}

Symmetry == Permutations(Tokens) \cup Permutations(Hooks)
=============================================================================
