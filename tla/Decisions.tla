----------------------------- MODULE Decisions -----------------------------
(***************************************************************************)
(* What the review of change requests promises: a request is open until it *)
(* is accepted or refused, by one verdict, and a verdict is never taken    *)
(* back.  A request leaves with the card it is about.                      *)
(***************************************************************************)
CONSTANTS Requests, Closed  \* Closed: never opened, or gone

VARIABLE verdict

Verdicts == {"open", "accepted", "refused"}

Init == verdict = [q \in Requests |-> Closed]

Open(q) ==
    /\ verdict[q] = Closed
    /\ verdict' = [verdict EXCEPT ![q] = "open"]

Decide(q, v) ==
    /\ verdict[q] = "open"
    /\ verdict' = [verdict EXCEPT ![q] = v]

\* The requests about one card leave together.
Leave(Q) ==
    verdict' = [q \in Requests |-> IF q \in Q THEN Closed ELSE verdict[q]]

Next ==
    \/ \E q \in Requests : \/ Open(q)
                           \/ \E v \in {"accepted", "refused"} : Decide(q, v)
    \/ \E Q \in SUBSET Requests : Leave(Q)

Spec == Init /\ [][Next]_verdict
=============================================================================
