------------------------ MODULE ChangeRequestsProofs ------------------------
(***************************************************************************)
(* What a review promises, for any number of requests, cards and reviews at *)
(* once.                                                                    *)
(***************************************************************************)
EXTENDS ChangeRequests, TLAPS

Taken(q) == row[q].status \in {"APPROVED", "deleted"}
On(k, q, P) == calls[k].request = q /\ calls[k].phase \in P

\* A review at work is about a request there is or was, and its way fits its verdict.
CallsFit ==
    \A k \in Reviews :
        /\ ~Free(k) => /\ calls[k].request \in Requests
                       /\ row[calls[k].request].status # "none"
        /\ calls[k].phase \in {"claim", "apply", "applied", "rollback"}
                => calls[k].verdict = "accepted"
        /\ calls[k].phase = "refuse" => calls[k].verdict = "refused"

\* One review at most has claimed a request, and the row says that it is claimed.
Holders ==
    \A q \in Requests : \A k \in Reviews : Holds(k, q) =>
        /\ Taken(q)
        /\ \A j \in Reviews : Holds(j, q) => j = k

\* A claim finds a request that was not carried out, and leaves one that was, if it
\* leaves it at all.
Effects ==
    \A q \in Requests :
        /\ q \notin failed =>
            /\ applied[q] <= 1
            /\ ~Taken(q) => applied[q] = 0
            /\ \A k \in Reviews : On(k, q, {"apply", "rollback"}) => applied[q] = 0
        /\ \A k \in Reviews : On(k, q, {"applied"}) => applied[q] > 0

\* The member has been told v, or a review is about to tell it.
Settled(q, v) ==
    v \in told[q] \/ \E k \in Reviews : On(k, q, {"tell"}) /\ calls[k].verdict = v

\* What is settled is not held by a review any more, whose failure would reopen it.
Settlements ==
    \A q \in Requests :
        /\ Settled(q, "accepted") => Taken(q) /\ applied[q] > 0 /\ ~Held(q)
        /\ Settled(q, "refused") => row[q].status \in {"REJECTED", "deleted"} /\ ~Held(q)
        /\ ~(Settled(q, "accepted") /\ Settled(q, "refused"))

\* Until a request is reopened, reviews that read its payload agree with the row, and
\* it is carried out under one claim.
Agreement ==
    \A q \in Requests \ reopened :
        /\ ~Taken(q) => applied[q] = 0
        /\ \A k \in Reviews :
            /\ On(k, q, {"claim"}) /\ row[q].status = "PENDING" /\ ~calls[k].amend
                    => calls[k].payload = row[q].payload
            /\ On(k, q, {"apply"}) /\ row[q].status = "APPROVED"
                    => calls[k].payload = row[q].payload

Inv == /\ TypeOK /\ CallsFit /\ Holders /\ Effects /\ ApprovedIsDone /\ Settlements
       /\ Agreement /\ RecordedAsApplied

----------------------------------------------------------------------------
LEMMA InvStarts == Init => Inv
PROOF
  <1> SUFFICES ASSUME Init PROVE Inv
    OBVIOUS
  <1>1. NoRow \in Row /\ Idle \in Call /\ Idle.phase = "idle" /\ NoRow.status = "none"
    BY DEF NoRow, Row, Idle, Call, Phases, Payloads, Kinds
  <1>2. \A k \in Reviews : calls[k].phase = "idle"
    BY <1>1 DEF Init
  <1>3. \A q \in Requests : row[q].status = "none" /\ applied[q] = 0 /\ told[q] = {}
    BY <1>1 DEF Init
  <1>4. TypeOK
    BY <1>1 DEF Init, TypeOK, Present, Statuses, Payloads
  <1>5. CallsFit /\ Holders
    BY <1>2 DEF CallsFit, Free, Holders, Holds
  <1>6. Effects /\ Agreement
    BY <1>2, <1>3 DEF Effects, Agreement, Taken, On
  <1>7. ApprovedIsDone /\ RecordedAsApplied /\ Settlements
    BY <1>2, <1>3 DEF ApprovedIsDone, RecordedAsApplied, Settlements, Settled, On
  <1> QED BY <1>4, <1>5, <1>6, <1>7 DEF Inv

\* A new request: nobody has looked at it.
LEMMA CreateKeeps ==
    ASSUME Inv, NEW q \in Requests, NEW kind \in Kinds, NEW c \in Cards \cup {None},
           CreateRequest(q, kind, c)
    PROVE  Inv'
PROOF
  <1> DEFINE new == [status |-> "PENDING", kind |-> kind, card |-> c, payload |-> "asked"]
  <1>1. /\ row[q].status = "none"
        /\ kind # "create" => c \in cards
        /\ row' = [row EXCEPT ![q] = new]
        /\ UNCHANGED <<cards, calls, begun, applied, content, told, failed, lost, reopened>>
    BY DEF CreateRequest
  <1>2. TypeOK'
    BY <1>1 DEF Inv, TypeOK, Row, Statuses, Payloads, Present
  <1>3. /\ row'[q].status = "PENDING"
        /\ \A x \in Requests : x # q => row'[x] = row[x]
    BY <1>1 DEF Inv, TypeOK
  <1>4. CallsFit'
    BY <1>1, <1>3 DEF Inv, CallsFit, Free
  <1>5. Holders'
    BY <1>1, <1>3 DEF Inv, Holders, Holds, Taken
  <1>6. Effects'
    BY <1>1, <1>3 DEF Inv, Effects, On, Taken
  <1>7. Settlements'
    BY <1>1, <1>3 DEF Inv, Settlements, Settled, Taken, On, Held, Holds
  <1>8. ApprovedIsDone' /\ RecordedAsApplied'
    BY <1>1, <1>3 DEF Inv, ApprovedIsDone, RecordedAsApplied, Held, Holds
  <1>9. Agreement'
    BY <1>1, <1>3 DEF Inv, CallsFit, Free, Agreement, On, Taken
  <1> QED BY <1>2, <1>4, <1>5, <1>6, <1>7, <1>8, <1>9 DEF Inv

\* A review begins with what it read.
LEMMA ReviewKeeps ==
    ASSUME Inv, NEW k \in Reviews, NEW q \in Requests, NEW v \in {"accepted", "refused"},
           NEW amend \in BOOLEAN, Review(k, q, v, amend)
    PROVE  Inv'
PROOF
  <1> DEFINE c == [phase |-> IF v = "accepted" THEN "claim" ELSE "refuse",
                   request |-> q, verdict |-> v, amend |-> amend,
                   payload |-> IF amend THEN "amended" ELSE row[q].payload]
  <1>1. /\ row[q].status = "PENDING"
        /\ calls' = [calls EXCEPT ![k] = c]
        /\ begun' = begun + 1
        /\ UNCHANGED <<row, cards, applied, content, told, failed, lost, reopened>>
    BY DEF Review
  <1>2. c \in Call
    BY DEF Inv, TypeOK, Row, Call, Phases, Payloads
  <1>3. TypeOK'
    BY <1>1, <1>2 DEF Inv, TypeOK, Present
  <1>4. calls'[k] = c /\ \A j \in Reviews : j # k => calls'[j] = calls[j]
    BY <1>1 DEF Inv, TypeOK
  <1>5. CallsFit'
    BY <1>1, <1>4 DEF Inv, CallsFit, Free
  <1>6. \A j \in Reviews, x \in Requests : Holds(j, x)' => Holds(j, x)
    BY <1>4 DEF Holds
  <1>7. \A x \in Requests : Held(x)' => Held(x)
    BY <1>6 DEF Held
  <1>8. Holders'
    BY <1>1, <1>6 DEF Inv, Holders, Taken
  <1>9. Effects'
    BY <1>1, <1>4 DEF Inv, Effects, On, Taken
  <1>10. Settlements'
    <2>1. \A x \in Requests : \A u : Settled(x, u)' => Settled(x, u)
      BY <1>1, <1>4 DEF Settled, On
    <2> QED BY <1>1, <1>7, <2>1 DEF Inv, Settlements, Taken
  <1>11. \A x \in Requests : row[x].status = "APPROVED" /\ Held(x) => Held(x)'
    <2>1. ~Holds(k, q) /\ \A x \in Requests : Holds(k, x) => FALSE
      BY <1>1 DEF Review, Free, Holds
    <2> QED BY <1>4, <2>1 DEF Held, Holds
  <1>12. ApprovedIsDone' /\ RecordedAsApplied'
    BY <1>1, <1>11 DEF Inv, ApprovedIsDone, RecordedAsApplied
  <1>13. Agreement'
    BY <1>1, <1>4 DEF Inv, Agreement, On, Taken
  <1> QED BY <1>3, <1>5, <1>8, <1>9, <1>10, <1>12, <1>13 DEF Inv

\* What Goto and End do to the review, and that the others stay.
LEMMA GotoMeans ==
    ASSUME TypeOK, NEW k \in Reviews, NEW p \in Phases, Goto(k, p)
    PROVE  /\ calls' \in [Reviews -> Call]
           /\ \A j \in Reviews : j # k => calls'[j] = calls[j]
           /\ calls'[k].phase = p
           /\ calls'[k].request = calls[k].request /\ calls'[k].verdict = calls[k].verdict
           /\ calls'[k].amend = calls[k].amend /\ calls'[k].payload = calls[k].payload
PROOF
  <1>1. calls[k] \in Call /\ calls' = [calls EXCEPT ![k].phase = p]
    BY DEF TypeOK, Goto
  <1>2. calls'[k] = [calls[k] EXCEPT !.phase = p]
    BY <1>1 DEF TypeOK
  <1> QED BY <1>1, <1>2 DEF TypeOK, Call

LEMMA EndMeans ==
    ASSUME TypeOK, NEW k \in Reviews, End(k)
    PROVE  /\ calls' \in [Reviews -> Call]
           /\ \A j \in Reviews : j # k => calls'[j] = calls[j]
           /\ calls'[k].phase = "idle"
PROOF
  <1>1. Idle \in Call /\ Idle.phase = "idle"
    BY DEF Idle, Call, Phases, Payloads
  <1> QED BY <1>1 DEF TypeOK, End

\* Nobody holds a request that is open, and nothing of it is settled.
LEMMA OpenIsFree ==
    ASSUME Inv, NEW q \in Requests, row[q].status = "PENDING"
    PROVE  /\ ~Held(q) /\ \A v \in {"accepted", "refused"} : ~Settled(q, v)
           /\ ~Taken(q)
PROOF
  <1>1. ~Taken(q)
    BY DEF Taken
  <1>2. ~Held(q)
    BY <1>1 DEF Inv, Holders, Held
  <1> QED BY <1>1, <1>2 DEF Inv, Settlements

\* The claim: of all reviews this one holds the request, which was not carried out.
LEMMA ClaimKeeps ==
    ASSUME Inv, NEW k \in Reviews, NEW q \in Requests, calls[k].request = q, Claim(k)
    PROVE  Inv'
PROOF
  <1>1. /\ calls[k].phase = "claim" /\ row[q].status = "PENDING"
        /\ row' = [row EXCEPT ![q].status = "APPROVED", ![q].payload = Recorded(k)]
        /\ Goto(k, "apply")
        /\ UNCHANGED <<cards, begun, applied, content, told, failed, lost, reopened>>
    BY DEF Claim
  <1>2. calls[k].verdict = "accepted"
    BY <1>1 DEF Inv, CallsFit
  <1>3. /\ calls' \in [Reviews -> Call]
        /\ \A j \in Reviews : j # k => calls'[j] = calls[j]
        /\ calls'[k].phase = "apply" /\ calls'[k].request = q
        /\ calls'[k].verdict = "accepted" /\ calls'[k].amend = calls[k].amend
        /\ calls'[k].payload = calls[k].payload
    BY <1>1, <1>2, GotoMeans DEF Inv, Phases
  <1>4. Recorded(k) \in Payloads
    BY <1>2 DEF Inv, TypeOK, Row, Call, Recorded
  <1>5. /\ row'[q].status = "APPROVED" /\ row'[q].payload = Recorded(k)
        /\ row'[q].kind = row[q].kind /\ row'[q].card = row[q].card
        /\ row' \in [Requests -> Row]
        /\ \A x \in Requests : x # q => row'[x] = row[x]
    BY <1>1, <1>2, <1>4 DEF Inv, TypeOK, Row, Statuses
  <1>6. TypeOK'
    BY <1>1, <1>3, <1>5 DEF Inv, TypeOK, Present, Statuses
  <1>7. CallsFit'
    BY <1>3, <1>5 DEF Inv, CallsFit, Free
  <1>8. /\ ~Held(q) /\ ~Settled(q, "accepted") /\ ~Settled(q, "refused") /\ ~Taken(q)
    BY <1>1, <1>2, OpenIsFree
  <1>9. \A x \in Requests \ {q}, j \in Reviews : Holds(j, x)' <=> Holds(j, x)
    BY <1>1, <1>3 DEF Holds
  <1>10. \A j \in Reviews : Holds(j, q)' <=> j = k
    BY <1>3, <1>8 DEF Holds, Held
  <1>11. Holders'
    BY <1>5, <1>9, <1>10 DEF Inv, Holders, Taken
  <1>12. Effects'
    BY <1>1, <1>3, <1>5, <1>8, <1>10 DEF Inv, Effects, On, Taken, Holds
  <1>13. \A x \in Requests : \A v : Settled(x, v)' <=> Settled(x, v)
    BY <1>1, <1>3 DEF Settled, On
  <1>14. Settlements'
    BY <1>1, <1>5, <1>8, <1>9, <1>13 DEF Inv, Settlements, Held, Taken
  <1>15. ApprovedIsDone'
    BY <1>1, <1>5, <1>9, <1>10 DEF Inv, ApprovedIsDone, Held
  <1>16. q \notin reopened => applied[q] = 0
    BY <1>2, <1>8 DEF Inv, Agreement
  <1>17. RecordedAsApplied'
    BY <1>1, <1>5, <1>16 DEF Inv, RecordedAsApplied
  <1>18. q \notin reopened => Recorded(k) = calls[k].payload
    BY <1>1, <1>2 DEF Inv, Agreement, On, Recorded
  <1>19. Agreement'
    BY <1>1, <1>3, <1>5, <1>10, <1>18 DEF Inv, Agreement, On, Taken, Holds
  <1> QED BY <1>6, <1>7, <1>11, <1>12, <1>14, <1>15, <1>17, <1>19 DEF Inv

\* The refusal: it settles an open request.
LEMMA RefuseKeeps ==
    ASSUME Inv, NEW k \in Reviews, NEW q \in Requests, calls[k].request = q, Refuse(k)
    PROVE  Inv'
PROOF
  <1>1. /\ calls[k].phase = "refuse" /\ row[q].status = "PENDING"
        /\ row' = [row EXCEPT ![q].status = "REJECTED"]
        /\ Goto(k, "tell")
        /\ UNCHANGED <<cards, begun, applied, content, told, failed, lost, reopened>>
    BY DEF Refuse
  <1>2. calls[k].verdict = "refused"
    BY <1>1 DEF Inv, CallsFit
  <1>3. /\ calls' \in [Reviews -> Call]
        /\ \A j \in Reviews : j # k => calls'[j] = calls[j]
        /\ calls'[k].phase = "tell" /\ calls'[k].request = q
        /\ calls'[k].verdict = "refused"
    BY <1>1, <1>2, GotoMeans DEF Inv, Phases
  <1>4. /\ row'[q].status = "REJECTED" /\ row'[q].payload = row[q].payload
        /\ row'[q].kind = row[q].kind /\ row'[q].card = row[q].card
        /\ row' \in [Requests -> Row]
        /\ \A x \in Requests : x # q => row'[x] = row[x]
    BY <1>1, <1>2 DEF Inv, TypeOK, Row, Statuses
  <1>5. TypeOK'
    BY <1>1, <1>3, <1>4 DEF Inv, TypeOK, Present, Statuses
  <1>6. CallsFit'
    BY <1>3, <1>4 DEF Inv, CallsFit, Free
  <1>7. /\ ~Held(q) /\ ~Settled(q, "accepted") /\ ~Settled(q, "refused") /\ ~Taken(q)
    BY <1>1, <1>2, OpenIsFree
  <1>8. \A x \in Requests, j \in Reviews : Holds(j, x)' <=> Holds(j, x)
    BY <1>1, <1>3 DEF Holds
  <1>9. \A x \in Requests : Held(x)' <=> Held(x)
    BY <1>8 DEF Held
  <1>10. Holders'
    BY <1>4, <1>7, <1>8 DEF Inv, Holders, Taken, Held
  <1>11. Effects'
    BY <1>1, <1>3, <1>4, <1>7 DEF Inv, Effects, On, Taken
  <1>12. /\ \A x \in Requests \ {q} : \A v : Settled(x, v)' <=> Settled(x, v)
         /\ ~Settled(q, "accepted")'
    BY <1>1, <1>3, <1>7 DEF Settled, On
  <1>13. Settlements'
    BY <1>1, <1>4, <1>7, <1>9, <1>12 DEF Inv, Settlements, Taken
  <1>14. ApprovedIsDone' /\ RecordedAsApplied'
    BY <1>1, <1>4, <1>9 DEF Inv, ApprovedIsDone, RecordedAsApplied
  <1>15. Agreement'
    BY <1>1, <1>3, <1>4, <1>7 DEF Inv, Agreement, On, Taken
  <1> QED BY <1>5, <1>6, <1>10, <1>11, <1>13, <1>14, <1>15 DEF Inv

\* A review ends, told the member or not: what it held is lost.
LEMMA EndKeeps ==
    ASSUME Inv, NEW k \in Reviews, NEW q \in Requests, calls[k].request = q,
           Conflict(k) \/ Tell(k) \/ Stop(k)
    PROVE  Inv'
PROOF
  <1>1. End(k) /\ UNCHANGED <<row, cards, begun, applied, content, reopened>>
    BY DEF Conflict, Tell, Stop
  <1>2. /\ calls' \in [Reviews -> Call]
        /\ \A j \in Reviews : j # k => calls'[j] = calls[j]
        /\ calls'[k].phase = "idle"
    BY <1>1, EndMeans DEF Inv
  <1>3. /\ failed \subseteq failed' /\ failed' \subseteq Requests
        /\ lost \subseteq lost' /\ lost' \subseteq Requests
        /\ Holds(k, q) => q \in lost'
    BY DEF Conflict, Tell, Stop, Inv, TypeOK, Holds
  <1>4. /\ told' \in [Requests -> SUBSET {"accepted", "refused"}]
        /\ \A x \in Requests : \A v : v \in told'[x] =>
                \/ v \in told[x]
                \/ Tell(k) /\ x = q /\ v = calls[k].verdict
    <2>1. CASE Conflict(k) \/ Stop(k)
      BY <2>1 DEF Conflict, Stop, Inv, TypeOK
    <2>2. CASE Tell(k)
      <3>1. told' = [told EXCEPT ![q] = @ \cup {calls[k].verdict}]
        BY <2>2 DEF Tell
      <3>2. calls[k].verdict \in {"accepted", "refused"}
        BY DEF Inv, TypeOK, Call
      <3> QED BY <2>2, <3>1, <3>2 DEF Inv, TypeOK
    <2> QED BY <2>1, <2>2
  <1>5. TypeOK'
    BY <1>1, <1>2, <1>3, <1>4 DEF Inv, TypeOK, Present
  <1>6. CallsFit'
    BY <1>1, <1>2 DEF Inv, CallsFit, Free
  <1>7. /\ \A j \in Reviews, x \in Requests : Holds(j, x)' => Holds(j, x)
        /\ \A j \in Reviews, x \in Requests : j # k => (Holds(j, x)' <=> Holds(j, x))
        /\ \A x \in Requests : Holds(k, x) => x = q
    BY <1>2 DEF Holds
  <1>8. Holders'
    BY <1>1, <1>7 DEF Inv, Holders, Taken
  <1>9. Effects'
    BY <1>1, <1>2, <1>3 DEF Inv, Effects, On, Taken
  <1>10. \A x \in Requests : \A v : Settled(x, v)' => Settled(x, v)
    BY <1>2, <1>4 DEF Settled, On, Tell
  <1>11. Settlements'
    BY <1>1, <1>7, <1>10 DEF Inv, Settlements, Held, Taken
  <1>12. ApprovedIsDone'
    BY <1>1, <1>3, <1>7 DEF Inv, ApprovedIsDone, Held
  <1>13. RecordedAsApplied' /\ Agreement'
    BY <1>1, <1>2 DEF Inv, RecordedAsApplied, Agreement, On, Taken
  <1> QED BY <1>5, <1>6, <1>8, <1>9, <1>11, <1>12, <1>13 DEF Inv

\* What was carried out is settled, and not held any more.
LEMMA FinishKeeps ==
    ASSUME Inv, NEW k \in Reviews, NEW q \in Requests, calls[k].request = q, Finish(k)
    PROVE  Inv'
PROOF
  <1>1. /\ Goto(k, "tell") /\ calls[k].phase = "applied"
        /\ UNCHANGED <<row, cards, begun, applied, content, told, failed, lost, reopened>>
    BY DEF Finish
  <1>2. /\ calls' \in [Reviews -> Call]
        /\ \A j \in Reviews : j # k => calls'[j] = calls[j]
        /\ calls'[k].phase = "tell" /\ calls'[k].request = q
        /\ calls'[k].verdict = calls[k].verdict
    BY <1>1, GotoMeans DEF Inv, Phases
  <1>3. TypeOK'
    BY <1>1, <1>2 DEF Inv, TypeOK, Present
  <1>4. CallsFit' /\ calls[k].verdict = "accepted"
    BY <1>1, <1>2 DEF Inv, CallsFit, Free
  <1>5. /\ \A j \in Reviews, x \in Requests : Holds(j, x)' => Holds(j, x)
        /\ \A j \in Reviews, x \in Requests : x # q => (Holds(j, x)' <=> Holds(j, x))
        /\ Holds(k, q) /\ ~Holds(k, q)'
    BY <1>1, <1>2 DEF Holds
  <1>6. applied[q] > 0 /\ Taken(q) /\ Held(q)
    BY <1>1, <1>5 DEF Inv, Effects, Holders, On, Held
  <1>7. ~Held(q)'
    BY <1>5 DEF Inv, Holders, Held
  <1>8. Holders'
    BY <1>1, <1>5 DEF Inv, Holders, Taken
  <1>9. Effects'
    BY <1>1, <1>2 DEF Inv, Effects, On, Taken
  <1>10. \A x \in Requests : \A v : Settled(x, v)' <=> (Settled(x, v) \/ (x = q /\ v = "accepted"))
    BY <1>1, <1>2, <1>4 DEF Settled, On
  <1>11. Settlements'
    BY <1>1, <1>5, <1>6, <1>7, <1>10 DEF Inv, Settlements, Held, Taken
  <1>12. ApprovedIsDone'
    BY <1>1, <1>5, <1>6 DEF Inv, ApprovedIsDone, Held
  <1>13. RecordedAsApplied' /\ Agreement'
    BY <1>1, <1>2 DEF Inv, RecordedAsApplied, Agreement, On, Taken
  <1> QED BY <1>3, <1>4, <1>8, <1>9, <1>11, <1>12, <1>13 DEF Inv

\* A failure is recorded when the change had taken effect.
LEMMA ThrowKeeps ==
    ASSUME Inv, NEW k \in Reviews, NEW q \in Requests, calls[k].request = q, Throw(k)
    PROVE  Inv'
PROOF
  <1>1. /\ Goto(k, "rollback") /\ calls[k].phase \in {"apply", "applied"}
        /\ failed' = (IF calls[k].phase = "applied" THEN failed \cup {q} ELSE failed)
        /\ UNCHANGED <<row, cards, begun, applied, content, told, lost, reopened>>
    BY DEF Throw
  <1>2. /\ calls' \in [Reviews -> Call]
        /\ \A j \in Reviews : j # k => calls'[j] = calls[j]
        /\ calls'[k].phase = "rollback" /\ calls'[k].request = q
        /\ calls'[k].verdict = calls[k].verdict
    BY <1>1, GotoMeans DEF Inv, Phases
  <1>3. TypeOK'
    BY <1>1, <1>2 DEF Inv, TypeOK, Present
  <1>4. CallsFit'
    BY <1>1, <1>2 DEF Inv, CallsFit, Free
  <1>5. \A j \in Reviews, x \in Requests : Holds(j, x)' <=> Holds(j, x)
    BY <1>1, <1>2 DEF Holds
  <1>6. \A x \in Requests : Held(x)' <=> Held(x)
    BY <1>5 DEF Held
  <1>7. Holders'
    BY <1>1, <1>5 DEF Inv, Holders, Taken
  <1>8. Effects'
    BY <1>1, <1>2 DEF Inv, Effects, On, Taken
  <1>9. \A x \in Requests : \A v : Settled(x, v)' => Settled(x, v)
    BY <1>1, <1>2 DEF Settled, On
  <1>10. Settlements'
    BY <1>1, <1>6, <1>9 DEF Inv, Settlements, Taken
  <1>11. ApprovedIsDone' /\ RecordedAsApplied'
    BY <1>1, <1>6 DEF Inv, ApprovedIsDone, RecordedAsApplied
  <1>12. Agreement'
    BY <1>1, <1>2 DEF Inv, Agreement, On, Taken
  <1> QED BY <1>3, <1>4, <1>7, <1>8, <1>10, <1>11, <1>12 DEF Inv

\* The request is open again if nobody deleted it; if its change took effect all the
\* same, it is in failed.
LEMMA RollbackKeeps ==
    ASSUME Inv, NEW k \in Reviews, NEW q \in Requests, calls[k].request = q, Rollback(k)
    PROVE  Inv'
PROOF
  <1>1. /\ End(k) /\ calls[k].phase = "rollback"
        /\ IF row[q].status = "APPROVED"
           THEN row' = [row EXCEPT ![q].status = "PENDING"] /\ reopened' = reopened \cup {q}
           ELSE UNCHANGED <<row, reopened>>
        /\ UNCHANGED <<cards, begun, applied, content, told, failed, lost>>
    BY DEF Rollback
  <1>2. /\ calls' \in [Reviews -> Call]
        /\ \A j \in Reviews : j # k => calls'[j] = calls[j]
        /\ calls'[k].phase = "idle"
    BY <1>1, EndMeans DEF Inv
  <1>3. Holds(k, q) /\ Held(q) /\ Taken(q)
    BY <1>1 DEF Holds, Held, Inv, Holders
  <1>4. /\ row'[q].status = (IF row[q].status = "APPROVED" THEN "PENDING" ELSE "deleted")
        /\ row'[q].payload = row[q].payload
        /\ row'[q].kind = row[q].kind /\ row'[q].card = row[q].card
        /\ row' \in [Requests -> Row]
        /\ \A x \in Requests : x # q => row'[x] = row[x]
    BY <1>1, <1>3 DEF Inv, TypeOK, Row, Statuses, Taken
  <1>5. /\ reopened \subseteq reopened' /\ reopened' \subseteq Requests
        /\ row[q].status = "APPROVED" => q \in reopened'
    BY <1>1 DEF Inv, TypeOK
  <1>6. TypeOK'
    BY <1>1, <1>2, <1>3, <1>4, <1>5 DEF Inv, TypeOK, Present, Statuses, Taken
  <1>7. CallsFit'
    BY <1>2, <1>4 DEF Inv, CallsFit, Free
  <1>8. /\ \A j \in Reviews, x \in Requests : Holds(j, x)' => Holds(j, x) /\ j # k
        /\ \A j \in Reviews, x \in Requests : x # q => (Holds(j, x)' <=> Holds(j, x))
    BY <1>1, <1>2 DEF Holds
  <1>9. ~Held(q)'
    BY <1>3, <1>8 DEF Inv, Holders, Held
  <1>10. Holders'
    BY <1>4, <1>8, <1>9 DEF Inv, Holders, Taken, Held
  <1>11. q \notin failed => applied[q] = 0
    BY <1>1 DEF Inv, Effects, On
  <1>12. Effects'
    BY <1>1, <1>2, <1>4, <1>11 DEF Inv, Effects, On, Taken
  <1>13. /\ \A x \in Requests : \A v : Settled(x, v)' => Settled(x, v)
         /\ ~Settled(q, "accepted") /\ ~Settled(q, "refused")
    BY <1>1, <1>2, <1>3 DEF Settled, On, Inv, Settlements
  <1>14. Settlements'
    BY <1>1, <1>4, <1>8, <1>13 DEF Inv, Settlements, Held, Taken
  <1>15. ApprovedIsDone'
    BY <1>1, <1>4, <1>8 DEF Inv, ApprovedIsDone, Held
  <1>16. RecordedAsApplied'
    BY <1>1, <1>4, <1>5 DEF Inv, RecordedAsApplied
  <1>17. Agreement'
    BY <1>1, <1>2, <1>3, <1>4, <1>5 DEF Inv, Agreement, On, Taken
  <1> QED BY <1>6, <1>7, <1>10, <1>12, <1>14, <1>15, <1>16, <1>17 DEF Inv

\* A card takes the requests about it along, and leaves the others.
LEMMA CardLeaves ==
    ASSUME Inv, NEW c \in Cards, row' = WithoutCard(c), cards' = cards \ {c}
    PROVE  /\ row' \in [Requests -> Row]
           /\ \A x \in Requests : row'[x] = row[x] \/ row'[x].status = "deleted"
           /\ \A x \in Requests : Present(x) /\ row[x].card = c => row'[x].status = "deleted"
           /\ \A x \in Requests : Present(x)' /\ row'[x].kind # "create"
                                  => row'[x].card \in cards'
           /\ \A x \in Requests : row[x].status = "none" <=> row'[x].status = "none"
PROOF
  <1>1. Deleted \in Row /\ Deleted.status = "deleted"
    BY DEF Deleted, NoRow, Row, Kinds, Payloads
  <1>2. \A x \in Requests :
            row'[x] = (IF Present(x) /\ row[x].card = c THEN Deleted ELSE row[x])
    BY DEF WithoutCard
  <1>3. row' \in [Requests -> Row]
    BY <1>1 DEF WithoutCard, Inv, TypeOK
  <1>4. \A x \in Requests : Present(x)' => row'[x] = row[x] /\ row[x].card # c /\ Present(x)
    BY <1>1, <1>2 DEF Present, Statuses
  <1>5. \A x \in Requests : Present(x)' /\ row'[x].kind # "create" => row'[x].card \in cards'
    BY <1>4 DEF Inv, TypeOK
  <1>6. \A x \in Requests : row[x].status = "none" <=> row'[x].status = "none"
    BY <1>1, <1>2 DEF Present, Statuses
  <1> QED BY <1>1, <1>2, <1>3, <1>5, <1>6

LEMMA DeleteCardKeeps ==
    ASSUME Inv, NEW c \in Cards, DeleteCard(c)
    PROVE  Inv'
PROOF
  <1>1. /\ row' = WithoutCard(c) /\ cards' = cards \ {c}
        /\ UNCHANGED <<calls, begun, applied, content, told, failed, lost, reopened>>
    BY DEF DeleteCard
  <1>2. /\ row' \in [Requests -> Row]
        /\ \A x \in Requests : row'[x] = row[x] \/ row'[x].status = "deleted"
        /\ \A x \in Requests : Present(x)' /\ row'[x].kind # "create" => row'[x].card \in cards'
        /\ \A x \in Requests : row[x].status = "none" <=> row'[x].status = "none"
    BY <1>1, CardLeaves
  <1>3. TypeOK'
    BY <1>1, <1>2 DEF Inv, TypeOK
  <1>4. CallsFit'
    BY <1>1, <1>2 DEF Inv, CallsFit, Free
  <1>5. \A x \in Requests : Held(x)' <=> Held(x)
    BY <1>1 DEF Held, Holds
  <1>6. Holders'
    BY <1>1, <1>2 DEF Inv, Holders, Holds, Taken
  <1>7. Effects'
    BY <1>1, <1>2 DEF Inv, Effects, On, Taken
  <1>8. \A x \in Requests : \A v : Settled(x, v)' <=> Settled(x, v)
    BY <1>1 DEF Settled, On
  <1>9. Settlements'
    BY <1>1, <1>2, <1>5, <1>8 DEF Inv, Settlements, Taken
  <1>10. ApprovedIsDone' /\ RecordedAsApplied'
    BY <1>1, <1>2, <1>5 DEF Inv, ApprovedIsDone, RecordedAsApplied
  <1>11. Agreement'
    BY <1>1, <1>2 DEF Inv, Agreement, On, Taken
  <1> QED BY <1>3, <1>4, <1>6, <1>7, <1>9, <1>10, <1>11 DEF Inv

\* The change takes effect for the first time, unless the request is in failed.
LEMMA ApplyKeeps ==
    ASSUME Inv, NEW k \in Reviews, NEW q \in Requests, calls[k].request = q, Apply(k)
    PROVE  Inv'
PROOF
  <1> DEFINE p == IF row[q].kind = "delete" THEN "tell" ELSE "applied"
  <1>1. /\ calls[k].phase = "apply" /\ Present(q) /\ Goto(k, p)
        /\ applied' = [applied EXCEPT ![q] = @ + 1]
        /\ content' = [content EXCEPT ![q] = calls[k].payload]
        /\ IF row[q].kind = "delete"
           THEN cards' = cards \ {row[q].card} /\ row' = WithoutCard(row[q].card)
           ELSE UNCHANGED <<cards, row>>
        /\ UNCHANGED <<begun, told, failed, lost, reopened>>
    BY DEF Apply
  <1>2. /\ calls' \in [Reviews -> Call]
        /\ \A j \in Reviews : j # k => calls'[j] = calls[j]
        /\ calls'[k].phase = p /\ calls'[k].request = q
        /\ calls'[k].verdict = calls[k].verdict
    BY <1>1, GotoMeans DEF Inv, Phases
  <1>3. /\ row' \in [Requests -> Row] /\ cards' \subseteq Cards
        /\ \A x \in Requests : row'[x] = row[x] \/ row'[x].status = "deleted"
        /\ row[q].kind = "delete" => row'[q].status = "deleted"
        /\ \A x \in Requests : Present(x)' /\ row'[x].kind # "create" => row'[x].card \in cards'
        /\ \A x \in Requests : row[x].status = "none" <=> row'[x].status = "none"
    <2>1. CASE row[q].kind = "delete"
      <3>1. row[q].card \in Cards
        BY <1>1, <2>1 DEF Inv, TypeOK
      <3>2. row' = WithoutCard(row[q].card) /\ cards' = cards \ {row[q].card} /\ Present(q)
        BY <1>1, <2>1
      <3> QED BY <3>1, <3>2, CardLeaves DEF Inv, TypeOK
    <2>2. CASE row[q].kind # "delete"
      BY <1>1, <2>2 DEF Inv, TypeOK, Present
    <2> QED BY <2>1, <2>2
  <1>4. /\ applied' \in [Requests -> Nat] /\ content' \in [Requests -> Payloads]
        /\ applied'[q] = applied[q] + 1 /\ content'[q] = calls[k].payload
        /\ \A x \in Requests : x # q => applied'[x] = applied[x] /\ content'[x] = content[x]
        /\ applied[q] \in Nat
    BY <1>1 DEF Inv, TypeOK, Call
  <1>5. TypeOK'
    BY <1>1, <1>2, <1>3, <1>4 DEF Inv, TypeOK
  <1>6. CallsFit' /\ calls[k].verdict = "accepted"
    BY <1>1, <1>2, <1>3 DEF Inv, CallsFit, Free
  <1>7. /\ \A j \in Reviews, x \in Requests : Holds(j, x)' => Holds(j, x)
        /\ \A j \in Reviews, x \in Requests : x # q => (Holds(j, x)' <=> Holds(j, x))
        /\ Holds(k, q) /\ (Holds(k, q)' <=> p = "applied")
    BY <1>1, <1>2 DEF Holds
  <1>8. Taken(q) /\ Taken(q)' /\ Held(q)
    BY <1>3, <1>7 DEF Inv, Holders, Held, Taken
  <1>9. Holders'
    BY <1>3, <1>7 DEF Inv, Holders, Taken
  <1>10. \A j \in Reviews : On(j, q, {"apply", "applied", "rollback"}) => j = k
    BY <1>7 DEF Inv, Holders, Holds, On
  <1>11. Effects'
    <2>1. q \notin failed => applied[q] = 0
      BY <1>1 DEF Inv, Effects, On
    <2>2. \A j \in Reviews : ~On(j, q, {"apply", "rollback"})'
      BY <1>2, <1>10 DEF On
    <2>3. \A j \in Reviews, x \in Requests : \A P : x # q => (On(j, x, P)' <=> On(j, x, P))
      BY <1>2 DEF On
    <2> QED BY <1>1, <1>3, <1>4, <1>8, <2>1, <2>2, <2>3 DEF Inv, Effects, Taken
  <1>12. \A x \in Requests : \A v : Settled(x, v)' => (Settled(x, v)
                                        \/ (x = q /\ v = "accepted" /\ p = "tell"))
    BY <1>1, <1>2, <1>6 DEF Settled, On
  <1>13. p = "tell" => ~Held(q)'
    BY <1>7 DEF Inv, Holders, Held
  <1>14. Settlements'
    <2>1. \A x \in Requests : x # q => (Held(x)' <=> Held(x))
      BY <1>7 DEF Held
    <2>2. ~Settled(q, "accepted") /\ ~Settled(q, "refused")
      BY <1>8 DEF Inv, Settlements
    <2>3. ~Settled(q, "refused")' /\ (Settled(q, "accepted")' => p = "tell")
      BY <1>12, <2>2
    <2> QED BY <1>3, <1>4, <1>8, <1>12, <1>13, <2>1, <2>3 DEF Inv, Settlements, Taken
  <1>15. ApprovedIsDone'
    BY <1>1, <1>3, <1>4, <1>7 DEF Inv, ApprovedIsDone, Held
  <1>16. RecordedAsApplied'
    BY <1>1, <1>3, <1>4 DEF Inv, Agreement, RecordedAsApplied, On
  <1>17. Agreement'
    BY <1>1, <1>2, <1>3, <1>4, <1>8 DEF Inv, Agreement, On, Taken
  <1> QED BY <1>5, <1>6, <1>9, <1>11, <1>14, <1>15, <1>16, <1>17 DEF Inv

----------------------------------------------------------------------------
LEMMA InvKeeps == Inv /\ [Next]_vars => Inv'
PROOF
  <1> SUFFICES ASSUME Inv, [Next]_vars PROVE Inv'
    OBVIOUS
  <1>1. CASE UNCHANGED vars
    BY <1>1 DEF vars, Inv, TypeOK, CallsFit, Holders, Effects, ApprovedIsDone, Settlements,
                Agreement, RecordedAsApplied, Present, Free, Holds, Held, Taken, On, Settled
  <1>2. ASSUME NEW k \in Reviews,
               \/ Claim(k) \/ Refuse(k) \/ Conflict(k) \/ Apply(k) \/ Finish(k) \/ Throw(k)
               \/ Rollback(k) \/ Tell(k) \/ Stop(k)
        PROVE  Inv'
    <2>1. ~Free(k)
      BY <1>2 DEF Claim, Refuse, Conflict, Apply, Finish, Throw, Rollback, Tell, Stop, Free
    <2>2. PICK q \in Requests : calls[k].request = q
      BY <2>1 DEF Inv, CallsFit
    <2> QED
      BY <1>2, <2>2, ClaimKeeps, RefuseKeeps, EndKeeps, ApplyKeeps, FinishKeeps, ThrowKeeps,
         RollbackKeeps
  <1>3. ASSUME NEW q \in Requests, NEW kind \in Kinds, NEW c \in Cards \cup {None},
               CreateRequest(q, kind, c)
        PROVE  Inv'
    BY <1>3, CreateKeeps
  <1> QED
    BY <1>1, <1>2, <1>3, ReviewKeeps, DeleteCardKeeps DEF Next

LEMMA Invariance == Spec => []Inv
PROOF
  BY InvStarts, InvKeeps, PTL DEF Spec

\* Types hold, and with them: a request about a card that is gone has gone with it,
\* the cascade of the foreign key.
THEOREM ReviewTypesCorrect == Spec => []TypeOK
PROOF
  <1>1. Inv => TypeOK
    BY DEF Inv
  <1> QED BY <1>1, Invariance, PTL

\* A change is carried out once if it is approved and never if it is refused, however
\* many reviews look at the request, unless one failed after it took effect.
THEOREM AppliedAsDecidedCorrect == Spec => []AppliedAsDecided
PROOF
  <1>1. Inv => AppliedAsDecided
    <2> SUFFICES ASSUME Inv, NEW q \in Requests \ failed
                 PROVE  applied[q] <= IF Taken(q) THEN 1 ELSE 0
      BY DEF AppliedAsDecided, Taken
    <2>1. applied[q] \in Nat /\ applied[q] <= 1 /\ (~Taken(q) => applied[q] = 0)
      BY DEF Inv, TypeOK, Effects
    <2> QED BY <2>1
  <1> QED BY <1>1, Invariance, PTL

\* The member is told of one verdict, the one that stands.
THEOREM ToldTheTruthCorrect == Spec => []ToldTheTruth
PROOF
  <1>1. Inv => ToldTheTruth
    BY DEF Inv, Settlements, Settled, ToldTheTruth, Taken
  <1> QED BY <1>1, Invariance, PTL

\* An approved request whose review is over has been carried out, unless the review
\* stopped on the way.
THEOREM ApprovedIsDoneCorrect == Spec => []ApprovedIsDone
PROOF
  <1>1. Inv => ApprovedIsDone
    BY DEF Inv
  <1> QED BY <1>1, Invariance, PTL

\* The payload on record is the one carried out, unless the request was reopened.
THEOREM RecordedAsAppliedCorrect == Spec => []RecordedAsApplied
PROOF
  <1>1. Inv => RecordedAsApplied
    BY DEF Inv
  <1> QED BY <1>1, Invariance, PTL

----------------------------------------------------------------------------
(* ChangeRequests implements Decisions.                                    *)

\* The verdict the refinement mapping gives a request.
Verdict(q) ==
    CASE ~Present(q) -> "closed"
      [] Present(q) /\ (row[q].status = "PENDING" \/ Held(q)) -> "open"
      [] row[q].status = "APPROVED" /\ ~Held(q) -> "accepted"
      [] row[q].status = "REJECTED" /\ ~Held(q) -> "refused"

Verdicts == [q \in Requests |-> Verdict(q)]

\* The mapping in the cases it has.
LEMMA VerdictIs ==
    ASSUME NEW q \in Requests
    PROVE  /\ ~Present(q) => Verdicts[q] = "closed"
           /\ row[q].status = "PENDING" => Verdicts[q] = "open"
           /\ Present(q) /\ Held(q) => Verdicts[q] = "open"
           /\ row[q].status = "APPROVED" /\ ~Held(q) => Verdicts[q] = "accepted"
           /\ row[q].status = "REJECTED" /\ ~Held(q) => Verdicts[q] = "refused"
PROOF
  BY DEF Verdicts, Verdict, Present, Statuses

\* What one step may do to a verdict, in terms of Decisions.
Stays == \A x \in Requests : Verdicts'[x] = Verdicts[x]
Decides(q) ==
    /\ \A x \in Requests : x # q => Verdicts'[x] = Verdicts[x]
    /\ \/ Verdicts[q] = "closed" /\ Verdicts'[q] = "open"
       \/ Verdicts[q] = "open" /\ Verdicts'[q] \in {"accepted", "refused"}
LeaveTogether == \A x \in Requests : Verdicts'[x] = Verdicts[x] \/ Verdicts'[x] = "closed"

LEMMA StepOfDecisions ==
    ASSUME Stays \/ (\E q \in Requests : Decides(q)) \/ LeaveTogether
    PROVE  [Decided!Next]_Verdicts
PROOF
  <1>0. Verdicts = [x \in Requests |-> Verdicts[x]] /\ Verdicts' = [x \in Requests |-> Verdicts'[x]]
    BY DEF Verdicts
  <1>1. CASE Stays
    BY <1>0, <1>1 DEF Stays
  <1>2. ASSUME NEW q \in Requests, Decides(q)
        PROVE  Decided!Next
    <2>1. Verdicts' = [Verdicts EXCEPT ![q] = Verdicts'[q]]
      BY <1>0, <1>2 DEF Decides
    <2>2. Decided!Open(q) \/ \E v \in {"accepted", "refused"} : Decided!Decide(q, v)
      BY <1>2, <2>1 DEF Decides, Decided!Open, Decided!Decide, Verdicts, Verdict
    <2> QED BY <1>2, <2>2 DEF Decided!Next
  <1>3. CASE LeaveTogether
    <2>1. PICK Q \in SUBSET Requests : Q = {x \in Requests : Verdicts'[x] = "closed"}
      OBVIOUS
    <2>2. Verdicts' = [x \in Requests |-> IF x \in Q THEN "closed" ELSE Verdicts[x]]
      BY <1>0, <1>3, <2>1 DEF LeaveTogether
    <2>3. Decided!Leave(Q)
      BY <2>2 DEF Decided!Leave, Verdicts, Verdict
    <2> QED BY <2>3 DEF Decided!Next
  <1> QED BY <1>1, <1>2, <1>3

\* The same of the next state.
LEMMA VerdictWillBe ==
    ASSUME NEW q \in Requests
    PROVE  /\ ~Present(q)' => Verdicts'[q] = "closed"
           /\ row'[q].status = "PENDING" => Verdicts'[q] = "open"
           /\ Present(q)' /\ Held(q)' => Verdicts'[q] = "open"
           /\ row'[q].status = "APPROVED" /\ ~Held(q)' => Verdicts'[q] = "accepted"
           /\ row'[q].status = "REJECTED" /\ ~Held(q)' => Verdicts'[q] = "refused"
PROOF
  BY DEF Verdicts, Verdict, Present, Statuses

LEMMA SameVerdict ==
    ASSUME NEW q \in Requests, row'[q] = row[q], Held(q)' <=> Held(q)
    PROVE  Verdicts'[q] = Verdicts[q]
PROOF
  <1>1. Present(q)' <=> Present(q)
    BY DEF Present
  <1>2. Present(q) => row[q].status \in {"PENDING", "APPROVED", "REJECTED"}
    BY DEF Present, Statuses
  <1> QED BY <1>1, <1>2, VerdictIs, VerdictWillBe

\* Who held what a step does not touch holds it still.
LEMMA OthersHold ==
    ASSUME TypeOK, NEW k \in Reviews, NEW q \in Requests, calls[k].request = q,
           \/ End(k) \/ \E p \in Phases : Goto(k, p)
    PROVE  /\ \A x \in Requests : x # q => (Held(x)' <=> Held(x))
           /\ (Holds(k, q)' <=> Holds(k, q)) => (Held(q)' <=> Held(q))
           /\ (\A j \in Reviews : Holds(j, q) => j = k) => (Held(q)' <=> Holds(k, q)')
PROOF
  <1>1. /\ \A j \in Reviews : j # k => calls'[j] = calls[j]
        /\ calls'[k].phase = "idle" \/ calls'[k].request = q
    BY EndMeans, GotoMeans
  <1> QED BY <1>1 DEF Held, Holds

\* The steps that leave the verdict of every request as it is: the claim among them,
\* since the request stays open while it is held.
LEMMA SilentSteps ==
    ASSUME Inv, NEW k \in Reviews, NEW q \in Requests, calls[k].request = q,
           Claim(k) \/ Conflict(k) \/ Throw(k) \/ Tell(k) \/ Rollback(k)
    PROVE  Stays
PROOF
  <1>1. TypeOK /\ "apply" \in Phases /\ "rollback" \in Phases
    BY DEF Inv, Phases
  <1>2. CASE Claim(k)
    <2>1. /\ Goto(k, "apply") /\ row[q].status = "PENDING"
          /\ row' = [row EXCEPT ![q].status = "APPROVED", ![q].payload = Recorded(k)]
      BY <1>2 DEF Claim
    <2>2. row'[q].status = "APPROVED" /\ \A x \in Requests : x # q => row'[x] = row[x]
      BY <1>1, <2>1 DEF TypeOK, Row
    <2>3. \A x \in Requests : x # q => (Held(x)' <=> Held(x))
      BY <1>1, <2>1, OthersHold
    <2>4. Holds(k, q)'
      BY <1>1, <2>1, GotoMeans DEF Holds
    <2>5. Present(q)' /\ Held(q)'
      BY <2>2, <2>4 DEF Present, Statuses, Held
    <2>6. Verdicts'[q] = Verdicts[q]
      BY <2>1, <2>5, VerdictIs, VerdictWillBe
    <2> QED BY <2>2, <2>3, <2>6, SameVerdict DEF Stays
  <1>3. CASE Conflict(k) \/ Tell(k)
    <2>1. End(k) /\ UNCHANGED row /\ ~Holds(k, q)
      BY <1>3 DEF Conflict, Tell, Holds
    <2>2. ~Holds(k, q)'
      BY <1>1, <2>1, EndMeans DEF Holds
    <2> QED BY <1>1, <2>1, <2>2, OthersHold, SameVerdict DEF Stays
  <1>4. CASE Throw(k)
    <2>1. Goto(k, "rollback") /\ UNCHANGED row /\ Holds(k, q)
      BY <1>4 DEF Throw, Holds
    <2>2. Holds(k, q)'
      BY <1>1, <2>1, GotoMeans DEF Holds
    <2> QED BY <1>1, <2>1, <2>2, OthersHold, SameVerdict DEF Stays
  <1>5. CASE Rollback(k)
    <2>1. /\ End(k) /\ Holds(k, q)
          /\ IF row[q].status = "APPROVED"
             THEN row' = [row EXCEPT ![q].status = "PENDING"] ELSE UNCHANGED row
      BY <1>5 DEF Rollback, Holds
    <2>2. \A x \in Requests : x # q => row'[x] = row[x] /\ (Held(x)' <=> Held(x))
      BY <1>1, <2>1, OthersHold DEF TypeOK
    <2>3. Taken(q) /\ Held(q)
      BY <2>1 DEF Inv, Holders, Held
    <2>4. CASE row[q].status = "APPROVED"
      <3>1. row'[q].status = "PENDING"
        BY <1>1, <2>1, <2>4 DEF TypeOK, Row
      <3>2. Present(q)
        BY <2>4 DEF Present, Statuses
      <3> QED BY <2>2, <2>3, <3>1, <3>2, VerdictIs, VerdictWillBe, SameVerdict DEF Stays
    <2>5. CASE row[q].status # "APPROVED"
      <3>1. ~Present(q) /\ ~Present(q)'
        BY <2>1, <2>3, <2>5 DEF Present, Statuses, Taken
      <3> QED BY <2>2, <3>1, VerdictIs, VerdictWillBe, SameVerdict DEF Stays
    <2> QED BY <2>4, <2>5
  <1> QED BY <1>2, <1>3, <1>4, <1>5

\* The steps that decide: a request is open before, and decided for good after.
LEMMA DecidingSteps ==
    ASSUME Inv, NEW k \in Reviews, NEW q \in Requests, calls[k].request = q,
           Refuse(k) \/ Finish(k) \/ Stop(k)
    PROVE  Stays \/ Decides(q)
PROOF
  <1>1. TypeOK /\ "tell" \in Phases
    BY DEF Inv, Phases
  <1>2. CASE Refuse(k)
    <2>1. Goto(k, "tell") /\ row[q].status = "PENDING" /\ row' = [row EXCEPT ![q].status = "REJECTED"]
      BY <1>2 DEF Refuse
    <2>2. row'[q].status = "REJECTED" /\ \A x \in Requests : x # q => row'[x] = row[x]
      BY <1>1, <2>1 DEF TypeOK, Row
    <2>3. ~Held(q)
      BY <2>1, OpenIsFree
    <2>4. ~Holds(k, q)' /\ ~Holds(k, q)
      BY <1>1, <2>1, <2>3, GotoMeans DEF Holds, Held
    <2>5. ~Held(q)' /\ \A x \in Requests : x # q => (Held(x)' <=> Held(x))
      BY <1>1, <2>1, <2>3, <2>4, OthersHold
    <2>6. Verdicts[q] = "open" /\ Verdicts'[q] = "refused"
      BY <2>1, <2>2, <2>5, VerdictIs, VerdictWillBe
    <2> QED BY <2>2, <2>5, <2>6, SameVerdict DEF Decides
  <1>3. CASE Finish(k) \/ Stop(k)
    <2>1. /\ UNCHANGED row
          /\ End(k) \/ Goto(k, "tell")
          /\ Finish(k) => Holds(k, q)
      BY <1>3 DEF Finish, Stop, Holds
    <2>2. ~Holds(k, q)'
      BY <1>1, <2>1, EndMeans, GotoMeans DEF Holds
    <2>3. \A x \in Requests : x # q => Verdicts'[x] = Verdicts[x]
      BY <1>1, <2>1, OthersHold, SameVerdict
    <2>4. CASE ~Holds(k, q)
      BY <1>1, <2>1, <2>2, <2>3, <2>4, OthersHold, SameVerdict DEF Stays
    <2>5. CASE Holds(k, q)
      <3>1. Taken(q) /\ Held(q) /\ \A j \in Reviews : Holds(j, q) => j = k
        BY <2>5 DEF Inv, Holders, Held
      <3>2. ~Held(q)'
        BY <1>1, <2>1, <2>2, <3>1, OthersHold
      <3>3. CASE row[q].status = "APPROVED"
        <4>1. Present(q)
          BY <3>3 DEF Present, Statuses
        <4>2. Verdicts[q] = "open" /\ Verdicts'[q] = "accepted"
          BY <2>1, <3>1, <3>2, <3>3, <4>1, VerdictIs, VerdictWillBe
        <4> QED BY <2>3, <4>2 DEF Decides
      <3>4. CASE row[q].status # "APPROVED"
        <4>1. ~Present(q) /\ ~Present(q)'
          BY <2>1, <3>1, <3>4 DEF Present, Statuses, Taken
        <4> QED BY <2>3, <4>1, VerdictIs, VerdictWillBe DEF Stays
      <3> QED BY <3>3, <3>4
    <2> QED BY <2>4, <2>5
  <1> QED BY <1>2, <1>3

\* The steps with which requests leave.
LEMMA LeavingSteps ==
    ASSUME Inv,
           \/ \E c \in Cards : DeleteCard(c)
           \/ \E k \in Reviews, q \in Requests : calls[k].request = q /\ Apply(k)
    PROVE  LeaveTogether
PROOF
  <1>1. ASSUME NEW c \in Cards, DeleteCard(c) PROVE LeaveTogether
    <2>1. row' = WithoutCard(c) /\ cards' = cards \ {c} /\ UNCHANGED calls
      BY <1>1 DEF DeleteCard
    <2>2. \A x \in Requests : row'[x] = row[x] \/ row'[x].status = "deleted"
      BY <2>1, CardLeaves
    <2>3. \A x \in Requests : Held(x)' <=> Held(x)
      BY <2>1 DEF Held, Holds
    <2>4. \A x \in Requests : row'[x].status = "deleted" => ~Present(x)'
      BY DEF Present, Statuses
    <2> QED BY <2>2, <2>3, <2>4, SameVerdict, VerdictWillBe DEF LeaveTogether
  <1>2. ASSUME NEW k \in Reviews, NEW q \in Requests, calls[k].request = q, Apply(k)
        PROVE  LeaveTogether
    <2>1. /\ Present(q) /\ Holds(k, q)
          /\ IF row[q].kind = "delete"
             THEN /\ cards' = cards \ {row[q].card} /\ row' = WithoutCard(row[q].card)
                  /\ Goto(k, "tell")
             ELSE UNCHANGED <<cards, row>> /\ Goto(k, "applied")
      BY <1>2 DEF Apply, Holds
    <2>2. TypeOK /\ "tell" \in Phases /\ "applied" \in Phases
      BY DEF Inv, Phases
    <2>3. \A x \in Requests : x # q => (Held(x)' <=> Held(x))
      BY <1>2, <2>1, <2>2, OthersHold
    <2>4. CASE row[q].kind = "delete"
      <3>1. row[q].card \in Cards
        BY <2>1, <2>2, <2>4 DEF TypeOK
      <3>2. /\ \A x \in Requests : row'[x] = row[x] \/ row'[x].status = "deleted"
            /\ row'[q].status = "deleted"
        BY <2>1, <2>4, <3>1, CardLeaves
      <3>3. \A x \in Requests : row'[x].status = "deleted" => ~Present(x)'
        BY DEF Present, Statuses
      <3> QED BY <2>3, <3>2, <3>3, SameVerdict, VerdictWillBe DEF LeaveTogether
    <2>5. CASE row[q].kind # "delete"
      <3>1. Goto(k, "applied") /\ UNCHANGED row
        BY <2>1, <2>5
      <3>2. Holds(k, q)' <=> Holds(k, q)
        BY <2>1, <2>2, <3>1, GotoMeans DEF Holds
      <3>3. Held(q)' <=> Held(q)
        BY <1>2, <2>2, <3>1, <3>2, OthersHold
      <3> QED BY <2>3, <3>1, <3>3, SameVerdict DEF LeaveTogether
    <2> QED BY <2>4, <2>5
  <1> QED BY <1>1, <1>2

\* The two steps before a review has claimed anything.
LEMMA OpeningSteps ==
    ASSUME Inv,
           \/ \E q \in Requests, kind \in Kinds, c \in Cards \cup {None} :
                    CreateRequest(q, kind, c)
           \/ \E k \in Reviews, q \in Requests, v \in {"accepted", "refused"}, amend \in BOOLEAN :
                    Review(k, q, v, amend)
    PROVE  Stays \/ \E q \in Requests : Decides(q)
PROOF
  <1>1. ASSUME NEW q \in Requests, NEW kind \in Kinds, NEW c \in Cards \cup {None},
               CreateRequest(q, kind, c)
        PROVE  Decides(q)
    <2>1. /\ row[q].status = "none" /\ UNCHANGED calls
          /\ row'[q].status = "PENDING"
          /\ \A x \in Requests : x # q => row'[x] = row[x]
      BY <1>1 DEF CreateRequest, Inv, TypeOK
    <2>2. \A x \in Requests : Held(x)' <=> Held(x)
      BY <2>1 DEF Held, Holds
    <2>3. ~Present(q)
      BY <2>1 DEF Present, Statuses
    <2>4. Verdicts[q] = "closed" /\ Verdicts'[q] = "open"
      BY <2>1, <2>3, VerdictIs, VerdictWillBe
    <2> QED BY <2>1, <2>2, <2>4, SameVerdict DEF Decides
  <1>2. ASSUME NEW k \in Reviews, NEW q \in Requests, NEW v \in {"accepted", "refused"},
               NEW amend \in BOOLEAN, Review(k, q, v, amend)
        PROVE  Stays
    <2>1. UNCHANGED row /\ Free(k)
      BY <1>2 DEF Review
    <2>2. calls'[k].phase \in {"claim", "refuse"} /\ \A j \in Reviews : j # k => calls'[j] = calls[j]
      BY <1>2 DEF Review, Inv, TypeOK
    <2>3. \A x \in Requests : Held(x)' <=> Held(x)
      BY <2>1, <2>2 DEF Held, Holds, Free
    <2> QED BY <2>1, <2>3, SameVerdict DEF Stays
  <1> QED BY <1>1, <1>2

LEMMA DecisionStep == Inv /\ [Next]_vars => [Decided!Next]_Verdicts
PROOF
  <1> SUFFICES ASSUME Inv, [Next]_vars PROVE [Decided!Next]_Verdicts
    OBVIOUS
  <1>1. CASE UNCHANGED vars
    <2>1. UNCHANGED row /\ \A x \in Requests : Held(x)' <=> Held(x)
      BY <1>1 DEF vars, Held, Holds
    <2>2. Stays
      BY <2>1, SameVerdict DEF Stays
    <2> QED BY <2>2, StepOfDecisions
  <1>2. ASSUME NEW k \in Reviews,
               \/ Claim(k) \/ Refuse(k) \/ Conflict(k) \/ Apply(k) \/ Finish(k) \/ Throw(k)
               \/ Rollback(k) \/ Tell(k) \/ Stop(k)
        PROVE  [Decided!Next]_Verdicts
    <2>1. ~Free(k)
      BY <1>2 DEF Claim, Refuse, Conflict, Apply, Finish, Throw, Rollback, Tell, Stop, Free
    <2>2. PICK q \in Requests : calls[k].request = q
      BY <2>1 DEF Inv, CallsFit
    <2>3. Stays \/ Decides(q) \/ LeaveTogether
      BY <1>2, <2>2, SilentSteps, DecidingSteps, LeavingSteps
    <2> QED BY <2>3, StepOfDecisions
  <1>3. ASSUME NEW c \in Cards, DeleteCard(c) PROVE [Decided!Next]_Verdicts
    BY <1>3, LeavingSteps, StepOfDecisions
  <1>4. ASSUME \/ \E q \in Requests, kind \in Kinds, c \in Cards \cup {None} :
                    CreateRequest(q, kind, c)
               \/ \E k \in Reviews, q \in Requests, v \in {"accepted", "refused"},
                     amend \in BOOLEAN : Review(k, q, v, amend)
        PROVE  [Decided!Next]_Verdicts
    BY <1>4, OpeningSteps, StepOfDecisions
  <1> QED BY <1>1, <1>2, <1>3, <1>4 DEF Next

\* However many reviews look at a request, and wherever they fail or stop, it is open
\* until it is accepted or refused, once, and a verdict is never taken back: the
\* protocol of claims implements Decisions.
THEOREM DecidedOnceCorrect == Spec => DecidedOnce
PROOF
  <1>1. Init => Decided!Init
    <2> SUFFICES ASSUME Init PROVE Decided!Init
      OBVIOUS
    <2>1. \A x \in Requests : ~Present(x)
      BY DEF Init, NoRow, Present, Statuses
    <2>2. \A x \in Requests : Verdicts[x] = "closed"
      BY <2>1, VerdictIs
    <2>3. Verdicts = [x \in Requests |-> "closed"]
      BY <2>2 DEF Verdicts
    <2> QED BY <2>3 DEF Decided!Init, Verdicts, Verdict
  <1>2. Inv /\ [Next]_vars => [Decided!Next]_Verdicts
    BY DecisionStep
  <1> QED
    BY <1>1, <1>2, Invariance, PTL DEF Spec, DecidedOnce, Decided!Spec, Verdicts, Verdict
=============================================================================
