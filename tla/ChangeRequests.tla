--------------------------- MODULE ChangeRequests ---------------------------
(***************************************************************************)
(* Change requests: a member asks for a change, an admin approves or       *)
(* refuses it, and an approved change is carried out in the admin's name.  *)
(* Two admins may review one request at once, and carrying the change out  *)
(* may fail before or after it took effect.                                *)
(*                                                                         *)
(* A review is one call of approveRequest or rejectRequest: it reads the   *)
(* request, claims it with a conditional update, applies it and tells the  *)
(* member, each step a query of its own.                                   *)
(***************************************************************************)
EXTENDS Naturals

CONSTANTS
    Requests,   \* ids of change requests
    Cards,      \* cards that updates and deletions are about
    Reviews,    \* review calls in flight at once
    None,       \* no card, no request
    MaxReviews  \* bound: reviews begun

ASSUME ReviewsAssumption == None \notin Requests \cup Cards /\ MaxReviews \in Nat

VARIABLES
    row,      \* the ChangeRequest rows
    cards,    \* the cards that exist
    calls,    \* the reviews in flight
    begun,    \* how many reviews have begun, for the bound alone
    applied,  \* history: how often the change of a request took effect
    content,  \* history: the payload that took effect last
    told,     \* history: the verdicts the member was told
    failed,   \* history: requests whose change took effect in a review that failed
    lost,     \* history: requests whose claim was never followed up
    reopened  \* history: requests a failed review put back to PENDING

vars == <<row, cards, calls, begun, applied, content, told, failed, lost, reopened>>

Kinds == {"create", "update", "delete"}
Payloads == {"asked", "amended"}
Statuses == {"PENDING", "APPROVED", "REJECTED"}

\* A row not yet written, and one deleted.
NoRow == [status |-> "none", kind |-> "create", card |-> None, payload |-> "asked"]
Deleted == [NoRow EXCEPT !.status = "deleted"]
Row == [status: Statuses \cup {"none", "deleted"}, kind: Kinds, card: Cards \cup {None}, payload: Payloads]

Phases == {"idle", "claim", "apply", "applied", "rollback", "refuse", "tell"}
Idle == [phase |-> "idle", request |-> None, verdict |-> "accepted",
         amend |-> FALSE, payload |-> "asked"]
Call == [phase: Phases, request: Requests \cup {None},
         verdict: {"accepted", "refused"}, amend: BOOLEAN, payload: Payloads]

Present(q) == row[q].status \in Statuses

Free(k) == calls[k].phase = "idle"
Goto(k, phase) == calls' = [calls EXCEPT ![k].phase = phase]
End(k) == calls' = [calls EXCEPT ![k] = Idle]

\* Review k has claimed request q and is still to carry it out.
Holds(k, q) ==
    calls[k].request = q /\ calls[k].phase \in {"apply", "applied", "rollback"}
Held(q) == \E k \in Reviews : Holds(k, q)

----------------------------------------------------------------------------
\* createRequest.  The target is read, then the row is written; the foreign key
\* makes the write fail when the card is gone by then.
CreateRequest(q, kind, c) ==
    /\ row[q].status = "none"
    /\ IF kind = "create" THEN c = None ELSE c \in cards
    /\ row' = [row EXCEPT ![q] =
            [status |-> "PENDING", kind |-> kind, card |-> c, payload |-> "asked"]]
    /\ UNCHANGED <<cards, calls, begun, applied, content, told, failed, lost, reopened>>

\* getPendingOrThrow; an approval may come with an amended payload, merged with
\* the one just read.
Review(k, q, verdict, amend) ==
    /\ Free(k)
    /\ begun < MaxReviews
    /\ begun' = begun + 1
    /\ row[q].status = "PENDING"
    /\ amend => verdict = "accepted"
    /\ calls' = [calls EXCEPT ![k] =
            [phase |-> IF verdict = "accepted" THEN "claim" ELSE "refuse",
             request |-> q, verdict |-> verdict, amend |-> amend,
             payload |-> IF amend THEN "amended" ELSE row[q].payload]]
    /\ UNCHANGED <<row, cards, applied, content, told, failed, lost, reopened>>

\* The claim writes the payload only when the admin amended it.
MutantRecorded(k) == row[calls[k].request].payload

Recorded(k) ==
    IF calls[k].amend THEN calls[k].payload ELSE row[calls[k].request].payload

\* approveRequest, the conditional update: of two reviews one finds PENDING.
MutantClaim(k) ==
    /\ calls[k].phase = "claim"
    /\ Present(calls[k].request)
    /\ row' = [row EXCEPT ![calls[k].request].status = "APPROVED",
                          ![calls[k].request].payload = Recorded(k)]
    /\ Goto(k, "apply")
    /\ UNCHANGED <<cards, begun, applied, content, told, failed, lost, reopened>>

Claim(k) ==
    /\ calls[k].phase = "claim"
    /\ row[calls[k].request].status = "PENDING"
    /\ row' = [row EXCEPT ![calls[k].request].status = "APPROVED",
                          ![calls[k].request].payload = Recorded(k)]
    /\ Goto(k, "apply")
    /\ UNCHANGED <<cards, begun, applied, content, told, failed, lost, reopened>>

\* rejectRequest, the conditional update.
MutantRefuse(k) ==
    /\ calls[k].phase = "refuse"
    /\ Present(calls[k].request)
    /\ row' = [row EXCEPT ![calls[k].request].status = "REJECTED"]
    /\ Goto(k, "tell")
    /\ UNCHANGED <<cards, begun, applied, content, told, failed, lost, reopened>>

Refuse(k) ==
    /\ calls[k].phase = "refuse"
    /\ row[calls[k].request].status = "PENDING"
    /\ row' = [row EXCEPT ![calls[k].request].status = "REJECTED"]
    /\ Goto(k, "tell")
    /\ UNCHANGED <<cards, begun, applied, content, told, failed, lost, reopened>>

\* Neither update finds a PENDING row: ConflictError.
Conflict(k) ==
    /\ calls[k].phase \in {"claim", "refuse"}
    /\ row[calls[k].request].status # "PENDING"
    /\ End(k)
    /\ UNCHANGED <<row, cards, begun, applied, content, told, failed, lost, reopened>>

----------------------------------------------------------------------------
\* The rows about card c go with it.
MutantWithoutCard(c) == row

WithoutCard(c) ==
    [q \in Requests |-> IF Present(q) /\ row[q].card = c THEN Deleted ELSE row[q]]

\* applyRequest up to the row it writes: what is carried out is the request as
\* it was read, not as it is now.  A card that is gone took its requests along,
\* and there is nothing left to update or delete.
Apply(k) ==
    /\ calls[k].phase = "apply"
    /\ Present(calls[k].request)
    /\ LET q == calls[k].request
       IN /\ IF row[q].kind = "delete"
             THEN /\ cards' = cards \ {row[q].card}
                  /\ row' = WithoutCard(row[q].card)
                  /\ Goto(k, "tell")
             ELSE UNCHANGED <<cards, row>> /\ Goto(k, "applied")
          /\ applied' = [applied EXCEPT ![q] = @ + 1]
          /\ content' = [content EXCEPT ![q] = calls[k].payload]
    /\ UNCHANGED <<begun, told, failed, lost, reopened>>

\* Notifications, rules, labels and dependencies follow the row; then
\* applyRequest returns.
Finish(k) ==
    /\ calls[k].phase = "applied"
    /\ Goto(k, "tell")
    /\ UNCHANGED <<row, cards, begun, applied, content, told, failed, lost, reopened>>

\* applyRequest throws, before its row is written or after, and the catch of
\* approveRequest takes over.
MutantThrow(k) ==
    /\ calls[k].phase \in {"apply", "applied"}
    /\ Goto(k, "tell")
    /\ UNCHANGED <<row, cards, begun, applied, content, told, failed, lost, reopened>>

Throw(k) ==
    /\ calls[k].phase \in {"apply", "applied"}
    /\ Goto(k, "rollback")
    /\ failed' = IF calls[k].phase = "applied"
                 THEN failed \cup {calls[k].request} ELSE failed
    /\ UNCHANGED <<row, cards, begun, applied, content, told, lost, reopened>>

\* The catch: an APPROVED request is put back to PENDING, the payload stays.
MutantRollback(k) ==
    /\ calls[k].phase = "rollback"
    /\ End(k)
    /\ UNCHANGED <<row, cards, begun, applied, content, told, failed, lost, reopened>>

Rollback(k) ==
    /\ calls[k].phase = "rollback"
    /\ LET q == calls[k].request
       IN IF row[q].status = "APPROVED"
          THEN /\ row' = [row EXCEPT ![q].status = "PENDING"]
               /\ reopened' = reopened \cup {q}
          ELSE UNCHANGED <<row, reopened>>
    /\ End(k)
    /\ UNCHANGED <<cards, begun, applied, content, told, failed, lost>>

\* The request is read back, and the member is told.  When the row is gone the
\* read throws and nobody is told.
Tell(k) ==
    /\ calls[k].phase = "tell"
    /\ Present(calls[k].request)
    /\ told' = [told EXCEPT ![calls[k].request] = @ \cup {calls[k].verdict}]
    /\ End(k)
    /\ UNCHANGED <<row, cards, begun, applied, content, failed, lost, reopened>>

\* A query outside the try throws, or the server restarts: the call is over and
\* what it wrote stays.  History: a claim held by it is lost.
Stop(k) ==
    /\ ~Free(k)
    /\ LET q == calls[k].request
       IN /\ lost' = IF Holds(k, q) THEN lost \cup {q} ELSE lost
          /\ failed' = IF calls[k].phase = "applied" THEN failed \cup {q} ELSE failed
    /\ End(k)
    /\ UNCHANGED <<row, cards, begun, applied, content, told, reopened>>

\* A card is deleted without a request (deleteCard, the bulk action, a column).
DeleteCard(c) ==
    /\ c \in cards
    /\ cards' = cards \ {c}
    /\ row' = WithoutCard(c)
    /\ UNCHANGED <<calls, begun, applied, content, told, failed, lost, reopened>>

----------------------------------------------------------------------------
Init ==
    /\ row = [q \in Requests |-> NoRow]
    /\ cards = Cards
    /\ calls = [k \in Reviews |-> Idle]
    /\ begun = 0
    /\ applied = [q \in Requests |-> 0]
    /\ content = [q \in Requests |-> "asked"]
    /\ told = [q \in Requests |-> {}]
    /\ failed = {} /\ lost = {} /\ reopened = {}

Next ==
    \/ \E q \in Requests, kind \in Kinds, c \in Cards \cup {None} :
        CreateRequest(q, kind, c)
    \/ \E k \in Reviews :
        \/ \E q \in Requests, v \in {"accepted", "refused"}, amend \in BOOLEAN :
            Review(k, q, v, amend)
        \/ Claim(k) \/ Refuse(k) \/ Conflict(k)
        \/ Apply(k) \/ Finish(k) \/ Throw(k) \/ Rollback(k)
        \/ Tell(k) \/ Stop(k)
    \/ \E c \in Cards : DeleteCard(c)

Spec == Init /\ [][Next]_vars
----------------------------------------------------------------------------
(* Properties.                                                             *)

\* Types, and the foreign key: a request is about a card that exists.
TypeOK ==
    /\ row \in [Requests -> Row]
    /\ cards \subseteq Cards
    /\ calls \in [Reviews -> Call]
    /\ begun \in Nat
    /\ applied \in [Requests -> Nat]
    /\ content \in [Requests -> Payloads]
    /\ told \in [Requests -> SUBSET {"accepted", "refused"}]
    /\ failed \cup lost \cup reopened \subseteq Requests
    /\ \A q \in Requests : Present(q) /\ row[q].kind # "create" => row[q].card \in cards

\* A change is carried out once if it is approved and never if it is refused,
\* unless a review failed after the change took effect.
AppliedAsDecided ==
    \A q \in Requests \ failed :
        applied[q] <= IF row[q].status \in {"APPROVED", "deleted"} THEN 1 ELSE 0

\* An approved request whose review is over has been carried out, unless the
\* review stopped on the way.
ApprovedIsDone ==
    \A q \in Requests \ lost :
        row[q].status = "APPROVED" /\ ~Held(q) => applied[q] > 0

\* The member is told of one verdict, the one that stands.
ToldTheTruth ==
    \A q \in Requests :
        /\ "accepted" \in told[q] =>
             row[q].status \in {"APPROVED", "deleted"} /\ applied[q] > 0
        /\ "refused" \in told[q] => row[q].status \in {"REJECTED", "deleted"}
        /\ told[q] # {"accepted", "refused"}

\* The payload on record is the one carried out, unless a failed review put the
\* request back: others may have read it before.  A request once put back is left
\* out for good, also where nobody had.
RecordedAsApplied ==
    \A q \in Requests \ reopened :
        row[q].status = "APPROVED" /\ applied[q] > 0 => content[q] = row[q].payload

\* While a review holds the request it is still open: its failure reopens it.
Decided == INSTANCE Decisions WITH
    Closed <- "closed",
    verdict <- [q \in Requests |->
        CASE ~Present(q) -> "closed"
          [] Present(q) /\ (row[q].status = "PENDING" \/ Held(q)) -> "open"
          [] row[q].status = "APPROVED" /\ ~Held(q) -> "accepted"
          [] row[q].status = "REJECTED" /\ ~Held(q) -> "refused"]

DecidedOnce == Decided!Spec

\* approveRequest: a request is carried out at most once.
CarriedOutOnce == \A q \in Requests : applied[q] <= 1
=============================================================================
