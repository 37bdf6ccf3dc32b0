-------------------------------- MODULE Flow --------------------------------
(***************************************************************************)
(* Cards on their way across the board of one project: updates, bulk        *)
(* actions, the moves an analysed push asks for and those of the system.    *)
(* Columns may have rules for what enters; automation rules act on what     *)
(* arrived; and the boards of the clients show what the events tell them,   *)
(* which a request sends several awaits after its write.                    *)
(***************************************************************************)
EXTENDS Naturals, FiniteSets

CONSTANTS
    Items,       \* cards
    Lanes,       \* columns
    Stay,        \* no column: an update of other fields
    DoneLanes,   \* columns with isDone
    Needs,       \* by column, what its rules ask of a card
    Blockers,    \* by card, the cards it waits for
    Hands,       \* people to assign
    Helper,      \* the person automation rules assign
    RuleSets,    \* automation rules there may be: [lane, action, to]
    Moves,       \* requests under way at a time
    Starts,      \* where the cards may be at first, and with whom: [lane, hands]
    MaxMade      \* bound: requests in all, changes of facts and column rules among them

ASSUME FlowAssumption ==
    /\ Helper \in Hands /\ DoneLanes \subseteq Lanes /\ Stay \notin Lanes
    /\ Starts \subseteq [lane: [Items -> Lanes], hands: [Items -> SUBSET Hands]]
    /\ \A R \in RuleSets : \A x \in R : x.action = "move" => x.to \in Lanes
    /\ MaxMade \in Nat

VARIABLES
    lane,     \* by card, its column
    hands,    \* by card, its assignees
    ready,    \* by card, whether it has a description and no open checklist item
    gate,     \* by column, its transitionMode
    rules,    \* automation rules of the project
    move,     \* requests under way
    boards,   \* what open boards show of each card
    made,     \* requests so far
    blurred   \* history: cards last shown out of date, or not shown by one that failed

flowVars == <<lane, hands, ready, gate, rules, move, boards, made, blurred>>

Still == [phase |-> "still"]
Row(i) == [lane |-> lane[i], hands |-> hands[i]]
Unread == [lane |-> Stay]

----------------------------------------------------------------------------
(* The rules of a column for what enters it.                               *)

\* checkColumnTransitionRules: what the card lacks.
Unmet(i, l) ==
    {n \in Needs[l] : \/ n = "assignee" /\ hands[i] = {}
                      \/ n = "facts" /\ ~ready[i]
                      \/ n = "blockers" /\ \E b \in Blockers[i] : lane[b] \notin DoneLanes}

Barred(i, l) == gate[l] = "ENFORCE" /\ Unmet(i, l) # {}

\* Requests that have checked the rules go by what was true then.
Dated(q) == IF q.phase \in {"write", "system"} THEN [q EXCEPT !.fresh = FALSE] ELSE q

SetGate(l, mode) ==
    /\ mode # gate[l] /\ made < MaxMade
    /\ made' = made + 1
    /\ gate' = [gate EXCEPT ![l] = mode]
    /\ move' = [m \in Moves |-> Dated(move[m])]
    /\ UNCHANGED <<lane, hands, ready, rules, boards, blurred>>

\* An item of the checklist is checked, unchecked, added or removed.
ChangeFacts(i) ==
    /\ made < MaxMade
    /\ made' = made + 1
    /\ ready' = [ready EXCEPT ![i] = ~@]
    /\ move' = [m \in Moves |-> Dated(move[m])]
    /\ UNCHANGED <<lane, hands, gate, rules, boards, blurred>>

----------------------------------------------------------------------------
(* Requests.  A want is one call of updateCard.                            *)

Accept(m, kind, wants) ==
    /\ move[m] = Still /\ made < MaxMade
    /\ made' = made + 1
    /\ move' = [move EXCEPT ![m] =
            [phase |-> "next", kind |-> kind, todo |-> wants, fresh |-> TRUE]]
    /\ UNCHANGED <<lane, hands, ready, gate, rules, boards, blurred>>

Want(i, to, give, force) == [item |-> i, to |-> to, give |-> give, force |-> force]
Keep == {"keep"}

UpdateCard(m, i, to, give, force) == Accept(m, "update", {Want(i, to, give, force)})

\* bulkCardAction, "move": updateCard for one card after the other.
BulkMove(m, I, to) == Accept(m, "bulk", {Want(i, to, Keep, FALSE) : i \in I})

\* The open cards of a user, which a push may be about.
Candidates(u) == {i \in Items : u \in hands[i] /\ lane[i] \notin DoneLanes}

\* analyzePushAndMoveCards: decisions about the candidates, taken
\* from a reading long before; those that are there already are passed over.
AnalyzePush(m, u, to) ==
    LET decided == {i \in Candidates(u) : lane[i] # to}
    IN  decided # {} /\ Accept(m, "push", {Want(i, to, Keep, FALSE) : i \in decided})

\* On to the next want, or over.
Onward(q) == IF q.todo = {} THEN Still
             ELSE [phase |-> "next", kind |-> q.kind, todo |-> q.todo, fresh |-> TRUE]

\* Back to the rules of the project.
InRules(q) == [q EXCEPT !.phase = "rules", !.back = "next", !.snap = Unread, !.current = TRUE,
                        !.want = Want(@.item, Stay, Keep, FALSE), !.fresh = TRUE]

\* updateCard up to the write: the row, and the rules of the column it goes to.
UpdateRead(m, w) ==
    /\ move[m].phase = "next" /\ w \in move[m].todo
    /\ LET leaving == w.to # Stay /\ w.to # lane[w.item] IN
           /\ leaving => w.force \/ ~Barred(w.item, w.to)
           /\ move' = [move EXCEPT ![m] =
                [phase |-> "write", kind |-> @.kind, todo |-> @.todo \ {w},
                 items |-> {w.item}, want |-> w, leaving |-> leaving, fresh |-> TRUE,
                 snap |-> Unread, current |-> TRUE, left |-> {}, back |-> "next"]]
    /\ UNCHANGED <<lane, hands, ready, gate, rules, boards, made, blurred>>

\* The rules refuse it: the rest of a bulk action goes on, a push ends there.
UpdateRefused(m, w) ==
    /\ move[m].phase = "next" /\ w \in move[m].todo
    /\ w.to \notin {Stay, lane[w.item]} /\ ~w.force /\ Barred(w.item, w.to)
    /\ LET rest == [move[m] EXCEPT !.todo = @ \ {w}]
       IN  move' = [move EXCEPT ![m] = IF @.kind = "bulk" THEN Onward(rest) ELSE Still]
    /\ UNCHANGED <<lane, hands, ready, gate, rules, boards, made, blurred>>

\* A request of m is now r, and the rows I have changed under the others.
Wrote(m, r, I) ==
    move' = [q \in Moves |->
                IF q = m THEN r
                ELSE IF move[q].phase \in {"moved", "show", "assigned"}
                     THEN [move[q] EXCEPT !.current = @ /\ move[q].items \cap I = {}]
                ELSE Dated(move[q])]

UpdateWrite(m) ==
    /\ move[m].phase = "write"
    /\ LET w == move[m].want
           row == [lane |-> IF w.to = Stay THEN lane[w.item] ELSE w.to,
                   hands |-> IF w.give = Keep THEN hands[w.item] ELSE w.give]
       IN  /\ lane' = [lane EXCEPT ![w.item] = row.lane]
           /\ hands' = [hands EXCEPT ![w.item] = row.hands]
           /\ Wrote(m, [move[m] EXCEPT !.phase = IF move[m].leaving THEN "moved" ELSE "show",
                                       !.want = Want(w.item, Stay, Keep, FALSE),
                                       !.fresh = TRUE, !.leaving = FALSE, !.snap = row],
                    {w.item})
    /\ UNCHANGED <<ready, gate, rules, boards, made, blurred>>

----------------------------------------------------------------------------
(* What the boards are told.                                               *)

Blur(m) == IF move[m].current THEN blurred ELSE blurred \cup move[m].items

\* CARD_MOVED.  After a move by a person come the automation rules for the
\* column; after one of a rule the rest of the rules; else nothing.
ShowMove(m) ==
    /\ move[m].phase = "moved"
    /\ LET q == move[m] IN
           /\ boards' = [boards EXCEPT ![q.want.item].lane = q.snap.lane]
           /\ move' = [move EXCEPT ![m] =
                IF q.kind = "system" THEN Still
                ELSE IF q.back = "rules" THEN InRules(q)
                ELSE [InRules(q) EXCEPT !.left = {x \in rules : x.lane = q.snap.lane}]]
    /\ blurred' = Blur(m)
    /\ UNCHANGED <<lane, hands, ready, gate, rules, made>>

\* The last broadcast would show the row as this request wrote it.
MutantReread(m) == move[m].snap

\* findUniqueOrThrow after the rules: they may have changed the card.
Reread(m) == Row(move[m].want.item)

ReadAgain(m) ==
    /\ \/ move[m].phase = "read"
       \/ move[m].phase = "rules" /\ move[m].left = {}
    /\ move' = [move EXCEPT ![m].phase = "show", ![m].snap = Reread(m), ![m].current = TRUE]
    /\ UNCHANGED <<lane, hands, ready, gate, rules, boards, made, blurred>>

\* CARD_UPDATED: the whole card.
ShowCard(m) ==
    /\ move[m].phase = "show"
    /\ boards' = [boards EXCEPT ![move[m].want.item] = move[m].snap]
    /\ blurred' = IF move[m].current THEN blurred \ move[m].items ELSE Blur(m)
    /\ move' = [move EXCEPT ![m] = IF @.back = "next" THEN Onward(@)
                                   ELSE InRules(@)]
    /\ UNCHANGED <<lane, hands, ready, gate, rules, made>>

\* A query fails after the write.  Inside a rule the others go on.
QueryFails(m) ==
    /\ move[m] # Still /\ move[m].phase \notin {"next", "write"}
    /\ blurred' = blurred \cup move[m].items
    /\ move' = [move EXCEPT ![m] =
            IF @.back = "rules" THEN InRules(@) ELSE IF @.kind = "bulk" THEN Onward(@) ELSE Still]
    /\ UNCHANGED <<lane, hands, ready, gate, rules, boards, made>>

----------------------------------------------------------------------------
(* Rules of the project, and moves of the system.                          *)

Rule(m, x) == move[m].phase = "rules" /\ x \in move[m].left

\* executeAction, ASSIGN_USER: nothing happens if they are assigned already.
RuleAssigns(m, x) ==
    /\ Rule(m, x) /\ x.action = "assign"
    /\ LET i == move[m].want.item
           given == [move[m] EXCEPT !.left = @ \ {x}]
       IN  IF Helper \in hands[i]
           THEN move' = [move EXCEPT ![m] = given] /\ UNCHANGED hands
           ELSE /\ hands' = [hands EXCEPT ![i] = @ \cup {Helper}]
                /\ Wrote(m, [given EXCEPT !.phase = "read", !.back = "rules"], {i})
    /\ UNCHANGED <<lane, ready, gate, rules, boards, made, blurred>>

MutantSystemMay(i, to) == lane[i] # to

\* sistemKartTasi: not where the card is already, nor against the rules.
SystemMay(i, to) == lane[i] # to /\ ~Barred(i, to)

\* executeAction, MOVE_TO_COLUMN, up to the write.
RuleMoves(m, x) ==
    /\ Rule(m, x) /\ x.action = "move"
    /\ LET i == move[m].want.item
           given == [move[m] EXCEPT !.left = @ \ {x}]
           moving == [given EXCEPT !.phase = "system", !.back = "rules", !.fresh = TRUE,
                                   !.want = Want(i, x.to, Keep, FALSE)]
       IN  move' = [move EXCEPT ![m] = IF SystemMay(i, x.to) THEN moving ELSE given]
    /\ UNCHANGED <<lane, hands, ready, gate, rules, boards, made, blurred>>

\* The same for an event of GitHub: no rules follow.
SystemMove(m, i, to) ==
    /\ move[m] = Still /\ made < MaxMade
    /\ SystemMay(i, to)
    /\ made' = made + 1
    /\ move' = [move EXCEPT ![m] =
            [phase |-> "system", kind |-> "system", todo |-> {}, items |-> {i},
             want |-> Want(i, to, Keep, FALSE), leaving |-> TRUE, fresh |-> TRUE,
             snap |-> Unread, current |-> TRUE, left |-> {}, back |-> "next"]]
    /\ UNCHANGED <<lane, hands, ready, gate, rules, boards, blurred>>

SystemWrites(m) ==
    /\ move[m].phase = "system"
    /\ LET w == move[m].want IN
           /\ lane' = [lane EXCEPT ![w.item] = w.to]
           /\ Wrote(m, [move[m] EXCEPT !.phase = "moved", !.snap = [lane |-> w.to],
                                       !.current = TRUE, !.fresh = TRUE],
                    {w.item})
    /\ UNCHANGED <<hands, ready, gate, rules, boards, made, blurred>>

----------------------------------------------------------------------------
(* bulkCardAction, "assign": one transaction for all cards, then one event   *)
(* for each.                                                               *)

BulkAssign(m, I, H) ==
    /\ move[m] = Still /\ made < MaxMade
    /\ made' = made + 1
    /\ hands' = [i \in Items |-> IF i \in I THEN H ELSE hands[i]]
    /\ Wrote(m, [phase |-> "assigned", kind |-> "assign", todo |-> {}, items |-> I,
                 snap |-> [hands |-> H], fresh |-> TRUE, current |-> TRUE, back |-> "next"], I)
    /\ UNCHANGED <<lane, ready, gate, rules, boards, blurred>>

ShowAssigned(m) ==
    /\ move[m].phase = "assigned"
    /\ boards' = [i \in Items |-> IF i \in move[m].items
                                  THEN [boards[i] EXCEPT !.hands = move[m].snap.hands]
                                  ELSE boards[i]]
    /\ blurred' = Blur(m)
    /\ move' = [move EXCEPT ![m] = Still]
    /\ UNCHANGED <<lane, hands, ready, gate, rules, made>>

----------------------------------------------------------------------------
FlowInit ==
    /\ \E s \in Starts : lane = s.lane /\ hands = s.hands
    /\ ready = [i \in Items |-> TRUE]
    /\ gate \in [Lanes -> {"OFF", "ENFORCE"}]
    /\ \A l \in Lanes : gate[l] = "ENFORCE" <=> Needs[l] # {}
    /\ rules \in RuleSets
    /\ move = [m \in Moves |-> Still]
    /\ boards = [i \in Items |-> Row(i)]
    /\ made = 0 /\ blurred = {}

FlowNext ==
    \/ \E m \in Moves :
        \/ \E i \in Items :
            \/ \E to \in Lanes, force \in BOOLEAN : UpdateCard(m, i, to, Keep, force)
            \/ \E H \in SUBSET Hands : UpdateCard(m, i, Stay, H, FALSE)
        \/ \E to \in Lanes : BulkMove(m, Items, to)
        \/ \E u \in Hands, to \in Lanes : AnalyzePush(m, u, to)
        \/ \E H \in SUBSET Hands : BulkAssign(m, Items, H)
        \/ \E i \in Items, to \in Lanes : SystemMove(m, i, to)
        \/ move[m].phase = "next" /\ \E w \in move[m].todo : UpdateRead(m, w) \/ UpdateRefused(m, w)
        \/ UpdateWrite(m) \/ ShowMove(m) \/ ReadAgain(m) \/ ShowCard(m)
        \/ \E x \in rules : RuleAssigns(m, x) \/ RuleMoves(m, x)
        \/ SystemWrites(m) \/ ShowAssigned(m) \/ QueryFails(m)
    \/ \E l \in {x \in Lanes : Needs[x] # {}}, mode \in {"OFF", "WARN", "ENFORCE"} : SetGate(l, mode)
    \/ \E i \in Items : ChangeFacts(i)

Phases == {"still", "next", "write", "moved", "rules", "read", "show", "system", "assigned"}

(* Types.                                                                  *)
FlowTypeOK ==
    /\ lane \in [Items -> Lanes]
    /\ hands \in [Items -> SUBSET Hands]
    /\ ready \in [Items -> BOOLEAN]
    /\ gate \in [Lanes -> {"OFF", "WARN", "ENFORCE"}]
    /\ \A m \in Moves : move[m].phase \in Phases
    /\ boards \in [Items -> [lane: Lanes, hands: SUBSET Hands]]
    /\ made \in 0 .. MaxMade
    /\ blurred \subseteq Items

(* Whoever moves it, a card enters a column against the rules of the column  *)
(* only if an admin forces it, or if something changed after the check.      *)
GatesKept ==
    [][\A i \in Items : lane'[i] # lane[i] /\ Barred(i, lane'[i]) =>
            \E m \in Moves :
                /\ move[m].phase \in {"write", "system"} /\ move'[m] # move[m]
                /\ move[m].want.item = i
                /\ ~move[m].fresh \/ move[m].want.force]_flowVars

(* When no request is at work on a card, the boards show it as it is, unless *)
(* the last one to show it had read it before another write, or one failed   *)
(* between its write and its event.                                         *)
BoardsCatchUp ==
    \A i \in Items \ blurred :
        boards[i] = Row(i) \/ \E m \in Moves : /\ move[m].phase \notin {"still", "next"}
                                               /\ i \in move[m].items
=============================================================================
