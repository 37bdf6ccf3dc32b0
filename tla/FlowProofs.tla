----------------------------- MODULE FlowProofs -----------------------------
(***************************************************************************)
(* Cards and the rules of the columns they enter, for any number of cards,  *)
(* columns, requests and automation rules.                                  *)
(***************************************************************************)
EXTENDS Flow, TLAPS

\* What a request has from its reading of a card on.
Fields == {"phase", "want", "fresh"}

Shaped(q) ==
    /\ q.phase \notin {"still", "next", "assigned"} => Fields \subseteq DOMAIN q
    /\ q.phase = "still" => q = Still
    /\ q.phase = "assigned" => q.back = "next"

\* GatesKept speaks of a step.  It holds because a request that is about to write goes
\* by a check that is still true, or is known to be dated.
Allowed(q) ==
    q.fresh /\ ~q.want.force =>
        /\ q.phase = "write" => \/ q.want.to \in {Stay, lane[q.want.item]}
                                \/ ~Barred(q.want.item, q.want.to)
        /\ q.phase = "system" => ~Barred(q.want.item, q.want.to)

FlowInv ==
    /\ DOMAIN lane = Items /\ DOMAIN move = Moves
    /\ \A m \in Moves : Shaped(move[m]) /\ Allowed(move[m])

Writing(q) == q.phase \in {"write", "system"}

\* A column entered against its rules, other than by a request that was forced or
\* went by an older check.
GateKept ==
    \A i \in Items : lane'[i] # lane[i] /\ Barred(i, lane'[i]) =>
        \E m \in Moves :
            /\ Writing(move[m]) /\ move'[m] # move[m]
            /\ move[m].want.item = i
            /\ ~move[m].fresh \/ move[m].want.force

Facts == <<lane, hands, ready, gate>>

----------------------------------------------------------------------------
LEMMA FlowStarts == FlowInit => FlowInv
PROOF
  <1> SUFFICES ASSUME FlowInit PROVE FlowInv
    OBVIOUS
  <1>1. DOMAIN lane = Items
    BY FlowAssumption DEF FlowAssumption, FlowInit
  <1>2. move = [m \in Moves |-> Still] /\ Still.phase = "still"
    BY DEF FlowInit, Still
  <1> QED BY <1>1, <1>2 DEF FlowInv, Shaped, Allowed

\* A request that is not about to write has nothing to keep.
LEMMA OnlyWriters ==
    ASSUME NEW q, ~Writing(q)
    PROVE  Allowed(q)
PROOF
  BY DEF Writing, Allowed

\* One request goes on, and no fact changes.
LEMMA OneMoves ==
    ASSUME FlowInv, NEW m \in Moves, NEW r, move' = [move EXCEPT ![m] = r],
           Shaped(r), Allowed(r), UNCHANGED Facts
    PROVE  FlowInv'
PROOF
  <1>1. \A q : Allowed(q)' <=> Allowed(q)
    BY DEF Allowed, Barred, Unmet, Facts
  <1> QED BY <1>1 DEF FlowInv, Facts, Shaped, Allowed, Barred, Unmet

\* A fact changes: every check made before is dated.
LEMMA DatedKeeps ==
    ASSUME NEW n \in Moves, Shaped(move[n]), move'[n] = Dated(move[n])
    PROVE  Shaped(move[n])' /\ Allowed(move[n])'
PROOF
  <1>1. CASE Writing(move[n])
    <2>1. move'[n] = [move[n] EXCEPT !.fresh = FALSE] /\ Fields \subseteq DOMAIN move[n]
      BY <1>1 DEF Writing, Dated, Shaped
    <2>2. /\ move'[n].phase = move[n].phase /\ Fields \subseteq DOMAIN move'[n]
          /\ move'[n].fresh = FALSE
      BY <2>1 DEF Fields
    <2> QED BY <1>1, <2>2 DEF Shaped, Allowed, Writing
  <1>2. CASE ~Writing(move[n])
    <2>1. move'[n] = move[n]
      BY <1>2 DEF Dated, Writing
    <2> QED BY <1>2, <2>1 DEF Writing, Allowed, Shaped
  <1> QED BY <1>1, <1>2

LEMMA FactsChange ==
    ASSUME FlowInv, UNCHANGED lane, move' = [m \in Moves |-> Dated(move[m])]
    PROVE  FlowInv'
PROOF
  <1>1. \A m \in Moves : Shaped(move[m])' /\ Allowed(move[m])'
    BY DatedKeeps DEF FlowInv
  <1> QED BY <1>1 DEF FlowInv

\* A request writes, and every other check is dated.
LEMMA OneWrites ==
    ASSUME FlowInv, NEW m \in Moves, NEW r, NEW I, Wrote(m, r, I),
           Shaped(r), ~Writing(r), DOMAIN lane' = Items
    PROVE  FlowInv'
PROOF
  <1>1. ASSUME NEW n \in Moves PROVE Shaped(move[n])' /\ Allowed(move[n])'
    <2>1. CASE n = m
      <3>1. move'[n] = r
        BY <2>1 DEF Wrote
      <3> QED BY <3>1 DEF Shaped, Writing, Allowed
    <2>2. CASE n # m /\ move[n].phase \in {"moved", "show", "assigned"}
      <3>1. move'[n] = [move[n] EXCEPT !.current = @ /\ move[n].items \cap I = {}]
        BY <2>2 DEF Wrote
      <3>2. /\ move'[n].phase = move[n].phase /\ move'[n].back = move[n].back
            /\ DOMAIN move'[n] = DOMAIN move[n]
        BY <3>1
      <3> QED BY <2>2, <3>2 DEF FlowInv, Shaped, Allowed
    <2>3. CASE n # m /\ move[n].phase \notin {"moved", "show", "assigned"}
      <3>1. move'[n] = Dated(move[n])
        BY <2>3 DEF Wrote
      <3> QED BY <3>1, DatedKeeps DEF FlowInv
    <2> QED BY <2>1, <2>2, <2>3
  <1>2. DOMAIN move' = Moves
    BY DEF Wrote
  <1> QED BY <1>1, <1>2 DEF FlowInv

----------------------------------------------------------------------------
(* The steps.                                                              *)

\* A request begins, goes on, or is over, and is not about to write.
LEMMA ReadingSteps ==
    ASSUME FlowInv, NEW m \in Moves, NEW r, move' = [move EXCEPT ![m] = r],
           Shaped(r), ~Writing(r), UNCHANGED Facts
    PROVE  FlowInv'
PROOF
  BY OnlyWriters, OneMoves

LEMMA AcceptKeeps ==
    ASSUME FlowInv, NEW m \in Moves, NEW kind, NEW wants, Accept(m, kind, wants)
    PROVE  FlowInv'
PROOF
  <1> DEFINE r == [phase |-> "next", kind |-> kind, todo |-> wants, fresh |-> TRUE]
  <1>1. move' = [move EXCEPT ![m] = r] /\ UNCHANGED Facts
    BY DEF Accept, Facts
  <1>2. Shaped(r) /\ ~Writing(r)
    BY DEF Shaped, Writing
  <1> QED BY <1>1, <1>2, ReadingSteps

\* What a request may be between two steps of its own.
LEMMA Between ==
    ASSUME NEW q
    PROVE  /\ Shaped(Still) /\ ~Writing(Still)
           /\ Shaped(Onward(q)) /\ ~Writing(Onward(q))
           /\ Fields \subseteq DOMAIN q => /\ Shaped(InRules(q)) /\ ~Writing(InRules(q))
                                           /\ Fields \subseteq DOMAIN InRules(q)
                                           /\ InRules(q).phase = "rules"
PROOF
  BY DEF Shaped, Writing, Still, Onward, InRules, Fields

\* A check of the rules of the column is still true when it is made.
LEMMA UpdateReadKeeps ==
    ASSUME FlowInv, NEW m \in Moves, NEW w, UpdateRead(m, w)
    PROVE  FlowInv'
PROOF
  <1> DEFINE leaving == w.to # Stay /\ w.to # lane[w.item]
             r == [phase |-> "write", kind |-> move[m].kind, todo |-> move[m].todo \ {w},
                   items |-> {w.item}, want |-> w, leaving |-> leaving, fresh |-> TRUE,
                   snap |-> Unread, current |-> TRUE, left |-> {}, back |-> "next"]
  <1>1. /\ leaving => w.force \/ ~Barred(w.item, w.to)
        /\ move' = [move EXCEPT ![m] = r]
        /\ UNCHANGED Facts
    BY DEF UpdateRead, FlowInv, Facts
  <1>2. Shaped(r)
    BY DEF Shaped, Fields
  <1>3. Allowed(r)
    BY <1>1 DEF Allowed
  <1> QED BY <1>1, <1>2, <1>3, OneMoves

LEMMA UpdateRefusedKeeps ==
    ASSUME FlowInv, NEW m \in Moves, NEW w, UpdateRefused(m, w)
    PROVE  FlowInv'
PROOF
  <1>1. PICK r : /\ move' = [move EXCEPT ![m] = r] /\ UNCHANGED Facts
                 /\ r = Still \/ \E q : r = Onward(q)
    BY DEF UpdateRefused, Facts
  <1> QED BY <1>1, Between, ReadingSteps

\* After a write the request is on its way to the boards.
LEMMA UpdateWriteKeeps ==
    ASSUME FlowInv, NEW m \in Moves, UpdateWrite(m)
    PROVE  FlowInv'
PROOF
  <1> DEFINE w == move[m].want
             row == [lane |-> IF w.to = Stay THEN lane[w.item] ELSE w.to,
                     hands |-> IF w.give = Keep THEN hands[w.item] ELSE w.give]
             r == [move[m] EXCEPT !.phase = IF move[m].leaving THEN "moved" ELSE "show",
                                  !.want = Want(w.item, Stay, Keep, FALSE),
                                  !.fresh = TRUE, !.leaving = FALSE, !.snap = row]
  <1>1. Wrote(m, r, {w.item})
    BY DEF UpdateWrite
  <1>2. Fields \subseteq DOMAIN move[m]
    BY DEF FlowInv, Shaped, UpdateWrite
  <1>3. Fields \subseteq DOMAIN r /\ r.phase \in {"moved", "show"}
    BY <1>2 DEF Fields
  <1>4. Shaped(r) /\ ~Writing(r)
    BY <1>3 DEF Shaped, Writing
  <1>5. DOMAIN lane' = Items
    BY DEF UpdateWrite, FlowInv
  <1> QED BY <1>1, <1>4, <1>5, OneWrites

\* What follows a write shows it, or fails.
LEMMA ShowingSteps ==
    ASSUME FlowInv, NEW m \in Moves,
           ShowMove(m) \/ ReadAgain(m) \/ ShowCard(m) \/ ShowAssigned(m) \/ QueryFails(m)
    PROVE  FlowInv'
PROOF
  <1>1. CASE ShowMove(m)
    <2>1. Fields \subseteq DOMAIN move[m]
      BY <1>1 DEF ShowMove, FlowInv, Shaped
    <2>2. PICK r : /\ move' = [move EXCEPT ![m] = r] /\ UNCHANGED Facts
                   /\ \/ r = Still \/ r = InRules(move[m])
                      \/ \E X : r = [InRules(move[m]) EXCEPT !.left = X]
      BY <1>1 DEF ShowMove, Facts, FlowInv
    <2>3. Shaped(r) /\ ~Writing(r)
      <3>1. CASE r = Still \/ r = InRules(move[m])
        BY <2>1, <3>1, Between
      <3>2. CASE \E X : r = [InRules(move[m]) EXCEPT !.left = X]
        <4>1. r.phase = "rules" /\ Fields \subseteq DOMAIN r
          BY <2>1, <3>2, Between
        <4> QED BY <4>1 DEF Shaped, Writing
      <3> QED BY <2>2, <3>1, <3>2
    <2> QED BY <2>2, <2>3, ReadingSteps
  <1>2. CASE ReadAgain(m)
    <2> DEFINE r == [move[m] EXCEPT !.phase = "show", !.snap = Reread(m), !.current = TRUE]
    <2>1. Fields \subseteq DOMAIN move[m]
      BY <1>2 DEF ReadAgain, FlowInv, Shaped
    <2>2. move' = [move EXCEPT ![m] = r] /\ UNCHANGED Facts
      BY <1>2 DEF ReadAgain, Facts, FlowInv
    <2>3. Fields \subseteq DOMAIN r /\ r.phase = "show"
      BY <2>1 DEF Fields
    <2>4. Shaped(r) /\ ~Writing(r)
      BY <2>3 DEF Shaped, Writing
    <2> QED BY <2>2, <2>4, ReadingSteps
  <1>3. CASE ShowCard(m)
    <2>1. Fields \subseteq DOMAIN move[m]
      BY <1>3 DEF ShowCard, FlowInv, Shaped
    <2>2. PICK r : /\ move' = [move EXCEPT ![m] = r] /\ UNCHANGED Facts
                   /\ r = Onward(move[m]) \/ r = InRules(move[m])
      BY <1>3 DEF ShowCard, Facts
    <2> QED BY <2>1, <2>2, Between, ReadingSteps
  <1>4. CASE ShowAssigned(m)
    BY <1>4, Between, ReadingSteps DEF ShowAssigned, Facts
  <1>5. CASE QueryFails(m)
    <2> DEFINE q == move[m]
    <2>1. PICK r : /\ move' = [move EXCEPT ![m] = r] /\ UNCHANGED Facts
                   /\ \/ q.back = "rules" /\ r = InRules(q)
                      \/ r = Onward(q) \/ r = Still
      BY <1>5 DEF QueryFails, Facts
    <2>2. CASE q.back = "rules" /\ r = InRules(q)
      <3>1. Fields \subseteq DOMAIN q
        BY <1>5, <2>2 DEF QueryFails, FlowInv, Shaped
      <3> QED BY <2>1, <2>2, <3>1, Between, ReadingSteps
    <2>3. CASE r = Onward(q) \/ r = Still
      BY <2>1, <2>3, Between, ReadingSteps
    <2> QED BY <2>1, <2>2, <2>3
  <1> QED BY <1>1, <1>2, <1>3, <1>4, <1>5

\* An automation rule assigns, which needs no check, or checks for its move.
LEMMA RuleAssignsKeeps ==
    ASSUME FlowInv, NEW m \in Moves, NEW x, RuleAssigns(m, x)
    PROVE  FlowInv'
PROOF
  <1> DEFINE i == move[m].want.item
             given == [move[m] EXCEPT !.left = @ \ {x}]
             r == [given EXCEPT !.phase = "read", !.back = "rules"]
  <1>1. Fields \subseteq DOMAIN move[m] /\ move[m].phase = "rules"
    BY DEF RuleAssigns, Rule, FlowInv, Shaped
  <1>2. Fields \subseteq DOMAIN given /\ given.phase = "rules"
    BY <1>1
  <1>3. Shaped(given) /\ ~Writing(given)
    BY <1>2 DEF Shaped, Writing
  <1>4. Fields \subseteq DOMAIN r /\ r.phase = "read"
    BY <1>2 DEF Fields
  <1>5. Shaped(r) /\ ~Writing(r)
    BY <1>4 DEF Shaped, Writing
  <1>6. \/ move' = [move EXCEPT ![m] = given] /\ UNCHANGED Facts
        \/ Wrote(m, r, {i}) /\ UNCHANGED lane
    BY DEF RuleAssigns, Facts
  <1>7. DOMAIN lane' = Items
    BY DEF RuleAssigns, FlowInv
  <1> QED BY <1>3, <1>5, <1>6, <1>7, ReadingSteps, OneWrites

LEMMA RuleMovesKeeps ==
    ASSUME FlowInv, NEW m \in Moves, NEW x, RuleMoves(m, x)
    PROVE  FlowInv'
PROOF
  <1> DEFINE i == move[m].want.item
             given == [move[m] EXCEPT !.left = @ \ {x}]
             r == [given EXCEPT !.phase = "system", !.back = "rules", !.fresh = TRUE,
                                !.want = Want(@.item, x.to, Keep, FALSE)]
  <1>1. Fields \subseteq DOMAIN move[m] /\ move[m].phase = "rules"
    BY DEF RuleMoves, Rule, FlowInv, Shaped
  <1>2. /\ Fields \subseteq DOMAIN given /\ given.phase = "rules"
        /\ given.want = move[m].want
    BY <1>1
  <1>3. Shaped(given) /\ ~Writing(given)
    BY <1>2 DEF Shaped, Writing
  <1>4. /\ Fields \subseteq DOMAIN r /\ r.phase = "system"
        /\ r.want = Want(i, x.to, Keep, FALSE)
    BY <1>2 DEF Fields
  <1>5. Shaped(r)
    BY <1>4 DEF Shaped
  <1>6. r.want.item = i /\ r.want.to = x.to
    BY <1>4 DEF Want
  <1>7. SystemMay(i, x.to) => Allowed(r)
    BY <1>4, <1>6 DEF SystemMay, Allowed
  <1>8. /\ \/ SystemMay(i, x.to) /\ move' = [move EXCEPT ![m] = r]
           \/ move' = [move EXCEPT ![m] = given]
        /\ UNCHANGED Facts
    BY DEF RuleMoves, Facts, FlowInv
  <1> QED BY <1>3, <1>5, <1>7, <1>8, ReadingSteps, OneMoves

\* A move of the system checks, and writes.
LEMMA SystemMoveKeeps ==
    ASSUME FlowInv, NEW m \in Moves, NEW i, NEW to, SystemMove(m, i, to)
    PROVE  FlowInv'
PROOF
  <1> DEFINE r == [phase |-> "system", kind |-> "system", todo |-> {}, items |-> {i},
                   want |-> Want(i, to, Keep, FALSE), leaving |-> TRUE, fresh |-> TRUE,
                   snap |-> Unread, current |-> TRUE, left |-> {}, back |-> "next"]
  <1>1. ~Barred(i, to) /\ move' = [move EXCEPT ![m] = r] /\ UNCHANGED Facts
    BY DEF SystemMove, SystemMay, Facts
  <1>2. Shaped(r)
    BY DEF Shaped, Fields
  <1>3. Allowed(r)
    BY <1>1 DEF Allowed, Want
  <1> QED BY <1>1, <1>2, <1>3, OneMoves

LEMMA SystemWritesKeeps ==
    ASSUME FlowInv, NEW m \in Moves, SystemWrites(m)
    PROVE  FlowInv'
PROOF
  <1> DEFINE w == move[m].want
             r == [move[m] EXCEPT !.phase = "moved", !.snap = [lane |-> w.to],
                                  !.current = TRUE, !.fresh = TRUE]
  <1>1. Wrote(m, r, {w.item}) /\ DOMAIN lane' = Items
    BY DEF SystemWrites, FlowInv
  <1>2. Fields \subseteq DOMAIN move[m]
    BY DEF SystemWrites, FlowInv, Shaped
  <1>3. Fields \subseteq DOMAIN r /\ r.phase = "moved"
    BY <1>2 DEF Fields
  <1>4. Shaped(r) /\ ~Writing(r)
    BY <1>3 DEF Shaped, Writing
  <1> QED BY <1>1, <1>4, OneWrites

LEMMA BulkAssignKeeps ==
    ASSUME FlowInv, NEW m \in Moves, NEW I, NEW H, BulkAssign(m, I, H)
    PROVE  FlowInv'
PROOF
  <1> DEFINE r == [phase |-> "assigned", kind |-> "assign", todo |-> {}, items |-> I,
                   snap |-> [hands |-> H], fresh |-> TRUE, current |-> TRUE, back |-> "next"]
  <1>1. Wrote(m, r, I) /\ DOMAIN lane' = Items
    BY DEF BulkAssign, FlowInv
  <1>2. Shaped(r) /\ ~Writing(r)
    BY DEF Shaped, Writing
  <1> QED BY <1>1, <1>2, OneWrites

----------------------------------------------------------------------------
LEMMA FlowKeeps == FlowInv /\ [FlowNext]_flowVars => FlowInv'
PROOF
  <1> SUFFICES ASSUME FlowInv, [FlowNext]_flowVars PROVE FlowInv'
    OBVIOUS
  <1>1. CASE UNCHANGED flowVars
    BY <1>1 DEF flowVars, FlowInv, Shaped, Allowed, Barred, Unmet
  <1>2. ASSUME NEW m \in Moves, NEW i \in Items, NEW to, NEW give, NEW force,
               UpdateCard(m, i, to, give, force)
        PROVE  FlowInv'
    BY <1>2, AcceptKeeps DEF UpdateCard
  <1>3. ASSUME NEW m \in Moves, NEW to \in Lanes,
               BulkMove(m, Items, to) \/ \E u \in Hands : AnalyzePush(m, u, to)
        PROVE  FlowInv'
    BY <1>3, AcceptKeeps DEF BulkMove, AnalyzePush
  <1>4. ASSUME NEW l, NEW mode, SetGate(l, mode) PROVE FlowInv'
    BY <1>4, FactsChange DEF SetGate
  <1>5. ASSUME NEW i \in Items, ChangeFacts(i) PROVE FlowInv'
    BY <1>5, FactsChange DEF ChangeFacts
  <1> QED
    BY <1>1, <1>2, <1>3, <1>4, <1>5, UpdateReadKeeps, UpdateRefusedKeeps, UpdateWriteKeeps,
       ShowingSteps, RuleAssignsKeeps, RuleMovesKeeps, SystemMoveKeeps, SystemWritesKeeps,
       BulkAssignKeeps
       DEF FlowNext

\* Only two kinds of step put a card into a column.
LEMMA WhoWrites ==
    ASSUME [FlowNext]_flowVars, lane' # lane
    PROVE  \E m \in Moves : UpdateWrite(m) \/ SystemWrites(m)
PROOF
  <1>1. ~UNCHANGED flowVars /\ FlowNext
    BY DEF flowVars
  <1>2. ASSUME NEW m, NEW kind, NEW wants, Accept(m, kind, wants) PROVE FALSE
    BY <1>2 DEF Accept
  <1>3. ASSUME NEW m, NEW w, UpdateRead(m, w) \/ UpdateRefused(m, w) PROVE FALSE
    BY <1>3 DEF UpdateRead, UpdateRefused
  <1>4. ASSUME NEW m, \/ ShowMove(m) \/ ReadAgain(m) \/ ShowCard(m) \/ ShowAssigned(m)
                      \/ QueryFails(m)
        PROVE  FALSE
    BY <1>4 DEF ShowMove, ReadAgain, ShowCard, ShowAssigned, QueryFails
  <1>5. ASSUME NEW m, NEW x, RuleAssigns(m, x) \/ RuleMoves(m, x) PROVE FALSE
    BY <1>5 DEF RuleAssigns, RuleMoves
  <1>6. ASSUME NEW m, \/ \E I, H : BulkAssign(m, I, H)
                      \/ \E i, to : SystemMove(m, i, to)
        PROVE  FALSE
    BY <1>6 DEF BulkAssign, SystemMove
  <1>7. ASSUME \/ \E l, mode : SetGate(l, mode)
               \/ \E i : ChangeFacts(i)
        PROVE  FALSE
    BY <1>7 DEF SetGate, ChangeFacts
  <1> QED
    BY <1>1, <1>2, <1>3, <1>4, <1>5, <1>6, <1>7
       DEF FlowNext, UpdateCard, BulkMove, AnalyzePush

\* A write puts its card into the column its check was about.
LEMMA GateStep ==
    ASSUME FlowInv, [FlowNext]_flowVars
    PROVE  GateKept
PROOF
  <1> SUFFICES ASSUME NEW i \in Items, lane'[i] # lane[i], Barred(i, lane'[i])
               PROVE  \E m \in Moves :
                        /\ Writing(move[m]) /\ move'[m] # move[m]
                        /\ move[m].want.item = i
                        /\ ~move[m].fresh \/ move[m].want.force
    BY DEF GateKept
  <1>1. PICK m \in Moves : UpdateWrite(m) \/ SystemWrites(m)
    BY WhoWrites
  <1> DEFINE w == move[m].want
  <1>2. i = w.item /\ lane'[i] = w.to /\ (move[m].phase = "write" => w.to # Stay)
    BY <1>1 DEF UpdateWrite, SystemWrites, FlowInv
  <1>3. Writing(move[m]) /\ Fields \subseteq DOMAIN move[m]
    BY <1>1 DEF UpdateWrite, SystemWrites, Writing, FlowInv, Shaped
  <1>4. ~move[m].fresh \/ w.force
    BY <1>1, <1>2, <1>3 DEF FlowInv, Allowed, Writing
  <1>5. move'[m].phase \in {"moved", "show"}
    <2>1. \A r, I : Wrote(m, r, I) => move'[m] = r
      BY DEF Wrote
    <2>2. CASE UpdateWrite(m)
      <3>1. move'[m] = [move[m] EXCEPT
                    !.phase = IF move[m].leaving THEN "moved" ELSE "show",
                    !.want = Want(w.item, Stay, Keep, FALSE), !.fresh = TRUE,
                    !.leaving = FALSE,
                    !.snap = [lane |-> IF w.to = Stay THEN lane[w.item] ELSE w.to,
                              hands |-> IF w.give = Keep THEN hands[w.item] ELSE w.give]]
        BY <2>1, <2>2 DEF UpdateWrite
      <3> QED BY <1>3, <3>1 DEF Fields
    <2>3. CASE SystemWrites(m)
      <3>1. move'[m] = [move[m] EXCEPT !.phase = "moved", !.snap = [lane |-> w.to],
                                       !.current = TRUE, !.fresh = TRUE]
        BY <2>1, <2>3 DEF SystemWrites
      <3> QED BY <1>3, <3>1 DEF Fields
    <2> QED BY <1>1, <2>2, <2>3
  <1>6. move'[m] # move[m]
    BY <1>3, <1>5 DEF Writing
  <1> QED BY <1>2, <1>3, <1>4, <1>6

----------------------------------------------------------------------------
(* What the boards of the users show.                                       *)

Kinds == {"update", "bulk", "push"}
AtWork == {"write", "moved", "rules", "read", "show", "system"}
WorkFields == {"phase", "kind", "todo", "items", "want", "leaving", "fresh", "snap", "current", "left", "back"}

Formed(q) ==
    /\ q.phase \in {"still", "next", "assigned"} \cup AtWork
    /\ q.phase = "still" => q = Still
    /\ q.phase = "next" => /\ DOMAIN q = {"phase", "kind", "todo", "fresh"}
                           /\ q.kind \in Kinds
    /\ q.phase = "assigned" =>
         /\ DOMAIN q = {"phase", "kind", "todo", "items", "snap", "fresh", "current", "back"}
         /\ q.kind = "assign" /\ q.back = "next" /\ q.items \subseteq Items
    /\ q.phase \in AtWork =>
         /\ DOMAIN q = WorkFields
         /\ \/ q.kind \in Kinds
            \/ q.kind = "system" /\ q.phase \in {"system", "moved"} /\ q.back = "next"
         /\ q.items = {q.want.item} /\ q.want.item \in Items
    /\ q.phase \in {"next"} \cup AtWork => \A w \in q.todo : w.item \in Items

\* What a request is about to show is the row as it is, unless another write came.
Snapped(q) ==
    /\ q.phase = "show" => q.snap = [lane |-> q.snap.lane, hands |-> q.snap.hands]
    /\ q.phase \in {"moved", "show", "assigned"} /\ q.current =>
        /\ q.phase = "moved" => q.snap.lane = lane[q.want.item]
        /\ q.phase = "show" => q.snap = Row(q.want.item)
        /\ q.phase = "assigned" => \A i \in q.items : q.snap.hands = hands[i]

\* Who will show a card's column, or its assignees.
Whole(q) == q.phase \in AtWork /\ q.kind \in Kinds
ShowsLane(q, i) == q.phase \in AtWork \cup {"assigned"} /\ i \in q.items /\ (Whole(q) \/ (q.kind = "system" /\ q.phase = "moved"))
ShowsHands(q, i) == q.phase \in AtWork \cup {"assigned"} /\ i \in q.items /\ (Whole(q) \/ q.phase = "assigned")

LaneShown(i) == (boards[i].lane = lane[i]) \/ \E m \in Moves : ShowsLane(move[m], i)
HandsShown(i) == boards[i].hands = hands[i] \/ \E m \in Moves : ShowsHands(move[m], i)

CatchTypes ==
    /\ DOMAIN lane = Items /\ DOMAIN hands = Items /\ DOMAIN boards = Items
    /\ \A i \in Items : boards[i] = [lane |-> boards[i].lane, hands |-> boards[i].hands]
    /\ DOMAIN move = Moves
    /\ \A m \in Moves : Formed(move[m])

CatchInv ==
    /\ CatchTypes
    /\ \A m \in Moves : Snapped(move[m])
    /\ \A i \in Items \ blurred : LaneShown(i) /\ HandsShown(i)

LEMMA CatchStarts == FlowInit => CatchInv
PROOF
  <1> SUFFICES ASSUME FlowInit PROVE CatchInv
    OBVIOUS
  <1>1. DOMAIN lane = Items /\ DOMAIN hands = Items
    BY FlowAssumption DEF FlowAssumption, FlowInit
  <1>2. \A m \in Moves : move[m] = Still /\ Formed(Still) /\ Snapped(Still)
    BY DEF FlowInit, Still, Formed, Snapped, AtWork
  <1>3. \A i \in Items : boards[i] = [lane |-> lane[i], hands |-> hands[i]]
    BY DEF FlowInit, Row
  <1> QED BY <1>1, <1>2, <1>3 DEF FlowInit, CatchInv, CatchTypes, LaneShown, HandsShown

LEMMA CatchesUp == CatchInv => BoardsCatchUp
PROOF
  <1> SUFFICES ASSUME CatchInv, NEW i \in Items \ blurred
               PROVE  boards[i] = Row(i) \/ \E m \in Moves : /\ move[m].phase \notin {"still", "next"}
                                                             /\ i \in move[m].items
    BY DEF BoardsCatchUp
  <1>1. CASE boards[i].lane = lane[i] /\ boards[i].hands = hands[i]
    BY <1>1 DEF CatchInv, CatchTypes, Row
  <1>2. CASE \E m \in Moves : ShowsLane(move[m], i) \/ ShowsHands(move[m], i)
    BY <1>2 DEF ShowsLane, ShowsHands, AtWork
  <1> QED BY <1>1, <1>2 DEF CatchInv, LaneShown, HandsShown

\* One request goes on without a write: each card stays shown or is shown now.
StillShown(i, q, r) ==
    \/ boards'[i] = Row(i)
    \/ /\ i \notin blurred
       /\ \/ boards'[i].lane = lane[i]
          \/ boards'[i].lane = boards[i].lane /\ (ShowsLane(q, i) => ShowsLane(r, i))
       /\ \/ boards'[i].hands = hands[i]
          \/ boards'[i].hands = boards[i].hands /\ (ShowsHands(q, i) => ShowsHands(r, i))

LEMMA NoWriteKeeps ==
    ASSUME CatchInv, NEW m \in Moves, NEW r, move' = [move EXCEPT ![m] = r],
           UNCHANGED <<lane, hands>>, Formed(r), Snapped(r),
           DOMAIN boards' = Items,
           \A i \in Items : boards'[i] = [lane |-> boards'[i].lane, hands |-> boards'[i].hands],
           \A i \in Items \ blurred' : StillShown(i, move[m], r)
    PROVE  CatchInv'
PROOF
  <1>1. \A n \in Moves : move'[n] = IF n = m THEN r ELSE move[n]
    BY DEF CatchInv, CatchTypes
  <1>2. CatchTypes'
    <2>1. \A n \in Moves : Formed(move'[n])
      BY <1>1 DEF CatchInv, CatchTypes
    <2>2. DOMAIN move' = Moves
      BY DEF CatchInv, CatchTypes
    <2> QED BY <2>1, <2>2 DEF CatchInv, CatchTypes, Formed
  <1>3. \A n \in Moves : Snapped(move[n])'
    <2>1. \A n \in Moves : Snapped(move'[n])
      BY <1>1 DEF CatchInv
    <2> QED BY <2>1 DEF Snapped, Row
  <1>4. ASSUME NEW i \in Items \ blurred' PROVE LaneShown(i)' /\ HandsShown(i)'
    <2>1. StillShown(i, move[m], r)
      OBVIOUS
    <2>2. CASE boards'[i] = Row(i)
      BY <2>2 DEF Row, LaneShown, HandsShown
    <2>3. CASE i \notin blurred
      <3>1. LaneShown(i) /\ HandsShown(i)
        BY <2>3 DEF CatchInv
      <3>2. LaneShown(i)'
        <4>1. CASE boards'[i].lane = lane[i]
          BY <4>1 DEF LaneShown
        <4>2. CASE boards'[i].lane = boards[i].lane /\ (ShowsLane(move[m], i) => ShowsLane(r, i))
          <5>1. (\E n \in Moves : ShowsLane(move[n], i)) => \E n \in Moves : ShowsLane(move'[n], i)
            BY <1>1, <4>2
          <5> QED BY <3>1, <4>2, <5>1 DEF LaneShown, ShowsLane, Whole
        <4>3. CASE boards'[i] = Row(i)
          BY <4>3 DEF LaneShown, Row
        <4> QED BY <2>1, <4>1, <4>2, <4>3 DEF StillShown
      <3>3. HandsShown(i)'
        <4>1. CASE boards'[i].hands = hands[i]
          BY <4>1 DEF HandsShown
        <4>2. CASE boards'[i].hands = boards[i].hands /\ (ShowsHands(move[m], i) => ShowsHands(r, i))
          <5>1. (\E n \in Moves : ShowsHands(move[n], i)) => \E n \in Moves : ShowsHands(move'[n], i)
            BY <1>1, <4>2
          <5> QED BY <3>1, <4>2, <5>1 DEF HandsShown, ShowsHands, Whole
        <4>3. CASE boards'[i] = Row(i)
          BY <4>3 DEF HandsShown, Row
        <4> QED BY <2>1, <4>1, <4>2, <4>3 DEF StillShown
      <3> QED BY <3>2, <3>3
    <2> QED BY <2>1, <2>2, <2>3 DEF StillShown
  <1> QED BY <1>2, <1>3, <1>4 DEF CatchInv

\* The others, when one writes the rows of some cards.
LEMMA OthersWhenWritten ==
    ASSUME CatchInv, NEW m \in Moves, NEW r, NEW I, Wrote(m, r, I), NEW n \in Moves, n # m,
           \A i \in Items \ I : lane'[i] = lane[i] /\ hands'[i] = hands[i]
    PROVE  /\ Formed(move'[n]) /\ Snapped(move[n])'
           /\ \A i : /\ ShowsLane(move[n], i) => ShowsLane(move'[n], i)
                     /\ ShowsHands(move[n], i) => ShowsHands(move'[n], i)
PROOF
  <1> DEFINE q == move[n]
  <1>0. Formed(q) /\ Snapped(q)
    BY DEF CatchInv, CatchTypes
  <1>1. CASE q.phase \in {"moved", "show", "assigned"}
    <2>1. PICK r2 : r2 = [q EXCEPT !.current = @ /\ q.items \cap I = {}]
      OBVIOUS
    <2>2. move'[n] = r2
      BY <1>1, <2>1 DEF Wrote
    <2>3. /\ DOMAIN r2 = DOMAIN q
          /\ r2.phase = q.phase /\ r2.kind = q.kind /\ r2.items = q.items /\ r2.want = q.want
          /\ r2.snap = q.snap /\ r2.back = q.back /\ r2.todo = q.todo
          /\ r2.current = (q.current /\ q.items \cap I = {})
      BY <1>0, <1>1, <2>1 DEF Formed, AtWork, WorkFields
    <2>4. Formed(r2)
      BY <1>0, <1>1, <2>3 DEF Formed, AtWork
    <2>6. r2.current => /\ q.current
                        /\ q.phase \in {"moved", "show"} => q.want.item \in Items \ I
                        /\ q.phase = "assigned" => \A i \in q.items : i \in Items \ I
      BY <1>0, <1>1, <2>3 DEF Formed, AtWork
    <2>7. Snapped(move[n])'
      BY <1>0, <2>2, <2>3, <2>6 DEF Snapped, Row
    <2>8. \A i : /\ ShowsLane(q, i) => ShowsLane(r2, i)
                 /\ ShowsHands(q, i) => ShowsHands(r2, i)
      BY <2>3 DEF ShowsLane, ShowsHands, Whole
    <2> QED BY <2>2, <2>4, <2>7, <2>8
  <1>2. CASE q.phase \notin {"moved", "show", "assigned"}
    <2>1. PICK r2 : r2 = Dated(q)
      OBVIOUS
    <2>2. move'[n] = r2
      BY <1>2, <2>1 DEF Wrote
    <2>3. \/ r2 = q
          \/ /\ q.phase \in {"write", "system"} /\ DOMAIN r2 = DOMAIN q
             /\ r2.phase = q.phase /\ r2.kind = q.kind /\ r2.items = q.items /\ r2.want = q.want
             /\ r2.back = q.back /\ r2.todo = q.todo
      BY <1>0, <2>1 DEF Dated, Formed, AtWork, WorkFields
    <2>4. Formed(r2)
      BY <1>0, <2>3 DEF Formed, AtWork
    <2>5. r2.phase \notin {"moved", "show", "assigned"}
      BY <1>2, <2>3
    <2>7. Snapped(move[n])'
      BY <2>2, <2>5 DEF Snapped
    <2>8. \A i : /\ ShowsLane(q, i) => ShowsLane(r2, i)
                 /\ ShowsHands(q, i) => ShowsHands(r2, i)
      BY <2>3 DEF ShowsLane, ShowsHands, Whole
    <2> QED BY <2>2, <2>4, <2>7, <2>8
  <1> QED BY <1>1, <1>2

LEMMA CatchWriteKeeps ==
    ASSUME CatchInv, NEW m \in Moves, NEW r, NEW I, Wrote(m, r, I), I \subseteq Items,
           DOMAIN lane' = Items, DOMAIN hands' = Items,
           \A i \in Items \ I : lane'[i] = lane[i] /\ hands'[i] = hands[i],
           UNCHANGED <<boards, blurred>>,
           Formed(r), Snapped(move[m])',
           \A i \in Items \ I : /\ ShowsLane(move[m], i) => ShowsLane(r, i)
                                /\ ShowsHands(move[m], i) => ShowsHands(r, i),
           \A i \in I : /\ ShowsLane(r, i) \/ (lane'[i] = lane[i] /\ ~ShowsLane(move[m], i))
                        /\ ShowsHands(r, i) \/ (hands'[i] = hands[i] /\ ~ShowsHands(move[m], i))
    PROVE  CatchInv'
PROOF
  <1>0. DOMAIN move' = Moves /\ move'[m] = r
    BY DEF Wrote
  <1>1. \A n \in Moves : /\ Formed(move'[n]) /\ Snapped(move[n])'
                         /\ n # m => \A i : /\ ShowsLane(move[n], i) => ShowsLane(move'[n], i)
                                            /\ ShowsHands(move[n], i) => ShowsHands(move'[n], i)
    BY <1>0, OthersWhenWritten
  <1>2. CatchTypes'
    BY <1>0, <1>1 DEF CatchInv, CatchTypes, Formed
  <1>3. ASSUME NEW i \in Items \ blurred' PROVE LaneShown(i)' /\ HandsShown(i)'
    <2>1. LaneShown(i) /\ HandsShown(i)
      BY DEF CatchInv
    <2>2. /\ ShowsLane(r, i) \/ (lane'[i] = lane[i] /\ ~ShowsLane(move[m], i))
          /\ ShowsHands(r, i) \/ (hands'[i] = hands[i] /\ ~ShowsHands(move[m], i))
      OBVIOUS
    <2>3. LaneShown(i)'
      <3>1. CASE ShowsLane(move'[m], i)
        BY <3>1 DEF LaneShown, ShowsLane, Whole
      <3>2. CASE ~ShowsLane(move'[m], i)
        <4>1. lane'[i] = lane[i] /\ ~ShowsLane(move[m], i)
          BY <1>0, <2>2, <3>2
        <4>2. boards[i].lane = lane[i] \/ \E n \in Moves : ShowsLane(move'[n], i)
          BY <1>1, <2>1, <4>1 DEF LaneShown
        <4> QED BY <4>1, <4>2 DEF LaneShown, ShowsLane, Whole
      <3> QED BY <3>1, <3>2
    <2>4. HandsShown(i)'
      <3>1. CASE ShowsHands(move'[m], i)
        BY <3>1 DEF HandsShown, ShowsHands, Whole
      <3>2. CASE ~ShowsHands(move'[m], i)
        <4>1. hands'[i] = hands[i] /\ ~ShowsHands(move[m], i)
          BY <1>0, <2>2, <3>2
        <4>2. boards[i].hands = hands[i] \/ \E n \in Moves : ShowsHands(move'[n], i)
          BY <1>1, <2>1, <4>1 DEF HandsShown
        <4> QED BY <4>1, <4>2 DEF HandsShown, ShowsHands, Whole
      <3> QED BY <3>1, <3>2
    <2> QED BY <2>3, <2>4
  <1> QED BY <1>1, <1>2, <1>3 DEF CatchInv

\* A fact changes: nobody shows less.
LEMMA FactsKeep ==
    ASSUME CatchInv, move' = [m \in Moves |-> Dated(move[m])], UNCHANGED <<lane, hands, boards, blurred>>
    PROVE  CatchInv'
PROOF
  <1>1. ASSUME NEW n \in Moves
        PROVE  /\ Formed(move'[n]) /\ Snapped(move'[n])
               /\ \A i : /\ ShowsLane(move[n], i) => ShowsLane(move'[n], i)
                         /\ ShowsHands(move[n], i) => ShowsHands(move'[n], i)
    <2>0. Formed(move[n]) /\ Snapped(move[n])
      BY DEF CatchInv, CatchTypes
    <2>1. PICK q, r : q = move[n] /\ r = Dated(q)
      OBVIOUS
    <2>2. move'[n] = r
      BY <2>1
    <2>3. \/ r = q
          \/ /\ q.phase \in {"write", "system"} /\ DOMAIN r = DOMAIN q
             /\ r.phase = q.phase /\ r.kind = q.kind /\ r.items = q.items /\ r.want = q.want
             /\ r.back = q.back /\ r.todo = q.todo
      BY <2>0, <2>1 DEF Dated, Formed, AtWork, WorkFields
    <2>f. Formed(r)
      BY <2>0, <2>1, <2>3 DEF Formed, AtWork
    <2>s. Snapped(r)
      BY <2>0, <2>1, <2>3 DEF Snapped
    <2>4. Formed(r) /\ Snapped(r)
      BY <2>f, <2>s
    <2>5. \A i : /\ ShowsLane(q, i) => ShowsLane(r, i)
                 /\ ShowsHands(q, i) => ShowsHands(r, i)
      BY <2>3 DEF ShowsLane, ShowsHands, Whole
    <2> QED BY <2>1, <2>2, <2>4, <2>5
  <1>2. CatchTypes'
    BY <1>1 DEF CatchInv, CatchTypes, Formed
  <1>3. \A n \in Moves : Snapped(move[n])'
    BY <1>1 DEF Snapped, Row
  <1>4. ASSUME NEW i \in Items \ blurred' PROVE LaneShown(i)' /\ HandsShown(i)'
    <2>1. LaneShown(i) /\ HandsShown(i)
      BY DEF CatchInv
    <2>2. /\ boards[i].lane = lane[i] \/ \E n \in Moves : ShowsLane(move'[n], i)
          /\ boards[i].hands = hands[i] \/ \E n \in Moves : ShowsHands(move'[n], i)
      BY <1>1, <2>1 DEF LaneShown, HandsShown
    <2> QED BY <2>2 DEF LaneShown, HandsShown, ShowsLane, ShowsHands, Whole
  <1> QED BY <1>2, <1>3, <1>4 DEF CatchInv

----------------------------------------------------------------------------
(* The steps.                                                              *)

LEMMA FormsWork ==
    ASSUME NEW q, q.phase \in AtWork, DOMAIN q = WorkFields, q.kind \in Kinds,
           q.items = {q.want.item}, q.want.item \in Items, \A w \in q.todo : w.item \in Items
    PROVE  Formed(q)
PROOF
  <1>1. q.phase \notin {"still", "next", "assigned"}
    BY DEF AtWork
  <1> QED BY <1>1 DEF Formed

\* Onward and into the rules.
LEMMA FormsNext ==
    ASSUME NEW q, Formed(q), q.phase \in AtWork
    PROVE  /\ Formed(Still) /\ Snapped(Still)
           /\ q.kind \in Kinds => /\ Formed(Onward(q)) /\ Snapped(Onward(q))
                                  /\ Formed(InRules(q)) /\ Snapped(InRules(q))
                                  /\ InRules(q).items = q.items /\ Whole(InRules(q))
PROOF
  <1>1. Formed(Still) /\ Snapped(Still)
    BY DEF Formed, Snapped, Still, AtWork
  <1>2. ASSUME q.kind \in Kinds PROVE Formed(Onward(q)) /\ Snapped(Onward(q))
    BY <1>1, <1>2 DEF Formed, Snapped, Onward, AtWork
  <1>3. ASSUME q.kind \in Kinds
        PROVE  /\ Formed(InRules(q)) /\ Snapped(InRules(q))
               /\ InRules(q).items = q.items /\ Whole(InRules(q))
    <2>1. PICK r : r = InRules(q)
      OBVIOUS
    <2>2. /\ DOMAIN r = WorkFields /\ r.phase = "rules" /\ r.kind = q.kind /\ r.items = q.items
          /\ r.todo = q.todo /\ r.want.item = q.want.item
      BY <2>1 DEF InRules, Formed, WorkFields, Want
    <2>3. Formed(r)
      <3>1. /\ q.items = {q.want.item} /\ q.want.item \in Items
            /\ \A w \in q.todo : w.item \in Items
        BY DEF Formed
      <3>2. r.phase \in AtWork
        BY <2>2 DEF AtWork
      <3> QED BY <1>3, <2>2, <3>1, <3>2, FormsWork
    <2>4. Snapped(r) /\ Whole(r)
      BY <1>3, <2>2 DEF Snapped, AtWork, Whole
    <2> QED BY <2>1, <2>2, <2>3, <2>4
  <1> QED BY <1>1, <1>2, <1>3

LEMMA CatchAccept ==
    ASSUME CatchInv, NEW m \in Moves, NEW kind \in Kinds, NEW wants, Accept(m, kind, wants),
           \A w \in wants : w.item \in Items
    PROVE  CatchInv'
PROOF
  <1>1. PICK r : r = [phase |-> "next", kind |-> kind, todo |-> wants, fresh |-> TRUE]
    OBVIOUS
  <1>2. /\ move' = [move EXCEPT ![m] = r] /\ move[m] = Still
        /\ UNCHANGED <<lane, hands, boards, blurred>>
    BY <1>1 DEF Accept
  <1>3. Formed(r) /\ Snapped(r)
    BY <1>1 DEF Formed, Snapped, AtWork
  <1>4. \A i : ~ShowsLane(move[m], i) /\ ~ShowsHands(move[m], i)
    BY <1>2 DEF ShowsLane, ShowsHands, Still, AtWork
  <1> QED BY <1>2, <1>3, <1>4, NoWriteKeeps DEF StillShown, CatchInv, CatchTypes

LEMMA CatchUpdateRead ==
    ASSUME CatchInv, NEW m \in Moves, NEW w, UpdateRead(m, w) \/ UpdateRefused(m, w)
    PROVE  CatchInv'
PROOF
  <1>0. /\ Formed(move[m]) /\ move[m].phase = "next" /\ w \in move[m].todo
        /\ UNCHANGED <<lane, hands, boards, blurred>>
    BY DEF UpdateRead, UpdateRefused, CatchInv, CatchTypes
  <1>1. \A i : ~ShowsLane(move[m], i) /\ ~ShowsHands(move[m], i)
    BY <1>0 DEF ShowsLane, ShowsHands, AtWork
  <1>2. CASE UpdateRead(m, w)
    <2>1. PICK l \in BOOLEAN : l = (w.to # Stay /\ w.to # lane[w.item])
      OBVIOUS
    <2>2. PICK r : r = [phase |-> "write", kind |-> move[m].kind, todo |-> move[m].todo \ {w},
                 items |-> {w.item}, want |-> w, leaving |-> l, fresh |-> TRUE,
                 snap |-> Unread, current |-> TRUE, left |-> {}, back |-> "next"]
      OBVIOUS
    <2>3. move' = [move EXCEPT ![m] = r]
      BY <1>2, <2>1, <2>2 DEF UpdateRead, CatchInv, CatchTypes
    <2>5. /\ DOMAIN r = WorkFields /\ r.phase = "write" /\ r.kind = move[m].kind
          /\ r.items = {w.item} /\ r.want = w /\ r.todo \subseteq move[m].todo
      BY <2>2 DEF WorkFields
    <2>4. Formed(r) /\ Snapped(r)
      <3>1. move[m].kind \in Kinds /\ \A v \in move[m].todo : v.item \in Items
        BY <1>0 DEF Formed
      <3>2. r.phase \in AtWork /\ r.want.item \in Items /\ r.items = {r.want.item}
            /\ \A v \in r.todo : v.item \in Items
        BY <1>0, <2>5, <3>1 DEF AtWork
      <3>3. Formed(r)
        BY <2>5, <3>1, <3>2, FormsWork
      <3> QED BY <2>5, <3>3 DEF Snapped
    <2> QED BY <1>0, <1>1, <2>3, <2>4, NoWriteKeeps DEF StillShown, CatchInv, CatchTypes
  <1>3. CASE UpdateRefused(m, w)
    <2> DEFINE q == [move[m] EXCEPT !.todo = @ \ {w}]
    <2>2. q.todo = move[m].todo \ {w} /\ q.kind = move[m].kind
      BY <1>0 DEF Formed
    <2>6. move' = [move EXCEPT ![m] = IF move[m].kind = "bulk" THEN Onward(q) ELSE Still]
      BY <1>3 DEF UpdateRefused
    <2> HIDE DEF q
    <2>3. PICK r : /\ r = Onward(q) \/ r = Still
                   /\ move' = [move EXCEPT ![m] = r]
      BY <2>6
    <2>4. Formed(r) /\ Snapped(r)
      BY <1>0, <2>2, <2>3 DEF Formed, Snapped, Onward, Still, AtWork
    <2> QED BY <1>0, <1>1, <2>3, <2>4, NoWriteKeeps DEF StillShown, CatchInv, CatchTypes
  <1> QED BY <1>2, <1>3

LEMMA CatchUpdateWrite ==
    ASSUME CatchInv, NEW m \in Moves, UpdateWrite(m)
    PROVE  CatchInv'
PROOF
  <1>0. Formed(move[m]) /\ move[m].phase = "write"
    BY DEF UpdateWrite, CatchInv, CatchTypes
  <1>1. PICK i, row, w : /\ w = move[m].want /\ i = w.item
                         /\ row = [lane |-> IF w.to = Stay THEN lane[w.item] ELSE w.to,
                                   hands |-> IF w.give = Keep THEN hands[w.item] ELSE w.give]
    OBVIOUS
  <1>2. PICK r : r = [move[m] EXCEPT !.phase = IF move[m].leaving THEN "moved" ELSE "show",
                                     !.want = Want(i, Stay, Keep, FALSE),
                                     !.fresh = TRUE, !.leaving = FALSE, !.snap = row]
    OBVIOUS
  <1>3. /\ lane' = [lane EXCEPT ![i] = row.lane] /\ hands' = [hands EXCEPT ![i] = row.hands]
        /\ Wrote(m, r, {i}) /\ UNCHANGED <<boards, blurred>>
    BY <1>1, <1>2 DEF UpdateWrite
  <1>4. /\ DOMAIN r = WorkFields /\ r.phase \in {"moved", "show"} /\ r.want.item = i
        /\ r.kind = move[m].kind /\ r.items = move[m].items /\ r.todo = move[m].todo
        /\ r.snap = row /\ r.back = move[m].back
    BY <1>0, <1>2 DEF Formed, AtWork, WorkFields, Want
  <1>5. i \in Items /\ move[m].items = {i} /\ move[m].kind \in Kinds
    BY <1>0, <1>1 DEF Formed, AtWork
  <1>6. Formed(r)
    BY <1>0, <1>1, <1>4, <1>5 DEF Formed, AtWork
  <1>7. DOMAIN lane' = Items /\ DOMAIN hands' = Items /\ lane'[i] = row.lane /\ hands'[i] = row.hands
    BY <1>3, <1>5 DEF CatchInv, CatchTypes
  <1>8. Snapped(move[m])'
    <2>1. move'[m] = r
      BY <1>3 DEF Wrote
    <2>2. row = [lane |-> lane'[i], hands |-> hands'[i]]
      BY <1>1, <1>7
    <2> QED BY <1>4, <1>7, <2>1, <2>2 DEF Snapped, Row
  <1>9. /\ \A j \in Items \ {i} : ~ShowsLane(move[m], j) /\ ~ShowsHands(move[m], j)
        /\ ShowsLane(r, i) /\ ShowsHands(r, i)
    <2>1. r.phase \in AtWork /\ i \in r.items /\ Whole(r)
      BY <1>4, <1>5 DEF Whole, AtWork
    <2>2. \A j \in Items \ {i} : ~ShowsLane(move[m], j) /\ ~ShowsHands(move[m], j)
      BY <1>5 DEF ShowsLane, ShowsHands
    <2>3. ShowsLane(r, i) /\ ShowsHands(r, i)
      BY <2>1 DEF ShowsLane, ShowsHands
    <2> QED BY <2>2, <2>3
  <1>10. \A j \in Items \ {i} : lane'[j] = lane[j] /\ hands'[j] = hands[j]
    BY <1>3 DEF CatchInv, CatchTypes
  <1> QED BY <1>3, <1>5, <1>6, <1>7, <1>8, <1>9, <1>10, CatchWriteKeeps

\* The move of a card is shown.
LEMMA CatchShowMove ==
    ASSUME CatchInv, NEW m \in Moves, ShowMove(m)
    PROVE  CatchInv'
PROOF
  <1>1. PICK q, i : q = move[m] /\ i = q.want.item
    OBVIOUS
  <1>2. /\ Formed(q) /\ Snapped(q) /\ q.phase = "moved" /\ q.phase \in AtWork
    BY <1>1 DEF ShowMove, CatchInv, CatchTypes, AtWork
  <1>3. i \in Items /\ q.items = {i}
    BY <1>1, <1>2 DEF Formed
  <1>4. /\ boards' = [boards EXCEPT ![i].lane = q.snap.lane]
        /\ blurred' = (IF q.current THEN blurred ELSE blurred \cup q.items)
        /\ UNCHANGED <<lane, hands>>
    BY <1>1 DEF ShowMove, Blur
  <1>5. PICK r : /\ move' = [move EXCEPT ![m] = r]
                 /\ \/ q.kind = "system" /\ r = Still
                    \/ q.kind # "system" /\ r = InRules(q)
                    \/ q.kind # "system" /\ \E X : r = [InRules(q) EXCEPT !.left = X]
    BY <1>1 DEF ShowMove
  <1>6. q.kind = "system" \/ q.kind \in Kinds
    BY <1>2 DEF Formed
  <1>7. Formed(r) /\ Snapped(r) /\ (q.kind # "system" => Whole(r) /\ r.items = q.items)
    <2>1. CASE q.kind = "system"
      BY <1>2, <1>5, <2>1, FormsNext
    <2>2. CASE r = InRules(q) /\ q.kind # "system"
      BY <1>2, <1>6, <2>2, FormsNext
    <2>3. CASE q.kind # "system" /\ \E X : r = [InRules(q) EXCEPT !.left = X]
      <3>1. PICK X, p : p = InRules(q) /\ r = [p EXCEPT !.left = X]
        BY <2>3
      <3>2. Formed(p) /\ p.items = q.items /\ Whole(p)
        BY <1>2, <1>6, <2>3, <3>1, FormsNext
      <3>3. p.phase = "rules"
        BY <1>2, <3>1 DEF InRules, Formed, WorkFields
      <3>4. /\ DOMAIN r = DOMAIN p /\ r.phase = p.phase /\ r.kind = p.kind /\ r.items = p.items
            /\ r.want = p.want /\ r.back = p.back /\ r.todo = p.todo
        BY <3>1
      <3>5. Formed(r)
        BY <3>2, <3>3, <3>4 DEF Formed, AtWork
      <3> QED BY <3>2, <3>3, <3>4, <3>5 DEF Snapped, Whole
    <2> QED BY <1>5, <2>1, <2>2, <2>3
  <1>8. \A j \in Items :
          /\ boards'[j] = [lane |-> IF j = i THEN q.snap.lane ELSE boards[j].lane, hands |-> boards[j].hands]
          /\ boards'[j].hands = boards[j].hands
          /\ boards'[j].lane = IF j = i THEN q.snap.lane ELSE boards[j].lane
    BY <1>3, <1>4 DEF CatchInv, CatchTypes
  <1>9. ASSUME NEW j \in Items \ blurred' PROVE StillShown(j, q, r)
    <2>1. j \notin blurred /\ (j = i => q.current)
      BY <1>3, <1>4
    <2>2. j = i => boards'[j].lane = lane[j]
      BY <1>1, <1>2, <1>8, <2>1 DEF Snapped
    <2>3. j # i => ~ShowsLane(q, j) /\ ~ShowsHands(q, j)
      BY <1>3 DEF ShowsLane, ShowsHands
    <2>4. ShowsHands(q, j) => ShowsHands(r, j)
      BY <1>2, <1>7 DEF ShowsHands, Whole, Kinds
    <2> QED BY <1>8, <2>1, <2>2, <2>3, <2>4 DEF StillShown
  <1>10. DOMAIN boards' = Items
    BY <1>4 DEF CatchInv, CatchTypes
  <1>11. \A j \in Items : boards'[j] = [lane |-> boards'[j].lane, hands |-> boards'[j].hands]
    BY <1>8
  <1> QED BY <1>1, <1>4, <1>5, <1>7, <1>9, <1>10, <1>11, NoWriteKeeps

LEMMA CatchReadAgain ==
    ASSUME CatchInv, NEW m \in Moves, ReadAgain(m)
    PROVE  CatchInv'
PROOF
  <1>1. PICK q, i : q = move[m] /\ i = q.want.item
    OBVIOUS
  <1>2. Formed(q) /\ q.phase \in {"read", "rules"} /\ q.phase \in AtWork
    BY <1>1 DEF ReadAgain, CatchInv, CatchTypes, AtWork
  <1>3. PICK r : r = [q EXCEPT !.phase = "show", !.snap = Row(i), !.current = TRUE]
    OBVIOUS
  <1>4. move' = [move EXCEPT ![m] = r] /\ UNCHANGED <<lane, hands, boards, blurred>>
    BY <1>1, <1>3 DEF ReadAgain, Reread, CatchInv, CatchTypes
  <1>5. /\ DOMAIN r = WorkFields /\ r.phase = "show" /\ r.kind = q.kind /\ r.items = q.items
        /\ r.want = q.want /\ r.back = q.back /\ r.todo = q.todo /\ r.snap = Row(i)
    BY <1>2, <1>3 DEF Formed, WorkFields
  <1>6. Formed(r)
    BY <1>2, <1>5 DEF Formed, AtWork
  <1>7. Snapped(r)
    BY <1>1, <1>5 DEF Snapped, Row
  <1>8. \A j : /\ ShowsLane(q, j) => ShowsLane(r, j)
               /\ ShowsHands(q, j) => ShowsHands(r, j)
    BY <1>2, <1>5 DEF ShowsLane, ShowsHands, Whole, AtWork
  <1> QED BY <1>1, <1>4, <1>6, <1>7, <1>8, NoWriteKeeps DEF StillShown, CatchInv, CatchTypes

LEMMA CatchShowCard ==
    ASSUME CatchInv, NEW m \in Moves, ShowCard(m)
    PROVE  CatchInv'
PROOF
  <1>1. PICK q, i : q = move[m] /\ i = q.want.item
    OBVIOUS
  <1>2. Formed(q) /\ Snapped(q) /\ q.phase = "show" /\ q.phase \in AtWork
    BY <1>1 DEF ShowCard, CatchInv, CatchTypes, AtWork
  <1>3. i \in Items /\ q.items = {i} /\ q.kind \in Kinds
    BY <1>1, <1>2 DEF Formed
  <1>4. /\ boards' = [boards EXCEPT ![i] = q.snap]
        /\ blurred' = (IF q.current THEN blurred \ q.items ELSE blurred \cup q.items)
        /\ UNCHANGED <<lane, hands>>
    BY <1>1 DEF ShowCard, Blur
  <1>5. PICK r : move' = [move EXCEPT ![m] = r] /\ (r = Onward(q) \/ r = InRules(q))
    BY <1>1 DEF ShowCard
  <1>6. Formed(r) /\ Snapped(r)
    BY <1>2, <1>3, <1>5, FormsNext
  <1>7. \A j \in Items : boards'[j] = IF j = i THEN q.snap ELSE boards[j]
    BY <1>4 DEF CatchInv, CatchTypes
  <1>8. ASSUME NEW j \in Items \ blurred' PROVE StillShown(j, q, r)
    <2>1. CASE j = i
      BY <1>1, <1>2, <1>3, <1>4, <1>7, <2>1 DEF Snapped, StillShown
    <2>2. CASE j # i
      <3>1. j \notin blurred /\ boards'[j] = boards[j]
        BY <1>3, <1>4, <1>7, <2>2
      <3>2. j \notin q.items
        BY <1>3, <2>2
      <3> QED BY <3>1, <3>2 DEF ShowsLane, ShowsHands, StillShown
    <2> QED BY <2>1, <2>2
  <1>9. DOMAIN boards' = Items
    BY <1>4 DEF CatchInv, CatchTypes
  <1>10. q.snap = [lane |-> q.snap.lane, hands |-> q.snap.hands]
    BY <1>2 DEF Snapped
  <1>11. \A j \in Items : boards'[j] = [lane |-> boards'[j].lane, hands |-> boards'[j].hands]
    BY <1>7, <1>10 DEF CatchInv, CatchTypes
  <1> QED BY <1>1, <1>4, <1>5, <1>6, <1>8, <1>9, <1>11, NoWriteKeeps

LEMMA CatchQueryFails ==
    ASSUME CatchInv, NEW m \in Moves, QueryFails(m)
    PROVE  CatchInv'
PROOF
  <1>1. PICK q : q = move[m]
    OBVIOUS
  <1>2. Formed(q) /\ q # Still /\ q.phase \notin {"next", "write"}
    BY <1>1 DEF QueryFails, CatchInv, CatchTypes
  <1>3. /\ blurred' = blurred \cup q.items /\ UNCHANGED <<lane, hands, boards>>
    BY <1>1 DEF QueryFails
  <1>4. PICK r : r = IF q.back = "rules" THEN InRules(q) ELSE IF q.kind = "bulk" THEN Onward(q) ELSE Still
    OBVIOUS
  <1>5. move' = [move EXCEPT ![m] = r]
    BY <1>1, <1>4 DEF QueryFails, CatchInv, CatchTypes
  <1>6. Formed(r) /\ Snapped(r)
    <2>1. CASE q.phase = "assigned"
      <3>1. r = Still
        BY <1>2, <1>4, <2>1 DEF Formed
      <3> QED BY <3>1 DEF Formed, Snapped, Still, AtWork
    <2>2. CASE q.phase \in AtWork
      <3>1. q.kind \in Kinds \/ r = Still
        BY <1>2, <1>4, <2>2 DEF Formed
      <3> QED BY <1>2, <1>4, <2>2, <3>1, FormsNext
    <2> QED BY <1>2, <2>1, <2>2 DEF Formed
  <1>7. ASSUME NEW j \in Items \ blurred' PROVE StillShown(j, q, r)
    <2>1. j \notin q.items /\ j \notin blurred
      BY <1>3
    <2> QED BY <1>3, <2>1 DEF ShowsLane, ShowsHands, StillShown
  <1> QED BY <1>1, <1>3, <1>5, <1>6, <1>7, NoWriteKeeps DEF CatchInv, CatchTypes

LEMMA CatchShowAssigned ==
    ASSUME CatchInv, NEW m \in Moves, ShowAssigned(m)
    PROVE  CatchInv'
PROOF
  <1>1. PICK q : q = move[m]
    OBVIOUS
  <1>2. Formed(q) /\ Snapped(q) /\ q.phase = "assigned" /\ q.kind = "assign"
    BY <1>1 DEF ShowAssigned, CatchInv, CatchTypes, Formed
  <1>3. /\ blurred' = (IF q.current THEN blurred ELSE blurred \cup q.items)
        /\ UNCHANGED <<lane, hands>> /\ move' = [move EXCEPT ![m] = Still]
        /\ boards' = [i \in Items |-> IF i \in q.items THEN [boards[i] EXCEPT !.hands = q.snap.hands]
                                      ELSE boards[i]]
    BY <1>1 DEF ShowAssigned, Blur
  <1>4. Formed(Still) /\ Snapped(Still)
    BY DEF Formed, Snapped, Still, AtWork
  <1>5. \A j \in Items :
          /\ boards'[j] = [lane |-> boards[j].lane,
                           hands |-> IF j \in q.items THEN q.snap.hands ELSE boards[j].hands]
          /\ boards'[j].lane = boards[j].lane
          /\ boards'[j].hands = IF j \in q.items THEN q.snap.hands ELSE boards[j].hands
    BY <1>3 DEF CatchInv, CatchTypes
  <1>6. ASSUME NEW j \in Items \ blurred' PROVE StillShown(j, q, Still)
    <2>1. j \notin blurred /\ (j \in q.items => q.current)
      BY <1>3
    <2>2. j \in q.items => boards'[j].hands = hands[j]
      BY <1>2, <1>5, <2>1 DEF Snapped
    <2>3. ~ShowsLane(q, j)
      BY <1>2 DEF ShowsLane, Whole, AtWork
    <2>4. j \notin q.items => ~ShowsHands(q, j)
      BY DEF ShowsHands
    <2> QED BY <1>5, <2>1, <2>2, <2>3, <2>4 DEF StillShown
  <1>7. DOMAIN boards' = Items
    BY <1>3
  <1>8. \A j \in Items : boards'[j] = [lane |-> boards'[j].lane, hands |-> boards'[j].hands]
    BY <1>5
  <1> QED BY <1>1, <1>3, <1>4, <1>6, <1>7, <1>8, NoWriteKeeps

\* A rule acts: the request shows the card when it is done with the rules.
LEMMA CatchRuleAssigns ==
    ASSUME CatchInv, NEW m \in Moves, NEW x, RuleAssigns(m, x)
    PROVE  CatchInv'
PROOF
  <1>1. PICK q, i, p : q = move[m] /\ i = q.want.item /\ p = [q EXCEPT !.left = @ \ {x}]
    OBVIOUS
  <1>2. Formed(q) /\ q.phase = "rules" /\ q.phase \in AtWork
    BY <1>1 DEF RuleAssigns, Rule, CatchInv, CatchTypes, AtWork
  <1>3. /\ i \in Items /\ q.items = {i} /\ q.kind \in Kinds /\ DOMAIN q = WorkFields
        /\ \A w \in q.todo : w.item \in Items
    BY <1>1, <1>2 DEF Formed
  <1>4. /\ DOMAIN p = WorkFields /\ p.phase = "rules" /\ p.kind = q.kind /\ p.items = q.items
        /\ p.want = q.want /\ p.todo = q.todo /\ p.back = q.back
    BY <1>1, <1>2, <1>3 DEF WorkFields
  <1>5. CASE move' = [move EXCEPT ![m] = p] /\ UNCHANGED <<lane, hands, boards, blurred>>
    <2>1. Formed(p) /\ Snapped(p)
      <3>1. p.phase \in AtWork
        BY <1>4 DEF AtWork
      <3>2. Formed(p)
        BY <1>1, <1>3, <1>4, <3>1, FormsWork
      <3> QED BY <1>4, <3>2 DEF Snapped
    <2>2. \A j : /\ ShowsLane(q, j) => ShowsLane(p, j)
                 /\ ShowsHands(q, j) => ShowsHands(p, j)
      BY <1>2, <1>4 DEF ShowsLane, ShowsHands, Whole
    <2> QED BY <1>1, <1>5, <2>1, <2>2, NoWriteKeeps DEF StillShown, CatchInv, CatchTypes
  <1>6. CASE /\ hands' = [hands EXCEPT ![i] = @ \cup {Helper}]
             /\ Wrote(m, [p EXCEPT !.phase = "read", !.back = "rules"], {i})
             /\ UNCHANGED <<lane, boards, blurred>>
    <2>1. PICK r : r = [p EXCEPT !.phase = "read", !.back = "rules"]
      OBVIOUS
    <2>2. /\ DOMAIN r = WorkFields /\ r.phase = "read" /\ r.kind = q.kind /\ r.items = q.items
          /\ r.want = q.want /\ r.todo = q.todo
      BY <1>4, <2>1 DEF WorkFields
    <2>3. Formed(r) /\ r.phase \in AtWork
      <3>1. r.phase \in AtWork
        BY <2>2 DEF AtWork
      <3> QED BY <1>1, <1>3, <2>2, <3>1, FormsWork
    <2>4. Wrote(m, r, {i}) /\ move'[m] = r
      BY <1>6, <2>1 DEF Wrote
    <2>5. Snapped(move[m])'
      BY <2>2, <2>4 DEF Snapped
    <2>6. \A j : /\ ShowsLane(q, j) => ShowsLane(r, j)
                 /\ ShowsHands(q, j) => ShowsHands(r, j)
      BY <1>2, <2>2, <2>3 DEF ShowsLane, ShowsHands, Whole
    <2>7. ShowsLane(r, i) /\ ShowsHands(r, i)
      <3>1. i \in r.items /\ Whole(r)
        BY <1>3, <2>2, <2>3 DEF Whole
      <3> QED BY <2>3, <3>1 DEF ShowsLane, ShowsHands
    <2>8. /\ DOMAIN lane' = Items /\ DOMAIN hands' = Items
          /\ \A j \in Items \ {i} : lane'[j] = lane[j] /\ hands'[j] = hands[j]
      BY <1>6 DEF CatchInv, CatchTypes
    <2> QED BY <1>1, <1>3, <1>6, <2>3, <2>4, <2>5, <2>6, <2>7, <2>8, CatchWriteKeeps
  <1> QED BY <1>1, <1>5, <1>6 DEF RuleAssigns

LEMMA CatchRuleMoves ==
    ASSUME CatchInv, NEW m \in Moves, NEW x, RuleMoves(m, x)
    PROVE  CatchInv'
PROOF
  <1>1. PICK q, i, p : q = move[m] /\ i = q.want.item /\ p = [q EXCEPT !.left = @ \ {x}]
    OBVIOUS
  <1>2. Formed(q) /\ q.phase = "rules" /\ q.phase \in AtWork
    BY <1>1 DEF RuleMoves, Rule, CatchInv, CatchTypes, AtWork
  <1>3. /\ i \in Items /\ q.items = {i} /\ q.kind \in Kinds /\ DOMAIN q = WorkFields
        /\ \A w \in q.todo : w.item \in Items
    BY <1>1, <1>2 DEF Formed
  <1>4. /\ DOMAIN p = WorkFields /\ p.phase = "rules" /\ p.kind = q.kind /\ p.items = q.items
        /\ p.want = q.want /\ p.todo = q.todo /\ p.back = q.back
    BY <1>1, <1>2, <1>3 DEF WorkFields
  <1>5. PICK s : s = [p EXCEPT !.phase = "system", !.back = "rules", !.fresh = TRUE,
                               !.want = Want(i, x.to, Keep, FALSE)]
    OBVIOUS
  <1>6. /\ DOMAIN s = WorkFields /\ s.phase = "system" /\ s.kind = q.kind /\ s.items = q.items
        /\ s.want.item = i /\ s.todo = q.todo
    BY <1>4, <1>5 DEF WorkFields, Want
  <1>7. PICK r : move' = [move EXCEPT ![m] = r] /\ (r = s \/ r = p)
    <2>1. move' = [move EXCEPT ![m] = IF SystemMay(i, x.to) THEN s ELSE p]
      BY <1>1, <1>5 DEF RuleMoves
    <2> QED BY <2>1
  <1>8. UNCHANGED <<lane, hands, boards, blurred>>
    BY DEF RuleMoves
  <1>9. /\ r.phase \in AtWork /\ DOMAIN r = WorkFields /\ r.kind = q.kind /\ r.items = q.items
        /\ r.want.item = i /\ r.todo = q.todo /\ r.phase \in {"rules", "system"}
    BY <1>1, <1>4, <1>6, <1>7 DEF AtWork
  <1>10. Formed(r)
    BY <1>3, <1>9, FormsWork
  <1>11. Snapped(r)
    BY <1>9 DEF Snapped
  <1>12. \A j : /\ ShowsLane(q, j) => ShowsLane(r, j)
                /\ ShowsHands(q, j) => ShowsHands(r, j)
    BY <1>2, <1>3, <1>9 DEF ShowsLane, ShowsHands, Whole
  <1> QED BY <1>1, <1>7, <1>8, <1>10, <1>11, <1>12, NoWriteKeeps DEF StillShown, CatchInv, CatchTypes

LEMMA CatchSystemMove ==
    ASSUME CatchInv, NEW m \in Moves, NEW i \in Items, NEW to, SystemMove(m, i, to)
    PROVE  CatchInv'
PROOF
  <1>1. PICK r : r = [phase |-> "system", kind |-> "system", todo |-> {}, items |-> {i},
                      want |-> Want(i, to, Keep, FALSE), leaving |-> TRUE, fresh |-> TRUE,
                      snap |-> Unread, current |-> TRUE, left |-> {}, back |-> "next"]
    OBVIOUS
  <1>2. /\ move' = [move EXCEPT ![m] = r] /\ move[m] = Still
        /\ UNCHANGED <<lane, hands, boards, blurred>>
    BY <1>1 DEF SystemMove
  <1>3. DOMAIN r = WorkFields /\ r.phase = "system" /\ r.want.item = i
    BY <1>1 DEF WorkFields, Want
  <1>4. Formed(r) /\ Snapped(r)
    BY <1>1, <1>3 DEF Formed, Snapped, AtWork
  <1>5. \A j : ~ShowsLane(move[m], j) /\ ~ShowsHands(move[m], j)
    BY <1>2 DEF ShowsLane, ShowsHands, Still, AtWork
  <1> QED BY <1>2, <1>4, <1>5, NoWriteKeeps DEF StillShown, CatchInv, CatchTypes

LEMMA CatchSystemWrites ==
    ASSUME CatchInv, NEW m \in Moves, SystemWrites(m)
    PROVE  CatchInv'
PROOF
  <1>1. PICK q, w, i : q = move[m] /\ w = q.want /\ i = w.item
    OBVIOUS
  <1>2. Formed(q) /\ q.phase = "system" /\ q.phase \in AtWork
    BY <1>1 DEF SystemWrites, CatchInv, CatchTypes, AtWork
  <1>3. PICK r : r = [q EXCEPT !.phase = "moved", !.snap = [lane |-> w.to],
                               !.current = TRUE, !.fresh = TRUE]
    OBVIOUS
  <1>4. /\ lane' = [lane EXCEPT ![i] = w.to] /\ Wrote(m, r, {i})
        /\ UNCHANGED <<hands, boards, blurred>>
    BY <1>1, <1>3 DEF SystemWrites
  <1>5. /\ i \in Items /\ q.items = {i} /\ DOMAIN q = WorkFields
        /\ \A v \in q.todo : v.item \in Items
        /\ q.kind \in Kinds \/ (q.kind = "system" /\ q.back = "next")
    BY <1>1, <1>2 DEF Formed
  <1>6. /\ DOMAIN r = WorkFields /\ r.phase = "moved" /\ r.kind = q.kind /\ r.items = q.items
        /\ r.want = w /\ r.todo = q.todo /\ r.back = q.back /\ r.snap.lane = w.to
    BY <1>1, <1>3, <1>5 DEF WorkFields
  <1>7. r.phase \in AtWork /\ r.phase \notin {"still", "next", "assigned"}
    BY <1>6 DEF AtWork
  <1>8. Formed(r)
    BY <1>1, <1>5, <1>6, <1>7 DEF Formed
  <1>9. DOMAIN lane' = Items /\ DOMAIN hands' = Items /\ lane'[i] = w.to
    BY <1>4, <1>5 DEF CatchInv, CatchTypes
  <1>10. Snapped(move[m])'
    <2>1. move'[m] = r
      BY <1>4 DEF Wrote
    <2> QED BY <1>1, <1>6, <1>9, <2>1 DEF Snapped
  <1>11. ShowsLane(r, i)
    BY <1>5, <1>6, <1>7 DEF ShowsLane, Whole
  <1>12. \A j : ShowsHands(q, j) => ShowsHands(r, j)
    BY <1>2, <1>6, <1>7 DEF ShowsHands, Whole
  <1>13. \A j \in Items \ {i} : ~ShowsLane(q, j) /\ ~ShowsHands(q, j)
    BY <1>5 DEF ShowsLane, ShowsHands
  <1>14. ShowsHands(r, i) \/ (hands'[i] = hands[i] /\ ~ShowsHands(q, i))
    BY <1>4, <1>12
  <1>15. \A j \in Items \ {i} : lane'[j] = lane[j] /\ hands'[j] = hands[j]
    BY <1>4 DEF CatchInv, CatchTypes
  <1> QED BY <1>1, <1>4, <1>5, <1>8, <1>9, <1>10, <1>11, <1>13, <1>14, <1>15, CatchWriteKeeps

LEMMA CatchBulkAssign ==
    ASSUME CatchInv, NEW m \in Moves, NEW H, BulkAssign(m, Items, H)
    PROVE  CatchInv'
PROOF
  <1>1. PICK r : r = [phase |-> "assigned", kind |-> "assign", todo |-> {}, items |-> Items,
                      snap |-> [hands |-> H], fresh |-> TRUE, current |-> TRUE, back |-> "next"]
    OBVIOUS
  <1>2. /\ move[m] = Still /\ hands' = [i \in Items |-> H] /\ Wrote(m, r, Items)
        /\ UNCHANGED <<lane, boards, blurred>>
    BY <1>1 DEF BulkAssign
  <1>3. Formed(r)
    BY <1>1 DEF Formed, AtWork
  <1>4. Snapped(move[m])'
    <2>1. move'[m] = r
      BY <1>2 DEF Wrote
    <2>2. r.snap.hands = H /\ r.phase = "assigned"
      BY <1>1
    <2> QED BY <1>1, <1>2, <2>1, <2>2 DEF Snapped
  <1>5. \A i : ~ShowsLane(move[m], i) /\ ~ShowsHands(move[m], i)
    BY <1>2 DEF ShowsLane, ShowsHands, Still, AtWork
  <1>6. \A i \in Items : ShowsHands(r, i)
    BY <1>1 DEF ShowsHands
  <1>7. DOMAIN lane' = Items /\ DOMAIN hands' = Items /\ \A i \in Items : lane'[i] = lane[i]
    BY <1>2 DEF CatchInv, CatchTypes
  <1> QED BY <1>2, <1>3, <1>4, <1>5, <1>6, <1>7, CatchWriteKeeps

LEMMA CatchKeeps == CatchInv /\ [FlowNext]_flowVars => CatchInv'
PROOF
  <1> SUFFICES ASSUME CatchInv, [FlowNext]_flowVars PROVE CatchInv'
    OBVIOUS
  <1>1. CASE UNCHANGED flowVars
    BY <1>1 DEF flowVars, CatchInv, CatchTypes, Formed, Snapped, Row, LaneShown, HandsShown,
                ShowsLane, ShowsHands, Whole
  <1>2. ASSUME NEW m \in Moves, NEW i \in Items, NEW to, NEW give, NEW force, UpdateCard(m, i, to, give, force)
        PROVE CatchInv'
    BY <1>2, CatchAccept DEF UpdateCard, Want, Kinds
  <1>3. ASSUME NEW m \in Moves, NEW to, BulkMove(m, Items, to) PROVE CatchInv'
    BY <1>3, CatchAccept DEF BulkMove, Want, Kinds
  <1>4. ASSUME NEW m \in Moves, NEW u, NEW to, AnalyzePush(m, u, to) PROVE CatchInv'
    <2>1. PICK decided \in SUBSET Items : Accept(m, "push", {Want(i, to, Keep, FALSE) : i \in decided})
      BY <1>4 DEF AnalyzePush, Candidates
    <2>2. \A w \in {Want(i, to, Keep, FALSE) : i \in decided} : w.item \in Items
      BY DEF Want
    <2> QED BY <2>1, <2>2, CatchAccept DEF Kinds
  <1>5. ASSUME NEW l, NEW mode, SetGate(l, mode) PROVE CatchInv'
    BY <1>5, FactsKeep DEF SetGate
  <1>6. ASSUME NEW i, ChangeFacts(i) PROVE CatchInv'
    BY <1>6, FactsKeep DEF ChangeFacts
  <1> QED BY <1>1, <1>2, <1>3, <1>4, <1>5, <1>6, CatchBulkAssign, CatchSystemMove, CatchUpdateRead,
             CatchUpdateWrite, CatchShowMove, CatchReadAgain, CatchShowCard, CatchRuleAssigns,
             CatchRuleMoves, CatchSystemWrites, CatchShowAssigned, CatchQueryFails
          DEF FlowNext

----------------------------------------------------------------------------
(* Types.                                                                  *)

\* Every column a request goes to is one of the project, or none.
Wish(w) == w.to \in Lanes \cup {Stay} /\ (w.give = Keep \/ w.give \subseteq Hands)

Rows == [lane: Lanes, hands: SUBSET Hands]

Carries(q) ==
    /\ q.phase \in {"next"} \cup AtWork => \A w \in q.todo : Wish(w)
    /\ q.phase \in AtWork => Wish(q.want)
    /\ q.phase = "system" => q.want.to \in Lanes
    /\ q.phase = "moved" => q.snap.lane \in Lanes
    /\ q.phase = "show" => q.snap \in Rows
    /\ q.phase = "assigned" => q.snap.hands \subseteq Hands

CardsTyped ==
    /\ lane \in [Items -> Lanes]
    /\ hands \in [Items -> SUBSET Hands]
    /\ boards \in [Items -> Rows]

RulesTyped ==
    /\ ready \in [Items -> BOOLEAN]
    /\ gate \in [Lanes -> {"OFF", "WARN", "ENFORCE"}]
    /\ \A x \in rules : x.action = "move" => x.to \in Lanes
    /\ made \in 0 .. MaxMade
    /\ blurred \subseteq Items

LanesInv == CardsTyped /\ RulesTyped /\ \A m \in Moves : Carries(move[m])

LEMMA LanesStart == FlowInit => LanesInv
PROOF
  <1> SUFFICES ASSUME FlowInit PROVE LanesInv
    OBVIOUS
  <1>1. lane \in [Items -> Lanes] /\ hands \in [Items -> SUBSET Hands]
    BY FlowAssumption DEF FlowAssumption, FlowInit
  <1>2. CardsTyped
    BY <1>1 DEF FlowInit, CardsTyped, Row, Rows
  <1>3. RulesTyped
    BY FlowAssumption DEF FlowAssumption, FlowInit, RulesTyped
  <1>4. \A m \in Moves : Carries(move[m])
    BY DEF FlowInit, Still, Carries, AtWork
  <1> QED BY <1>2, <1>3, <1>4 DEF LanesInv

LEMMA LanesType == CatchInv /\ LanesInv => FlowTypeOK
PROOF
  <1>1. CatchInv => \A m \in Moves : move[m].phase \in Phases
    BY DEF CatchInv, CatchTypes, Formed, AtWork, Phases
  <1> QED BY <1>1 DEF LanesInv, CardsTyped, RulesTyped, Rows, FlowTypeOK

\* Keeping the requests to their types is all there is to a step.
LEMMA OneCarries ==
    ASSUME LanesInv, CatchInv, NEW m \in Moves, NEW r, move' = [move EXCEPT ![m] = r],
           Carries(r), CardsTyped', RulesTyped'
    PROVE  LanesInv'
PROOF
  <1>1. \A n \in Moves : Carries(move'[n])
    BY DEF LanesInv, CatchInv, CatchTypes
  <1> QED BY <1>1 DEF LanesInv, Carries

LEMMA DatedCarries ==
    ASSUME NEW q, Formed(q), Carries(q)
    PROVE  Carries(Dated(q))
PROOF
  <1>1. PICK r : r = Dated(q)
    OBVIOUS
  <1>2. r = q \/ (r.phase = q.phase /\ r.todo = q.todo /\ r.want = q.want /\ q.phase \in {"write", "system"})
    BY <1>1 DEF Dated, Formed, AtWork, WorkFields
  <1> QED BY <1>1, <1>2 DEF Carries, AtWork

LEMMA WroteCarries ==
    ASSUME LanesInv, CatchInv, NEW m \in Moves, NEW r, NEW I, Wrote(m, r, I),
           Carries(r), CardsTyped', RulesTyped'
    PROVE  LanesInv'
PROOF
  <1>1. ASSUME NEW n \in Moves PROVE Carries(move'[n])
    <2>0. Formed(move[n]) /\ Carries(move[n])
      BY DEF LanesInv, CatchInv, CatchTypes
    <2>1. CASE n = m
      BY <2>1 DEF Wrote
    <2>2. CASE n # m /\ move[n].phase \in {"moved", "show", "assigned"}
      <3>1. PICK q, s : q = move[n] /\ s = [q EXCEPT !.current = @ /\ q.items \cap I = {}]
        OBVIOUS
      <3>2. move'[n] = s
        BY <2>2, <3>1 DEF Wrote
      <3>3. s.phase = q.phase /\ s.snap = q.snap
        BY <3>1
      <3>4. q.phase # "assigned" => s.todo = q.todo /\ s.want = q.want
        BY <2>2, <2>0, <3>1 DEF Formed, AtWork, WorkFields
      <3> QED BY <2>0, <2>2, <3>1, <3>2, <3>3, <3>4 DEF Carries, AtWork
    <2>3. CASE n # m /\ move[n].phase \notin {"moved", "show", "assigned"}
      <3>1. move'[n] = Dated(move[n])
        BY <2>3 DEF Wrote
      <3> QED BY <2>0, <3>1, DatedCarries
    <2> QED BY <2>1, <2>2, <2>3
  <1> QED BY <1>1 DEF LanesInv, Carries

LEMMA FactsCarry ==
    ASSUME LanesInv, CatchInv, move' = [m \in Moves |-> Dated(move[m])], CardsTyped', RulesTyped'
    PROVE  LanesInv'
PROOF
  <1>1. ASSUME NEW n \in Moves PROVE Carries(move'[n])
    BY DatedCarries DEF LanesInv, CatchInv, CatchTypes
  <1> QED BY <1>1 DEF LanesInv, Carries

\* A request has the form it had, on the way to the next card or among the rules.
LEMMA GoesOn ==
    ASSUME NEW q, Formed(q), Carries(q), q.phase \in {"next"} \cup AtWork
    PROVE  /\ Carries(Still) /\ Carries(Onward(q))
           /\ q.phase \in AtWork => Carries(InRules(q))
PROOF
  <1>1. Carries(Still) /\ Carries(Onward(q))
    BY DEF Carries, Still, Onward, AtWork
  <1>2. ASSUME q.phase \in AtWork PROVE Carries(InRules(q))
    <2>1. PICK r : r = InRules(q)
      OBVIOUS
    <2>2. /\ r.phase = "rules" /\ r.todo = q.todo /\ r.want.to = Stay /\ r.want.give = Keep
      BY <1>2, <2>1 DEF InRules, Formed, WorkFields, Want
    <2> QED BY <1>2, <2>1, <2>2 DEF Carries, Wish, AtWork
  <1> QED BY <1>1, <1>2

LEMMA AcceptCarries ==
    ASSUME LanesInv, CatchInv, NEW m \in Moves, NEW kind, NEW wants, Accept(m, kind, wants),
           \A w \in wants : Wish(w)
    PROVE  LanesInv'
PROOF
  <1>1. PICK r : r = [phase |-> "next", kind |-> kind, todo |-> wants, fresh |-> TRUE]
    OBVIOUS
  <1>2. move' = [move EXCEPT ![m] = r]
    BY <1>1 DEF Accept
  <1>3. Carries(r)
    BY <1>1 DEF Carries, AtWork
  <1>4. CardsTyped' /\ RulesTyped'
    BY FlowAssumption DEF FlowAssumption, Accept, LanesInv, CardsTyped, RulesTyped
  <1> QED BY <1>2, <1>3, <1>4, OneCarries

\* Neither rows nor rules change.
LEMMA OnlyRequests ==
    ASSUME LanesInv, UNCHANGED <<lane, hands, ready, gate, rules, made>>
    PROVE  /\ boards' \in [Items -> Rows] => CardsTyped'
           /\ blurred' \subseteq Items => RulesTyped'
           /\ UNCHANGED boards => CardsTyped'
           /\ UNCHANGED blurred => RulesTyped'
PROOF
  BY DEF LanesInv, CardsTyped, RulesTyped

LEMMA CarriesUpdateRead ==
    ASSUME LanesInv, CatchInv, NEW m \in Moves, NEW w, UpdateRead(m, w) \/ UpdateRefused(m, w)
    PROVE  LanesInv'
PROOF
  <1>1. PICK q : q = move[m]
    OBVIOUS
  <1>2. Formed(q) /\ Carries(q) /\ q.phase = "next" /\ w \in q.todo
    BY <1>1 DEF LanesInv, CatchInv, CatchTypes, UpdateRead, UpdateRefused
  <1>3. Wish(w) /\ \A v \in q.todo : Wish(v)
    BY <1>2 DEF Carries
  <1>4. CASE UpdateRead(m, w)
    <2>1. PICK r : r = [phase |-> "write", kind |-> q.kind, todo |-> q.todo \ {w},
                        items |-> {w.item}, want |-> w,
                        leaving |-> w.to # Stay /\ w.to # lane[w.item], fresh |-> TRUE,
                        snap |-> Unread, current |-> TRUE, left |-> {}, back |-> "next"]
      OBVIOUS
    <2>4. move' = [move EXCEPT ![m] = r]
      BY <1>1, <1>4, <2>1 DEF UpdateRead
    <2>2. Carries(r)
      BY <1>3, <2>1 DEF Carries, AtWork
    <2>3. CardsTyped' /\ RulesTyped'
      BY <1>4, OnlyRequests DEF UpdateRead
    <2> QED BY <2>2, <2>3, <2>4, OneCarries
  <1>5. CASE UpdateRefused(m, w)
    <2>1. PICK p : p = [q EXCEPT !.todo = @ \ {w}]
      OBVIOUS
    <2>2. p.phase = "next" /\ p.todo = q.todo \ {w} /\ DOMAIN p = DOMAIN q /\ p.kind = q.kind
      BY <1>2, <2>1 DEF Formed
    <2>3. Formed(p) /\ Carries(p)
      BY <1>2, <1>3, <2>2 DEF Formed, Carries, AtWork
    <2>4. PICK r : move' = [move EXCEPT ![m] = r] /\ r \in {Onward(p), Still}
      BY <1>1, <1>5, <2>1 DEF UpdateRefused, CatchInv, CatchTypes
    <2>5. Carries(r)
      BY <2>2, <2>3, <2>4, GoesOn
    <2>6. CardsTyped' /\ RulesTyped'
      BY <1>5, OnlyRequests DEF UpdateRefused
    <2> QED BY <2>4, <2>5, <2>6, OneCarries
  <1> QED BY <1>4, <1>5

LEMMA CarriesUpdateWrite ==
    ASSUME LanesInv, CatchInv, NEW m \in Moves, UpdateWrite(m)
    PROVE  LanesInv'
PROOF
  <1>1. PICK q, w, i : q = move[m] /\ w = q.want /\ i = w.item
    OBVIOUS
  <1>2. /\ Formed(q) /\ Carries(q) /\ q.phase = "write" /\ q.phase \in AtWork
    BY <1>1 DEF LanesInv, CatchInv, CatchTypes, UpdateWrite, AtWork
  <1>3. Wish(w) /\ i \in Items /\ DOMAIN q = WorkFields /\ \A v \in q.todo : Wish(v)
    BY <1>1, <1>2 DEF Carries, Formed
  <1>4. PICK row : row = [lane |-> IF w.to = Stay THEN lane[i] ELSE w.to,
                          hands |-> IF w.give = Keep THEN hands[i] ELSE w.give]
    OBVIOUS
  <1>5. row \in Rows
    BY <1>3, <1>4 DEF Wish, Rows, LanesInv, CardsTyped
  <1>6. PICK r : r = [q EXCEPT !.phase = IF q.leaving THEN "moved" ELSE "show",
                               !.want = Want(i, Stay, Keep, FALSE),
                               !.fresh = TRUE, !.leaving = FALSE, !.snap = row]
    OBVIOUS
  <1>7. /\ lane' = [lane EXCEPT ![i] = row.lane] /\ hands' = [hands EXCEPT ![i] = row.hands]
        /\ Wrote(m, r, {i})
    BY <1>1, <1>4, <1>6 DEF UpdateWrite
  <1>8. /\ r.phase \in {"moved", "show"} /\ r.todo = q.todo /\ r.snap = row
        /\ r.want.to = Stay /\ r.want.give = Keep
    BY <1>3, <1>6 DEF WorkFields, Want
  <1>9. Carries(r)
    BY <1>3, <1>5, <1>8 DEF Carries, AtWork, Wish, Rows
  <1>10. CardsTyped' /\ RulesTyped'
    BY <1>3, <1>5, <1>7 DEF UpdateWrite, LanesInv, CardsTyped, RulesTyped, Rows
  <1> QED BY <1>7, <1>9, <1>10, WroteCarries

LEMMA CarriesShowMove ==
    ASSUME LanesInv, CatchInv, NEW m \in Moves, ShowMove(m)
    PROVE  LanesInv'
PROOF
  <1>1. PICK q : q = move[m]
    OBVIOUS
  <1>2. Formed(q) /\ Carries(q) /\ q.phase = "moved" /\ q.phase \in AtWork
    BY <1>1 DEF LanesInv, CatchInv, CatchTypes, ShowMove, AtWork
  <1>3. PICK p, L : p = InRules(q) /\ L = [p EXCEPT !.left = {x \in rules : x.lane = q.snap.lane}]
    OBVIOUS
  <1>4. Carries(p) /\ Formed(q)
    BY <1>2, <1>3, GoesOn
  <1>5. p.phase = "rules" /\ DOMAIN p = WorkFields
    BY <1>2, <1>3 DEF InRules, Formed, WorkFields
  <1>6. L.phase = "rules" /\ L.todo = p.todo /\ L.want = p.want
    BY <1>3, <1>5 DEF WorkFields
  <1>7. Carries(L)
    BY <1>4, <1>5, <1>6 DEF Carries, AtWork
  <1>8. PICK r : move' = [move EXCEPT ![m] = r] /\ r \in {Still, p, L}
    BY <1>1, <1>3 DEF ShowMove
  <1>9. Carries(r)
    BY <1>2, <1>4, <1>7, <1>8, GoesOn
  <1>10. q.snap.lane \in Lanes /\ q.items \subseteq Items /\ q.want.item \in Items
    BY <1>2 DEF Carries, Formed
  <1>11. boards' \in [Items -> Rows]
    <2>1. boards' = [boards EXCEPT ![q.want.item].lane = q.snap.lane]
      BY <1>1 DEF ShowMove
    <2> QED BY <1>10, <2>1 DEF LanesInv, CardsTyped, Rows
  <1>12. blurred' \subseteq Items
    BY <1>1, <1>10 DEF ShowMove, Blur, LanesInv, RulesTyped
  <1> QED BY <1>8, <1>9, <1>11, <1>12, OnlyRequests, OneCarries DEF ShowMove

LEMMA CarriesReadAgain ==
    ASSUME LanesInv, CatchInv, NEW m \in Moves, ReadAgain(m)
    PROVE  LanesInv'
PROOF
  <1>1. PICK q : q = move[m]
    OBVIOUS
  <1>2. Formed(q) /\ Carries(q) /\ q.phase \in {"read", "rules"} /\ q.phase \in AtWork
    BY <1>1 DEF LanesInv, CatchInv, CatchTypes, ReadAgain, AtWork
  <1>3. PICK r : r = [q EXCEPT !.phase = "show", !.snap = Reread(m), !.current = TRUE]
    OBVIOUS
  <1>4. move' = [move EXCEPT ![m] = r]
    BY <1>1, <1>3 DEF ReadAgain, CatchInv, CatchTypes
  <1>5. r.phase = "show" /\ r.todo = q.todo /\ r.want = q.want /\ r.snap = Row(q.want.item)
    BY <1>1, <1>2, <1>3 DEF Formed, WorkFields, Reread
  <1>6. q.want.item \in Items
    BY <1>2 DEF Formed
  <1>7. Row(q.want.item) \in Rows
    BY <1>6 DEF LanesInv, CardsTyped, Row, Rows
  <1>8. Carries(r)
    BY <1>2, <1>5, <1>7 DEF Carries, AtWork
  <1> QED BY <1>4, <1>8, OnlyRequests, OneCarries DEF ReadAgain

LEMMA CarriesShowCard ==
    ASSUME LanesInv, CatchInv, NEW m \in Moves, ShowCard(m)
    PROVE  LanesInv'
PROOF
  <1>1. PICK q : q = move[m]
    OBVIOUS
  <1>2. Formed(q) /\ Carries(q) /\ q.phase = "show" /\ q.phase \in AtWork
    BY <1>1 DEF LanesInv, CatchInv, CatchTypes, ShowCard, AtWork
  <1>3. PICK r : move' = [move EXCEPT ![m] = r] /\ r \in {Onward(q), InRules(q)}
    BY <1>1 DEF ShowCard
  <1>4. Carries(r)
    BY <1>2, <1>3, GoesOn
  <1>5. q.snap \in Rows /\ q.items \subseteq Items /\ q.want.item \in Items
    BY <1>2 DEF Carries, Formed
  <1>6. boards' \in [Items -> Rows]
    BY <1>1, <1>5 DEF ShowCard, LanesInv, CardsTyped
  <1>7. blurred' \subseteq Items
    BY <1>1, <1>5 DEF ShowCard, Blur, LanesInv, RulesTyped
  <1> QED BY <1>3, <1>4, <1>6, <1>7, OnlyRequests, OneCarries DEF ShowCard

LEMMA CarriesQueryFails ==
    ASSUME LanesInv, CatchInv, NEW m \in Moves, QueryFails(m)
    PROVE  LanesInv'
PROOF
  <1>1. PICK q : q = move[m]
    OBVIOUS
  <1>2. Formed(q) /\ Carries(q) /\ q # Still /\ q.phase \notin {"next", "write"}
    BY <1>1 DEF LanesInv, CatchInv, CatchTypes, QueryFails
  <1>3. q.phase \in AtWork \/ q.phase = "assigned"
    BY <1>2 DEF Formed
  <1>4. PICK r : /\ move' = [move EXCEPT ![m] = r]
                 /\ r = IF q.back = "rules" THEN InRules(q)
                        ELSE IF q.kind = "bulk" THEN Onward(q) ELSE Still
    BY <1>1 DEF QueryFails
  <1>5. Carries(r)
    <2>1. CASE q.phase \in AtWork
      BY <1>2, <1>4, <2>1, GoesOn
    <2>2. CASE q.phase = "assigned"
      <3>1. r = Still
        BY <1>2, <1>4, <2>2 DEF Formed
      <3> QED BY <3>1 DEF Carries, Still, AtWork
    <2> QED BY <1>3, <2>1, <2>2
  <1>6. q.items \subseteq Items
    BY <1>2, <1>3 DEF Formed
  <1>7. blurred' \subseteq Items
    BY <1>1, <1>6 DEF QueryFails, LanesInv, RulesTyped
  <1> QED BY <1>4, <1>5, <1>7, OnlyRequests, OneCarries DEF QueryFails

LEMMA CarriesShowAssigned ==
    ASSUME LanesInv, CatchInv, NEW m \in Moves, ShowAssigned(m)
    PROVE  LanesInv'
PROOF
  <1>1. PICK q : q = move[m]
    OBVIOUS
  <1>2. Formed(q) /\ Carries(q) /\ q.phase = "assigned"
    BY <1>1 DEF LanesInv, CatchInv, CatchTypes, ShowAssigned
  <1>3. q.snap.hands \subseteq Hands /\ q.items \subseteq Items
    BY <1>2 DEF Carries, Formed
  <1>4. boards' \in [Items -> Rows]
    <2>1. ASSUME NEW i \in Items
          PROVE  boards[i] \in Rows /\ [boards[i] EXCEPT !.hands = q.snap.hands] \in Rows
      BY <1>3 DEF LanesInv, CardsTyped, Rows
    <2> QED BY <1>1, <2>1 DEF ShowAssigned
  <1>5. blurred' \subseteq Items
    BY <1>1, <1>3 DEF ShowAssigned, Blur, LanesInv, RulesTyped
  <1>6. Carries(Still)
    BY DEF Carries, Still, AtWork
  <1> QED BY <1>4, <1>5, <1>6, OnlyRequests, OneCarries DEF ShowAssigned

LEMMA CarriesRuleAssigns ==
    ASSUME LanesInv, CatchInv, NEW m \in Moves, NEW x, RuleAssigns(m, x)
    PROVE  LanesInv'
PROOF
  <1>1. PICK q, i, p : q = move[m] /\ i = q.want.item /\ p = [q EXCEPT !.left = @ \ {x}]
    OBVIOUS
  <1>2. Formed(q) /\ Carries(q) /\ q.phase = "rules" /\ q.phase \in AtWork
    BY <1>1 DEF LanesInv, CatchInv, CatchTypes, RuleAssigns, Rule, AtWork
  <1>3. i \in Items /\ DOMAIN q = WorkFields
    BY <1>1, <1>2 DEF Formed
  <1>4. /\ DOMAIN p = WorkFields /\ p.phase = "rules" /\ p.todo = q.todo /\ p.want = q.want
    BY <1>1, <1>2, <1>3 DEF WorkFields
  <1>5. Carries(p)
    BY <1>2, <1>4 DEF Carries, AtWork
  <1>6. CASE Helper \in hands[i]
    <2>1. move' = [move EXCEPT ![m] = p] /\ UNCHANGED hands
      BY <1>1, <1>6 DEF RuleAssigns
    <2> QED BY <1>5, <2>1, OnlyRequests, OneCarries DEF RuleAssigns
  <1>7. CASE Helper \notin hands[i]
    <2>1. PICK r : r = [p EXCEPT !.phase = "read", !.back = "rules"]
      OBVIOUS
    <2>2. hands' = [hands EXCEPT ![i] = @ \cup {Helper}] /\ Wrote(m, r, {i})
      BY <1>1, <1>7, <2>1 DEF RuleAssigns
    <2>3. r.phase = "read" /\ r.todo = q.todo /\ r.want = q.want
      BY <1>4, <2>1 DEF WorkFields
    <2>4. Carries(r)
      BY <1>2, <2>3 DEF Carries, AtWork
    <2>5. CardsTyped'
      BY <1>3, <2>2, FlowAssumption DEF FlowAssumption, RuleAssigns, LanesInv, CardsTyped
    <2>6. RulesTyped'
      BY DEF RuleAssigns, LanesInv, RulesTyped
    <2> QED BY <2>2, <2>4, <2>5, <2>6, WroteCarries
  <1> QED BY <1>6, <1>7

LEMMA CarriesRuleMoves ==
    ASSUME LanesInv, CatchInv, NEW m \in Moves, NEW x \in rules, RuleMoves(m, x)
    PROVE  LanesInv'
PROOF
  <1>1. PICK q, i, p : q = move[m] /\ i = q.want.item /\ p = [q EXCEPT !.left = @ \ {x}]
    OBVIOUS
  <1>2. Formed(q) /\ Carries(q) /\ q.phase = "rules" /\ q.phase \in AtWork
    BY <1>1 DEF LanesInv, CatchInv, CatchTypes, RuleMoves, Rule, AtWork
  <1>3. DOMAIN q = WorkFields
    BY <1>2 DEF Formed
  <1>4. /\ DOMAIN p = WorkFields /\ p.phase = "rules" /\ p.todo = q.todo /\ p.want = q.want
    BY <1>1, <1>2, <1>3 DEF WorkFields
  <1>5. Carries(p)
    BY <1>2, <1>4 DEF Carries, AtWork
  <1>6. PICK s : s = [p EXCEPT !.phase = "system", !.back = "rules", !.fresh = TRUE,
                               !.want = Want(i, x.to, Keep, FALSE)]
    OBVIOUS
  <1>7. s.phase = "system" /\ s.todo = q.todo /\ s.want.to = x.to /\ s.want.give = Keep
    BY <1>4, <1>6 DEF WorkFields, Want
  <1>8. x.to \in Lanes
    BY DEF RuleMoves, LanesInv, RulesTyped
  <1>9. Carries(s)
    BY <1>2, <1>7, <1>8 DEF Carries, AtWork, Wish
  <1>10. PICK r : move' = [move EXCEPT ![m] = r] /\ r \in {s, p}
    <2>1. move' = [move EXCEPT ![m] = IF SystemMay(i, x.to) THEN s ELSE p]
      BY <1>1, <1>6 DEF RuleMoves
    <2> QED BY <2>1
  <1>11. Carries(r)
    BY <1>5, <1>9, <1>10
  <1> QED BY <1>10, <1>11, OnlyRequests, OneCarries DEF RuleMoves

LEMMA CarriesSystemMove ==
    ASSUME LanesInv, CatchInv, NEW m \in Moves, NEW i \in Items, NEW to \in Lanes, SystemMove(m, i, to)
    PROVE  LanesInv'
PROOF
  <1>1. PICK r : r = [phase |-> "system", kind |-> "system", todo |-> {}, items |-> {i},
                      want |-> Want(i, to, Keep, FALSE), leaving |-> TRUE, fresh |-> TRUE,
                      snap |-> Unread, current |-> TRUE, left |-> {}, back |-> "next"]
    OBVIOUS
  <1>2. move' = [move EXCEPT ![m] = r]
    BY <1>1 DEF SystemMove
  <1>3. r.phase = "system" /\ r.todo = {} /\ r.want.to = to /\ r.want.give = Keep
    BY <1>1 DEF Want
  <1>4. Carries(r)
    BY <1>3 DEF Carries, AtWork, Wish
  <1>5. CardsTyped' /\ RulesTyped'
    BY FlowAssumption DEF FlowAssumption, SystemMove, LanesInv, CardsTyped, RulesTyped
  <1> QED BY <1>2, <1>4, <1>5, OneCarries

LEMMA CarriesSystemWrites ==
    ASSUME LanesInv, CatchInv, NEW m \in Moves, SystemWrites(m)
    PROVE  LanesInv'
PROOF
  <1>1. PICK q, w, i : q = move[m] /\ w = q.want /\ i = w.item
    OBVIOUS
  <1>2. Formed(q) /\ Carries(q) /\ q.phase = "system" /\ q.phase \in AtWork
    BY <1>1 DEF LanesInv, CatchInv, CatchTypes, SystemWrites, AtWork
  <1>3. Wish(w) /\ w.to \in Lanes /\ i \in Items /\ DOMAIN q = WorkFields
    BY <1>1, <1>2 DEF Carries, Formed
  <1>4. PICK r : r = [q EXCEPT !.phase = "moved", !.snap = [lane |-> w.to],
                               !.current = TRUE, !.fresh = TRUE]
    OBVIOUS
  <1>5. lane' = [lane EXCEPT ![i] = w.to] /\ Wrote(m, r, {i})
    BY <1>1, <1>4 DEF SystemWrites
  <1>6. r.phase = "moved" /\ r.todo = q.todo /\ r.want = w /\ r.snap.lane = w.to
    BY <1>1, <1>3, <1>4 DEF WorkFields
  <1>7. Carries(r)
    BY <1>1, <1>2, <1>3, <1>6 DEF Carries, AtWork
  <1>8. CardsTyped'
    BY <1>3, <1>5 DEF SystemWrites, LanesInv, CardsTyped
  <1>9. RulesTyped'
    BY DEF SystemWrites, LanesInv, RulesTyped
  <1> QED BY <1>5, <1>7, <1>8, <1>9, WroteCarries

LEMMA CarriesBulkAssign ==
    ASSUME LanesInv, CatchInv, NEW m \in Moves, NEW H \in SUBSET Hands, BulkAssign(m, Items, H)
    PROVE  LanesInv'
PROOF
  <1>1. PICK r : r = [phase |-> "assigned", kind |-> "assign", todo |-> {}, items |-> Items,
                      snap |-> [hands |-> H], fresh |-> TRUE, current |-> TRUE, back |-> "next"]
    OBVIOUS
  <1>2. hands' = [i \in Items |-> H] /\ Wrote(m, r, Items)
    BY <1>1 DEF BulkAssign
  <1>3. Carries(r)
    BY <1>1 DEF Carries, AtWork
  <1>4. CardsTyped' /\ RulesTyped'
    BY <1>2, FlowAssumption DEF FlowAssumption, BulkAssign, LanesInv, CardsTyped, RulesTyped
  <1> QED BY <1>2, <1>3, <1>4, WroteCarries

LEMMA LanesKeep == LanesInv /\ CatchInv /\ [FlowNext]_flowVars => LanesInv'
PROOF
  <1> SUFFICES ASSUME LanesInv, CatchInv, [FlowNext]_flowVars PROVE LanesInv'
    OBVIOUS
  <1>1. CASE UNCHANGED flowVars
    BY <1>1 DEF flowVars, LanesInv, CardsTyped, RulesTyped, Carries
  <1>2. ASSUME NEW m \in Moves, NEW i \in Items, NEW to \in Lanes \cup {Stay}, NEW give, NEW force,
               give = Keep \/ give \subseteq Hands, UpdateCard(m, i, to, give, force)
        PROVE LanesInv'
    BY <1>2, AcceptCarries DEF UpdateCard, Want, Wish
  <1>3. ASSUME NEW m \in Moves, NEW to \in Lanes, BulkMove(m, Items, to) PROVE LanesInv'
    BY <1>3, AcceptCarries DEF BulkMove, Want, Wish
  <1>4. ASSUME NEW m \in Moves, NEW u, NEW to \in Lanes, AnalyzePush(m, u, to) PROVE LanesInv'
    <2>1. PICK decided : Accept(m, "push", {Want(i, to, Keep, FALSE) : i \in decided})
      BY <1>4 DEF AnalyzePush
    <2>2. \A w \in {Want(i, to, Keep, FALSE) : i \in decided} : Wish(w)
      BY DEF Want, Wish
    <2> QED BY <2>1, <2>2, AcceptCarries
  <1>5. ASSUME NEW l \in Lanes, NEW mode \in {"OFF", "WARN", "ENFORCE"}, SetGate(l, mode) PROVE LanesInv'
    <2>1. CardsTyped' /\ RulesTyped'
      BY <1>5, FlowAssumption DEF FlowAssumption, SetGate, LanesInv, CardsTyped, RulesTyped
    <2> QED BY <1>5, <2>1, FactsCarry DEF SetGate
  <1>6. ASSUME NEW i \in Items, ChangeFacts(i) PROVE LanesInv'
    <2>1. CardsTyped' /\ RulesTyped'
      BY <1>6, FlowAssumption DEF FlowAssumption, ChangeFacts, LanesInv, CardsTyped, RulesTyped
    <2> QED BY <1>6, <2>1, FactsCarry DEF ChangeFacts
  <1> QED BY <1>1, <1>2, <1>3, <1>4, <1>5, <1>6, CarriesBulkAssign, CarriesSystemMove, CarriesUpdateRead,
             CarriesUpdateWrite, CarriesShowMove, CarriesReadAgain, CarriesShowCard, CarriesRuleAssigns,
             CarriesRuleMoves, CarriesSystemWrites, CarriesShowAssigned, CarriesQueryFails
          DEF FlowNext
=============================================================================
