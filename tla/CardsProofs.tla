---------------------------- MODULE CardsProofs ----------------------------
(***************************************************************************)
(* Proofs about Cards, for every set of projects, columns, labels, cards   *)
(* and requests.  Each invariant is strengthened by what a request in      *)
(* flight is known to carry, and every lemma that says a step preserves it *)
(* has one step per action of Next.                                        *)
(***************************************************************************)
EXTENDS Cards, FiniteSetTheorems, TLAPS

\* The operations that ask for a card number.
Numbering == {"create", "copy", "relocate"}

\* What a request carries in each of its phases.
Shape ==
    \A r \in Requests :
        /\ reqs[r].phase \in {"rules", "place", "system", "untag", "retag"} =>
             reqs[r].card \in CardIds
        /\ reqs[r].phase \in {"allocate", "write"} /\ reqs[r].op # "create" =>
             reqs[r].card \in CardIds
        /\ reqs[r].phase \in {"untag", "retag"} => reqs[r].op = "relocate"
        /\ reqs[r].phase = "allocate" => reqs[r].op \in Numbering
        /\ reqs[r].phase \in {"untag", "retag", "allocate", "write"}
           /\ reqs[r].op \in Numbering =>
             reqs[r].to \in Columns /\ reqs[r].project = ColumnProject[reqs[r].to]

----------------------------------------------------------------------------
(* Types.                                                                  *)

\* A change of phase leaves a request well-formed.
LEMMA GotoType ==
  ASSUME TypeOK, NEW r \in Requests, NEW ph \in Phases, Goto(r, ph)
  PROVE  reqs' \in [Requests -> Request]
<1>1. [reqs[r] EXCEPT !.phase = ph] \in Request
  BY DEF TypeOK, Request
<1> QED
  BY <1>1 DEF TypeOK, Goto

\* So does the end of one.
LEMMA EndType ==
  ASSUME TypeOK, NEW r \in Requests, End(r)
  PROVE  reqs' \in [Requests -> Request]
<1>1. Idle \in Request
  BY DEF Request, Idle, Phases, Ops
<1> QED
  BY <1>1 DEF TypeOK, End

\* So does the choice of a column by a rule.
LEMMA PlaceType ==
  ASSUME TypeOK, NEW r \in Requests, NEW to \in Columns,
         reqs' = [reqs EXCEPT ![r].phase = "place", ![r].to = to]
  PROVE  reqs' \in [Requests -> Request]
<1>0. reqs[r] \in Request
  BY DEF TypeOK
<1>1. [[reqs[r] EXCEPT !.phase = "place"] EXCEPT !.to = to] \in Request
  BY <1>0 DEF Request, Phases
<1> QED
  BY <1>1 DEF TypeOK

\* Every step keeps TypeOK, given what the requests carry.
LEMMA TypeStep == TypeOK /\ Shape /\ [Next]_vars => TypeOK'
<1> SUFFICES ASSUME TypeOK, Shape, [Next]_vars PROVE TypeOK'
  OBVIOUS
<1> USE CardsAssumption
<1>1. ASSUME NEW r \in Requests,
           AllocateNumber(r)
      PROVE  TypeOK'
  BY <1>1 DEF AllocateNumber, TypeOK, Exists, Shape, Numbering, Relabelled,
     Free, Request, Phases
<1>2. ASSUME NEW r \in Requests,
           MoveWrite(r)
      PROVE  TypeOK'
  <2>1. reqs' \in [Requests -> Request]
    BY <1>2, GotoType, EndType DEF MoveWrite, Phases
  <2>2. reqs[r].card \in CardIds /\ reqs[r].to \in columns /\ columns' = columns
    BY <1>2 DEF MoveWrite, Shape
  <2> QED
    BY <1>2, <2>1, <2>2 DEF MoveWrite, TypeOK, Exists
<1>3. ASSUME NEW r \in Requests,
           SystemCheck(r)
      PROVE  TypeOK'
  <2>1. reqs' \in [Requests -> Request]
    BY <1>3, GotoType DEF SystemCheck, Phases
  <2> QED
    BY <1>3, <2>1 DEF SystemCheck, TypeOK, Exists
<1>4. ASSUME NEW r \in Requests,
           SystemWrite(r)
      PROVE  TypeOK'
  <2>1. reqs' \in [Requests -> Request]
    BY <1>4, GotoType, EndType DEF SystemWrite, Phases
  <2>2. reqs[r].card \in CardIds /\ reqs[r].to \in columns /\ columns' = columns
    BY <1>4 DEF SystemWrite, Shape
  <2> QED
    BY <1>4, <2>1, <2>2 DEF SystemWrite, TypeOK, Exists
<1>5. ASSUME NEW r \in Requests,
           RelocateUntag(r)
      PROVE  TypeOK'
  BY <1>5 DEF RelocateUntag, TypeOK, Exists, Shape, Numbering, Relabelled,
     Free, Request, Phases, Ops, At, Goto
<1>6. ASSUME NEW r \in Requests,
           RelocateRetag(r)
      PROVE  TypeOK'
  BY <1>6 DEF RelocateRetag, TypeOK, Exists, Shape, Numbering, Relabelled,
     Free, Request, Phases, At, Goto
<1>7. ASSUME NEW r \in Requests,
           RelocateWrite(r)
      PROVE  TypeOK'
  BY <1>7 DEF RelocateWrite, TypeOK, Exists, Shape, Numbering, Relabelled,
     Free, Request, Phases, Ops, Idle, At, End, Key
<1>8. ASSUME NEW r \in Requests,
           AttachWrite(r)
      PROVE  TypeOK'
  BY <1>8 DEF AttachWrite, TypeOK, Exists, Shape, Numbering, Relabelled, Free,
     Request, Phases, Ops, Idle, At, End
<1>9. ASSUME NEW r \in Requests,
           DeleteWrite(r)
      PROVE  TypeOK'
  BY <1>9 DEF DeleteWrite, TypeOK, Exists, Shape, Numbering, Relabelled, Free,
     Request, Phases, Ops, Idle, Remove, End
<1>10. ASSUME NEW r \in Requests,
           Stop(r)
      PROVE  TypeOK'
  BY <1>10 DEF Stop, TypeOK, Exists, Shape, Numbering, Relabelled, Free,
     Request, Phases, Ops, Idle, End
<1>11. ASSUME NEW r \in Requests, NEW to \in Columns,
           CreateCheck(r, to)
      PROVE  TypeOK'
  <2>1. reqs' \in [Requests -> Request]
    BY <1>11 DEF CreateCheck, TypeOK, Request, Phases, Ops, Idle
  <2> QED
    BY <1>11, <2>1 DEF CreateCheck, TypeOK, Exists, Count
<1>12. ASSUME NEW r \in Requests, NEW to \in Columns,
           RuleMove(r, to)
      PROVE  TypeOK'
  <2>1. reqs' \in [Requests -> Request]
    BY <1>12, PlaceType DEF RuleMove
  <2> QED
    BY <1>12, <2>1 DEF RuleMove, TypeOK, Exists
<1>13. ASSUME NEW r \in Requests, NEW l \in Labels,
           RuleLabel(r, l)
      PROVE  TypeOK'
  BY <1>13 DEF RuleLabel, TypeOK, Exists, Shape, Numbering, Relabelled, Free,
     Request, Phases
<1>14. ASSUME NEW r \in Requests, NEW c \in CardIds,
           CreateWrite(r, c)
      PROVE  TypeOK'
  <2>1. reqs[r] \in Request /\ reqs[r].to \in columns /\ c \in CardIds
        /\ reqs[r].op \in Numbering /\ reqs[r].phase = "write"
    BY <1>14 DEF CreateWrite, TypeOK, Numbering
  <2>2. reqs[r].project \in Projects
    BY <2>1, CardsAssumption DEF Shape, CardsAssumption
  <2>3. Key(reqs[r].project, reqs[r].number, c) \in [project: Projects, number: Nat, card: CardIds]
    BY <2>1, <2>2 DEF Key, Request
  <2>4. reqs' \in [Requests -> Request]
    <3>1. CASE reqs[r].op = "create"
      <4>1. [reqs[r] EXCEPT !.phase = "rules", !.card = c, !.number = 0] \in Request
        BY <2>1 DEF Request, Phases
      <4>2. reqs' = [reqs EXCEPT ![r] = [reqs[r] EXCEPT !.phase = "rules", !.card = c, !.number = 0]]
        BY <1>14, <3>1 DEF CreateWrite
      <4> QED BY <4>1, <4>2 DEF TypeOK
    <3>2. CASE reqs[r].op # "create"
      BY <1>14, <3>2, EndType DEF CreateWrite
    <3> QED BY <3>1, <3>2
  <2>5. reqs[r].number \in Nat /\ reqs[r].labels \subseteq Labels
    BY <2>1 DEF Request
  <2>6. held' \subseteq [project: Projects, number: Nat, card: CardIds]
    BY <1>14, <2>3 DEF CreateWrite, TypeOK
  <2>7. /\ col' \in [CardIds -> columns' \cup {None}]
        /\ num' \in [CardIds -> Nat]
        /\ tags' \in [CardIds -> SUBSET Labels]
    BY <1>14, <2>1, <2>5 DEF CreateWrite, TypeOK
  <2>8. crossed' \subseteq CardIds /\ torn' \subseteq CardIds
    BY <1>14, <2>1 DEF CreateWrite, TypeOK
  <2>9. \A d \in CardIds : ~Exists(d)' => d # c /\ ~Exists(d) /\ num'[d] = num[d] /\ tags'[d] = tags[d]
    <3>1. reqs[r].to # None
      BY <2>1, CardsAssumption DEF TypeOK, CardsAssumption
    <3> QED
      BY <1>14, <3>1 DEF CreateWrite, TypeOK, Exists
  <2>10. \A d \in CardIds : ~Exists(d)' => num'[d] = 0 /\ tags'[d] = {}
    BY <2>9 DEF TypeOK
  <2> QED
    BY <1>14, <2>4, <2>6, <2>7, <2>8, <2>10 DEF CreateWrite, TypeOK
<1>15. ASSUME NEW r \in Requests, NEW c \in CardIds, NEW to \in Columns,
           CopyRead(r, c, to)
      PROVE  TypeOK'
  BY <1>15 DEF CopyRead, TypeOK, Exists, Shape, Numbering, Relabelled, Free,
     Request, Phases, Ops, Begin, Count, Matching
<1>16. ASSUME NEW r \in Requests, NEW c \in CardIds, NEW to \in Columns,
           UpdateRead(r, c, to)
      PROVE  TypeOK'
  BY <1>16 DEF UpdateRead, TypeOK, Exists, Shape, Numbering, Relabelled, Free,
     Request, Phases, Ops, Begin, Count, ProjectOf
<1>17. ASSUME NEW r \in Requests, NEW c \in CardIds, NEW to \in Columns,
           GithubFind(r, c, to)
      PROVE  TypeOK'
  BY <1>17 DEF GithubFind, TypeOK, Exists, Shape, Numbering, Relabelled, Free,
     Request, Phases, Ops, Begin, Count, ProjectOf
<1>18. ASSUME NEW r \in Requests, NEW c \in CardIds, NEW to \in Columns,
           RelocateRead(r, c, to)
      PROVE  TypeOK'
  BY <1>18 DEF RelocateRead, TypeOK, Exists, Shape, Numbering, Relabelled,
     Free, Request, Phases, Ops, Begin, Count, Matching
<1>19. ASSUME NEW r \in Requests, NEW c \in CardIds, NEW l \in Labels,
           AttachRead(r, c, l)
      PROVE  TypeOK'
  BY <1>19 DEF AttachRead, TypeOK, Exists, Shape, Numbering, Relabelled, Free,
     Request, Phases, Ops, Begin, Count
<1>20. ASSUME NEW r \in Requests, NEW c \in CardIds, NEW p \in Projects,
           DeleteRead(r, c, p)
      PROVE  TypeOK'
  BY <1>20 DEF DeleteRead, TypeOK, Exists, Shape, Numbering, Relabelled, Free,
     Request, Phases, Ops, Begin, Count
<1>21. ASSUME NEW S \in Blocks, NEW k \in Columns, NEW f \in Orders(S),
           NEW lab \in Labellings(S, ColumnProject[k]),
           ImportCards(S, k, f, lab)
      PROVE  TypeOK'
  <2>1. Cardinality(S) \in Nat /\ S \subseteq CardIds
    BY FS_Subset, FS_CardinalityType DEF Blocks
  <2>2. f \in [S -> 1 .. Cardinality(S)]
    BY DEF Orders
  <2>3. ColumnProject[k] \in Projects /\ k \in columns /\ columns' = columns
    BY <1>21 DEF ImportCards
  <2>4. \A c \in S : counter[ColumnProject[k]] + f[c] \in Nat
    BY <2>1, <2>2, <2>3 DEF TypeOK
  <2>5. num' \in [CardIds -> Nat] /\ col' \in [CardIds -> columns \cup {None}]
    BY <1>21, <2>1, <2>3, <2>4 DEF ImportCards, TypeOK
  <2>6. held' \subseteq [project: Projects, number: Nat, card: CardIds]
    BY <1>21, <2>1, <2>3, <2>4 DEF ImportCards, TypeOK, Key
  <2>7. counter' \in [Projects -> Nat]
    BY <1>21, <2>1, <2>3 DEF ImportCards, TypeOK
  <2>8. \A c \in CardIds : ~Exists(c)' => num'[c] = 0 /\ tags'[c] = {}
    BY <1>21, <2>1, <2>3 DEF ImportCards, TypeOK, Exists
  <2>9. tags' \in [CardIds -> SUBSET Labels]
    BY <1>21 DEF ImportCards, Labellings, TypeOK
  <2> QED
    BY <1>21, <2>3, <2>5, <2>6, <2>7, <2>8, <2>9 DEF ImportCards, TypeOK,
       Count
<1>22. ASSUME NEW c \in CardIds, NEW l \in Labels,
           Detach(c, l)
      PROVE  TypeOK'
  BY <1>22 DEF Detach, TypeOK, Exists, Shape, Numbering, Relabelled, Free,
     Request, Phases, Count
<1>23. ASSUME NEW k \in Columns,
           DeleteColumn(k)
      PROVE  TypeOK'
  BY <1>23 DEF DeleteColumn, TypeOK, Exists, Shape, Numbering, Relabelled,
     Free, Request, Phases, Count, Remove
<1>24. CASE UNCHANGED vars
  BY <1>24 DEF vars, TypeOK, Exists
<1> QED
  BY <1>1, <1>2, <1>3, <1>4, <1>5, <1>6, <1>7, <1>8, <1>9, <1>10, <1>11,
     <1>12, <1>13, <1>14, <1>15, <1>16, <1>17, <1>18, <1>19, <1>20, <1>21,
     <1>22,
     <1>23, <1>24
     DEF Next

\* Every step keeps Shape.
LEMMA ShapeStep == TypeOK /\ Shape /\ [Next]_vars => Shape'
<1> SUFFICES ASSUME TypeOK, Shape, [Next]_vars PROVE Shape'
  OBVIOUS
<1> USE CardsAssumption
<1>1. ASSUME NEW r \in Requests,
           AllocateNumber(r)
      PROVE  Shape'
  BY <1>1 DEF AllocateNumber, TypeOK, Shape, Exists, Free, Numbering, Request,
     Phases
<1>2. ASSUME NEW r \in Requests,
           MoveWrite(r)
      PROVE  Shape'
  BY <1>2 DEF MoveWrite, TypeOK, Shape, Exists, Free, Numbering, Request,
     Phases, Idle, Goto, End
<1>3. ASSUME NEW r \in Requests,
           SystemCheck(r)
      PROVE  Shape'
  BY <1>3 DEF SystemCheck, TypeOK, Shape, Exists, Free, Numbering, Request,
     Phases, Goto
<1>4. ASSUME NEW r \in Requests,
           SystemWrite(r)
      PROVE  Shape'
  BY <1>4 DEF SystemWrite, TypeOK, Shape, Exists, Free, Numbering, Request,
     Phases, Idle, Goto, End
<1>5. ASSUME NEW r \in Requests,
           RelocateUntag(r)
      PROVE  Shape'
  BY <1>5 DEF RelocateUntag, TypeOK, Shape, Exists, Free, Numbering, Request,
     Phases, At, Goto
<1>6. ASSUME NEW r \in Requests,
           RelocateRetag(r)
      PROVE  Shape'
  BY <1>6 DEF RelocateRetag, TypeOK, Shape, Exists, Free, Numbering, Request,
     Phases, At, Goto
<1>7. ASSUME NEW r \in Requests,
           RelocateWrite(r)
      PROVE  Shape'
  BY <1>7 DEF RelocateWrite, TypeOK, Shape, Exists, Free, Numbering, Request,
     Phases, Idle, End
<1>8. ASSUME NEW r \in Requests,
           AttachWrite(r)
      PROVE  Shape'
  BY <1>8 DEF AttachWrite, TypeOK, Shape, Exists, Free, Numbering, Request,
     Phases, Idle, End
<1>9. ASSUME NEW r \in Requests,
           DeleteWrite(r)
      PROVE  Shape'
  BY <1>9 DEF DeleteWrite, TypeOK, Shape, Exists, Free, Numbering, Request,
     Phases, Idle, End
<1>10. ASSUME NEW r \in Requests,
           Stop(r)
      PROVE  Shape'
  BY <1>10 DEF Stop, TypeOK, Shape, Exists, Free, Numbering, Request, Phases,
     Idle, End
<1>11. ASSUME NEW r \in Requests, NEW to \in Columns,
           CreateCheck(r, to)
      PROVE  Shape'
  BY <1>11 DEF CreateCheck, TypeOK, Shape, Exists, Free, Numbering, Request,
     Phases
<1>12. ASSUME NEW r \in Requests, NEW to \in Columns,
           RuleMove(r, to)
      PROVE  Shape'
  BY <1>12 DEF RuleMove, TypeOK, Shape, Exists, Free, Numbering, Request,
     Phases
<1>13. ASSUME NEW r \in Requests, NEW l \in Labels,
           RuleLabel(r, l)
      PROVE  Shape'
  BY <1>13 DEF RuleLabel, TypeOK, Shape, Exists, Free, Numbering, Request,
     Phases
<1>14. ASSUME NEW r \in Requests, NEW c \in CardIds,
           CreateWrite(r, c)
      PROVE  Shape'
  BY <1>14 DEF CreateWrite, TypeOK, Shape, Exists, Free, Numbering, Request,
     Phases, Idle, End
<1>15. ASSUME NEW r \in Requests, NEW c \in CardIds, NEW to \in Columns,
           CopyRead(r, c, to)
      PROVE  Shape'
  BY <1>15 DEF CopyRead, TypeOK, Shape, Exists, Free, Numbering, Request,
     Phases, Begin
<1>16. ASSUME NEW r \in Requests, NEW c \in CardIds, NEW to \in Columns,
           UpdateRead(r, c, to)
      PROVE  Shape'
  BY <1>16 DEF UpdateRead, TypeOK, Shape, Exists, Free, Numbering, Request,
     Phases, Begin
<1>17. ASSUME NEW r \in Requests, NEW c \in CardIds, NEW to \in Columns,
           GithubFind(r, c, to)
      PROVE  Shape'
  BY <1>17 DEF GithubFind, TypeOK, Shape, Exists, Free, Numbering, Request,
     Phases, Begin
<1>18. ASSUME NEW r \in Requests, NEW c \in CardIds, NEW to \in Columns,
           RelocateRead(r, c, to)
      PROVE  Shape'
  BY <1>18 DEF RelocateRead, TypeOK, Shape, Exists, Free, Numbering, Request,
     Phases, Begin
<1>19. ASSUME NEW r \in Requests, NEW c \in CardIds, NEW l \in Labels,
           AttachRead(r, c, l)
      PROVE  Shape'
  BY <1>19 DEF AttachRead, TypeOK, Shape, Exists, Free, Numbering, Request,
     Phases, Begin
<1>20. ASSUME NEW r \in Requests, NEW c \in CardIds, NEW p \in Projects,
           DeleteRead(r, c, p)
      PROVE  Shape'
  BY <1>20 DEF DeleteRead, TypeOK, Shape, Exists, Free, Numbering, Request,
     Phases, Begin
<1>21. ASSUME NEW S \in Blocks, NEW k \in Columns, NEW f \in Orders(S),
           NEW lab \in Labellings(S, ColumnProject[k]),
           ImportCards(S, k, f, lab)
      PROVE  Shape'
  BY <1>21 DEF ImportCards, TypeOK, Shape, Exists, Free, Numbering, Request,
     Phases
<1>22. ASSUME NEW c \in CardIds, NEW l \in Labels,
           Detach(c, l)
      PROVE  Shape'
  BY <1>22 DEF Detach, TypeOK, Shape, Exists, Free, Numbering, Request, Phases
<1>23. ASSUME NEW k \in Columns,
           DeleteColumn(k)
      PROVE  Shape'
  BY <1>23 DEF DeleteColumn, TypeOK, Shape, Exists, Free, Numbering, Request,
     Phases
<1>24. CASE UNCHANGED vars
  BY <1>24 DEF vars, Shape
<1> QED
  BY <1>1, <1>2, <1>3, <1>4, <1>5, <1>6, <1>7, <1>8, <1>9, <1>10, <1>11,
     <1>12, <1>13, <1>14, <1>15, <1>16, <1>17, <1>18, <1>19, <1>20, <1>21,
     <1>22,
     <1>23, <1>24
     DEF Next

----------------------------------------------------------------------------
(* Numbers.  The counter is ahead of every number in use or on its way.    *)

\* Request r holds a number and has not written it yet.
Pending(r) == reqs[r].phase = "write" /\ reqs[r].op \in Numbering

\* No number beyond the counter was ever given out.
HeldBelow == \A h \in held : h.number <= counter[h.project]

\* A request about to write a card has a number the counter has passed,
PendingBelow ==
    \A r \in Requests : Pending(r) => reqs[r].number <= counter[reqs[r].project]

\* that no card was given,
PendingUnheld ==
    \A r \in Requests, h \in held :
        Pending(r) /\ h.project = reqs[r].project => h.number # reqs[r].number

\* and that no other request has.
PendingDistinct ==
    \A r, q \in Requests :
        /\ Pending(r) /\ Pending(q)
        /\ reqs[r].project = reqs[q].project /\ reqs[r].number = reqs[q].number
        => r = q

\* The strengthening that makes NumbersNeverReused inductive.
NumberInv ==
    /\ HeldBelow
    /\ PendingBelow
    /\ PendingUnheld
    /\ PendingDistinct
    /\ NumbersNeverReused

\* Every step keeps it.
LEMMA NumberStep == TypeOK /\ Shape /\ NumberInv /\ [Next]_vars => NumberInv'
<1> SUFFICES ASSUME TypeOK, Shape, NumberInv, [Next]_vars PROVE NumberInv'
  OBVIOUS
<1> USE CardsAssumption
<1>1. ASSUME NEW r \in Requests,
           AllocateNumber(r)
      PROVE  NumberInv'
  BY <1>1 DEF AllocateNumber, TypeOK, Shape, Free, Numbering, Request
<1>2. ASSUME NEW r \in Requests,
           MoveWrite(r)
      PROVE  NumberInv'
  <2>1. reqs'[r].phase \in {"rules", "idle"}
        /\ \A q \in Requests \ {r} : reqs'[q] = reqs[q]
    BY <1>2 DEF MoveWrite, Goto, End, Idle, TypeOK, Request
  <2>2. \A q \in Requests : Pending(q)' => Pending(q) /\ reqs'[q] = reqs[q]
    BY <2>1 DEF Pending
  <2> QED
    BY <1>2, <2>2 DEF MoveWrite, NumberInv, HeldBelow, PendingBelow,
       PendingUnheld, PendingDistinct, NumbersNeverReused
<1>3. ASSUME NEW r \in Requests,
           SystemCheck(r)
      PROVE  NumberInv'
  BY <1>3 DEF SystemCheck, TypeOK, Shape, NumberInv, HeldBelow, PendingBelow,
     PendingUnheld, PendingDistinct, NumbersNeverReused, Pending, Free,
     Numbering, Request, Goto
<1>4. ASSUME NEW r \in Requests,
           SystemWrite(r)
      PROVE  NumberInv'
  <2>1. reqs'[r].phase \in {"rules", "idle"}
        /\ \A q \in Requests \ {r} : reqs'[q] = reqs[q]
    BY <1>4 DEF SystemWrite, Goto, End, Idle, TypeOK, Request
  <2>2. \A q \in Requests : Pending(q)' => Pending(q) /\ reqs'[q] = reqs[q]
    BY <2>1 DEF Pending
  <2> QED
    BY <1>4, <2>2 DEF SystemWrite, NumberInv, HeldBelow, PendingBelow,
       PendingUnheld, PendingDistinct, NumbersNeverReused
<1>5. ASSUME NEW r \in Requests,
           RelocateUntag(r)
      PROVE  NumberInv'
  BY <1>5 DEF RelocateUntag, TypeOK, Shape, NumberInv, HeldBelow,
     PendingBelow, PendingUnheld, PendingDistinct, NumbersNeverReused,
     Pending, Free, Numbering, Request, Goto
<1>6. ASSUME NEW r \in Requests,
           RelocateRetag(r)
      PROVE  NumberInv'
  BY <1>6 DEF RelocateRetag, TypeOK, Shape, NumberInv, HeldBelow,
     PendingBelow, PendingUnheld, PendingDistinct, NumbersNeverReused,
     Pending, Free, Numbering, Request, Goto
<1>7. ASSUME NEW r \in Requests,
           RelocateWrite(r)
      PROVE  NumberInv'
  BY <1>7 DEF RelocateWrite, TypeOK, Shape, NumberInv, HeldBelow,
     PendingBelow, PendingUnheld, PendingDistinct, NumbersNeverReused,
     Pending, Free, Numbering, Request, Idle, At, End, Key
<1>8. ASSUME NEW r \in Requests,
           AttachWrite(r)
      PROVE  NumberInv'
  BY <1>8 DEF AttachWrite, TypeOK, Shape, NumberInv, HeldBelow, PendingBelow,
     PendingUnheld, PendingDistinct, NumbersNeverReused, Pending, Free,
     Numbering, Request, Idle, End
<1>9. ASSUME NEW r \in Requests,
           DeleteWrite(r)
      PROVE  NumberInv'
  BY <1>9 DEF DeleteWrite, TypeOK, Shape, NumberInv, HeldBelow, PendingBelow,
     PendingUnheld, PendingDistinct, NumbersNeverReused, Pending, Free,
     Numbering, Request, Idle, End
<1>10. ASSUME NEW r \in Requests,
           Stop(r)
      PROVE  NumberInv'
  BY <1>10 DEF Stop, TypeOK, Shape, NumberInv, HeldBelow, PendingBelow,
     PendingUnheld, PendingDistinct, NumbersNeverReused, Pending, Free,
     Numbering, Request, Idle, End
<1>11. ASSUME NEW r \in Requests, NEW to \in Columns,
           CreateCheck(r, to)
      PROVE  NumberInv'
  BY <1>11 DEF CreateCheck, TypeOK, Shape, NumberInv, HeldBelow, PendingBelow,
     PendingUnheld, PendingDistinct, NumbersNeverReused, Pending, Free,
     Numbering, Request
<1>12. ASSUME NEW r \in Requests, NEW to \in Columns,
           RuleMove(r, to)
      PROVE  NumberInv'
  BY <1>12 DEF RuleMove, TypeOK, Shape, NumberInv, HeldBelow, PendingBelow,
     PendingUnheld, PendingDistinct, NumbersNeverReused, Pending, Free,
     Numbering, Request
<1>13. ASSUME NEW r \in Requests, NEW l \in Labels,
           RuleLabel(r, l)
      PROVE  NumberInv'
  BY <1>13 DEF RuleLabel, TypeOK, Shape, NumberInv, HeldBelow, PendingBelow,
     PendingUnheld, PendingDistinct, NumbersNeverReused, Pending, Free,
     Numbering, Request
<1>14. ASSUME NEW r \in Requests, NEW c \in CardIds,
           CreateWrite(r, c)
      PROVE  NumberInv'
  <2> DEFINE h == Key(reqs[r].project, reqs[r].number, c)
  <2>1. Pending(r) /\ h \in held' /\ held' = held \cup {h} /\ counter' = counter
        /\ h.project = reqs[r].project /\ h.number = reqs[r].number
    BY <1>14 DEF CreateWrite, Pending, Numbering, Key
  <2>2. reqs'[r].phase \in {"rules", "idle"}
        /\ \A q \in Requests \ {r} : reqs'[q] = reqs[q]
    BY <1>14 DEF CreateWrite, End, Idle, TypeOK, Request
  <2>3. \A q \in Requests : Pending(q)' => q # r /\ Pending(q) /\ reqs'[q] = reqs[q]
    BY <2>2 DEF Pending
  <2> HIDE DEF h
  <2>4. HeldBelow' /\ PendingBelow' /\ PendingDistinct'
    BY <2>1, <2>3 DEF NumberInv, HeldBelow, PendingBelow, PendingDistinct
  <2>5. PendingUnheld'
    BY <2>1, <2>3 DEF NumberInv, PendingUnheld, PendingDistinct
  <2>6. NumbersNeverReused'
    BY <2>1 DEF NumberInv, PendingUnheld, NumbersNeverReused
  <2> QED
    BY <2>4, <2>5, <2>6 DEF NumberInv
<1>15. ASSUME NEW r \in Requests, NEW c \in CardIds, NEW to \in Columns,
           CopyRead(r, c, to)
      PROVE  NumberInv'
  BY <1>15 DEF CopyRead, TypeOK, Shape, NumberInv, HeldBelow, PendingBelow,
     PendingUnheld, PendingDistinct, NumbersNeverReused, Pending, Free,
     Numbering, Request, Begin
<1>16. ASSUME NEW r \in Requests, NEW c \in CardIds, NEW to \in Columns,
           UpdateRead(r, c, to)
      PROVE  NumberInv'
  BY <1>16 DEF UpdateRead, TypeOK, Shape, NumberInv, HeldBelow, PendingBelow,
     PendingUnheld, PendingDistinct, NumbersNeverReused, Pending, Free,
     Numbering, Request, Begin
<1>17. ASSUME NEW r \in Requests, NEW c \in CardIds, NEW to \in Columns,
           GithubFind(r, c, to)
      PROVE  NumberInv'
  BY <1>17 DEF GithubFind, TypeOK, Shape, NumberInv, HeldBelow, PendingBelow,
     PendingUnheld, PendingDistinct, NumbersNeverReused, Pending, Free,
     Numbering, Request, Begin
<1>18. ASSUME NEW r \in Requests, NEW c \in CardIds, NEW to \in Columns,
           RelocateRead(r, c, to)
      PROVE  NumberInv'
  BY <1>18 DEF RelocateRead, TypeOK, Shape, NumberInv, HeldBelow,
     PendingBelow, PendingUnheld, PendingDistinct, NumbersNeverReused,
     Pending, Free, Numbering, Request, Begin
<1>19. ASSUME NEW r \in Requests, NEW c \in CardIds, NEW l \in Labels,
           AttachRead(r, c, l)
      PROVE  NumberInv'
  BY <1>19 DEF AttachRead, TypeOK, Shape, NumberInv, HeldBelow, PendingBelow,
     PendingUnheld, PendingDistinct, NumbersNeverReused, Pending, Free,
     Numbering, Request, Begin
<1>20. ASSUME NEW r \in Requests, NEW c \in CardIds, NEW p \in Projects,
           DeleteRead(r, c, p)
      PROVE  NumberInv'
  BY <1>20 DEF DeleteRead, TypeOK, Shape, NumberInv, HeldBelow, PendingBelow,
     PendingUnheld, PendingDistinct, NumbersNeverReused, Pending, Free,
     Numbering, Request, Begin
<1>21. ASSUME NEW S \in Blocks, NEW k \in Columns, NEW f \in Orders(S),
           NEW lab \in Labellings(S, ColumnProject[k]),
           ImportCards(S, k, f, lab)
      PROVE  NumberInv'
  <2> DEFINE p == ColumnProject[k]
  <2>1. Cardinality(S) \in Nat /\ S \subseteq CardIds /\ p \in Projects
    BY FS_Subset, FS_CardinalityType DEF Blocks
  <2>2. f \in [S -> 1 .. Cardinality(S)] /\ \A c, d \in S : f[c] = f[d] => c = d
    BY DEF Orders
  <2>3. counter' = [counter EXCEPT ![p] = @ + Cardinality(S)] /\ reqs' = reqs
    BY <1>21 DEF ImportCards
  <2>4. \A h \in held' : \/ h \in held
                        \/ \E c \in S : /\ h.project = p /\ h.card = c
                                       /\ h.number = counter[p] + f[c]
    BY <1>21 DEF ImportCards, Key
  <2>5. /\ counter[p] \in Nat
        /\ \A c \in S : f[c] \in Nat /\ f[c] >= 1 /\ f[c] <= Cardinality(S)
    BY <2>1, <2>2 DEF TypeOK
  <2>6. \A h \in held : h.project \in Projects /\ h.number \in Nat
    BY DEF TypeOK
  <2>7. \A h \in held' \ held : /\ h.project = p /\ h.number \in Nat
                               /\ h.number > counter[p]
                               /\ h.number <= counter[p] + Cardinality(S)
    BY <2>4, <2>5, <2>1
  <2>8. \A x \in Projects :
           counter'[x] = IF x = p THEN counter[p] + Cardinality(S) ELSE counter[x]
    BY <2>1, <2>3 DEF TypeOK
  <2> HIDE DEF p
  <2>9. HeldBelow'
    BY <2>1, <2>5, <2>6, <2>7, <2>8 DEF NumberInv, HeldBelow, TypeOK
  <2>10. PendingBelow'
    BY <2>1, <2>3, <2>8, <2>5 DEF NumberInv, PendingBelow, Pending, TypeOK,
       Shape, Request, Numbering
  <2>11. PendingUnheld'
    BY <2>3, <2>5, <2>6, <2>7 DEF NumberInv, PendingBelow, PendingUnheld,
       Pending, TypeOK, Request
  <2>12. PendingDistinct'
    BY <2>3 DEF NumberInv, PendingDistinct, Pending
  <2>13. NumbersNeverReused'
    <3> SUFFICES ASSUME NEW g \in held', NEW h \in held',
                        g.project = h.project, g.number = h.number
                 PROVE  g.card = h.card
      BY DEF NumbersNeverReused
    <3>1. CASE g \in held /\ h \in held
      BY <3>1 DEF NumberInv, NumbersNeverReused
    <3>2. CASE g \in held /\ h \notin held
      BY <3>2, <2>5, <2>6, <2>7 DEF NumberInv, HeldBelow
    <3>3. CASE g \notin held /\ h \in held
      BY <3>3, <2>5, <2>6, <2>7 DEF NumberInv, HeldBelow
    <3>4. CASE g \notin held /\ h \notin held
      BY <3>4, <2>2, <2>4, <2>5
    <3> QED
      BY <3>1, <3>2, <3>3, <3>4
  <2> QED
    BY <2>9, <2>10, <2>11, <2>12, <2>13 DEF NumberInv
<1>22. ASSUME NEW c \in CardIds, NEW l \in Labels,
           Detach(c, l)
      PROVE  NumberInv'
  BY <1>22 DEF Detach, TypeOK, Shape, NumberInv, HeldBelow, PendingBelow,
     PendingUnheld, PendingDistinct, NumbersNeverReused, Pending, Free,
     Numbering, Request
<1>23. ASSUME NEW k \in Columns,
           DeleteColumn(k)
      PROVE  NumberInv'
  BY <1>23 DEF DeleteColumn, TypeOK, Shape, NumberInv, HeldBelow,
     PendingBelow, PendingUnheld, PendingDistinct, NumbersNeverReused,
     Pending, Free, Numbering, Request
<1>24. CASE UNCHANGED vars
  BY <1>24 DEF vars, TypeOK, Shape, NumberInv, HeldBelow, PendingBelow,
     PendingUnheld, PendingDistinct, NumbersNeverReused, Pending, Free,
     Numbering, Request, Idle
<1> QED
  BY <1>1, <1>2, <1>3, <1>4, <1>5, <1>6, <1>7, <1>8, <1>9, <1>10, <1>11,
     <1>12, <1>13, <1>14, <1>15, <1>16, <1>17, <1>18, <1>19, <1>20, <1>21,
     <1>22,
     <1>23, <1>24
     DEF Next

----------------------------------------------------------------------------
(* Keys.  A card no relocation crossed is where its requests believe it is. *)

\* Request r is at work on card c.
Working(r, c) == ~Free(r) /\ reqs[r].card = c

\* A card on a board, or in the hands of a request, was given a key.
Known ==
    /\ \A c \in CardIds : Exists(c) => ~Fresh(c)
    /\ \A r \in Requests : reqs[r].card # None => ~Fresh(reqs[r].card)

\* A request about to move a card puts it in a column of its own project.
Target ==
    \A r \in Requests :
        \/ reqs[r].phase = "place"
        \/ reqs[r].phase = "write" /\ reqs[r].op \in {"edit", "move"}
        => reqs[r].to \in Columns /\ ColumnProject[reqs[r].to] = reqs[r].project

\* Rules and system moves belong to creates, moves and GitHub events.
SystemOps ==
    \A r \in Requests :
        reqs[r].phase \in {"rules", "place", "system"} =>
            reqs[r].op \in {"create", "move", "system"}

\* A card in the hands of a request that does not change projects is still in the
\* project of the request,
Same ==
    \A r \in Requests, c \in CardIds :
        /\ Working(r, c) /\ Exists(c) /\ c \notin crossed
        /\ reqs[r].op \notin {"copy", "relocate"}
        => ProjectOf(c) = reqs[r].project

\* no other request works on a card being relocated,
Alone ==
    \A r, q \in Requests, c \in CardIds :
        /\ Working(r, c) /\ reqs[r].op = "relocate" /\ c \notin crossed
        /\ Working(q, c)
        => r = q

\* and a relocation has not yet reached the project it goes to.
Leaves ==
    \A r \in Requests, c \in CardIds :
        /\ Working(r, c) /\ Exists(c) /\ c \notin crossed
        /\ reqs[r].op = "relocate"
        => ProjectOf(c) # reqs[r].project

\* The strengthening that makes KeysIssued inductive.
KeyInv == Known /\ Target /\ SystemOps /\ Same /\ Alone /\ Leaves /\ KeysIssued

\* A request puts its card in a column of the project it works in.
LEMMA PlaceStep ==
  ASSUME TypeOK, KeyInv,
         NEW r \in Requests, NEW c \in CardIds, NEW to \in Columns,
         Working(r, c), Exists(c), reqs[r].op \notin {"copy", "relocate"},
         ColumnProject[to] = reqs[r].project,
         col' = [col EXCEPT ![c] = to],
         UNCHANGED <<num, held, crossed>>,
         \A q \in Requests \ {r} : reqs'[q] = reqs[q],
         reqs'[r] = Idle
           \/ /\ reqs'[r].phase = "rules"
              /\ reqs'[r].op = reqs[r].op /\ reqs[r].op \in {"create", "move", "system"}
              /\ reqs'[r].card = c              /\ reqs'[r].project = reqs[r].project
  PROVE  KeyInv'
<1>1. \A d \in CardIds : /\ Exists(d)' <=> Exists(d)
                         /\ d \notin crossed => ProjectOf(d)' = ProjectOf(d)
                         /\ Fresh(d)' <=> Fresh(d)
  BY CardsAssumption DEF TypeOK, KeyInv, Same, Exists, ProjectOf, Fresh
<1>2. \A q \in Requests, d \in CardIds :
         Working(q, d)' => /\ Working(q, d) /\ reqs'[q].op = reqs[q].op
                           /\ reqs'[q].project = reqs[q].project
  BY CardsAssumption DEF Working, Free, Idle
<1>3. Known'
  BY <1>1, CardsAssumption DEF KeyInv, Known, Fresh, Idle, Working
<1>4. Target' /\ SystemOps'
  BY DEF KeyInv, Target, SystemOps, Idle
<1>5. Same' /\ Alone' /\ Leaves'
  BY <1>1, <1>2 DEF KeyInv, Same, Alone, Leaves
<1>6. KeysIssued'
  BY <1>1 DEF KeyInv, KeysIssued, Key
<1> QED
  BY <1>3, <1>4, <1>5, <1>6 DEF KeyInv



\* Every step keeps it.
LEMMA KeyStep == TypeOK /\ Shape /\ KeyInv /\ [Next]_vars => KeyInv'
<1> SUFFICES ASSUME TypeOK, Shape, KeyInv, [Next]_vars PROVE KeyInv'
  OBVIOUS
<1> USE CardsAssumption
<1>1. ASSUME NEW r \in Requests,
           AllocateNumber(r)
      PROVE  KeyInv'
  BY <1>1 DEF AllocateNumber, TypeOK, Shape, Exists, Fresh, Free, Numbering,
     Request
<1>2. ASSUME NEW r \in Requests,
           MoveWrite(r)
      PROVE  KeyInv'
  <2>1. reqs[r].card \in CardIds /\ reqs[r].to \in Columns
        /\ ColumnProject[reqs[r].to] = reqs[r].project /\ Working(r, reqs[r].card)
    BY <1>2 DEF MoveWrite, Shape, KeyInv, Target, Working, Free
  <2>2. \A q \in Requests \ {r} : reqs'[q] = reqs[q]
    BY <1>2 DEF MoveWrite, Goto, End, TypeOK
  <2>3. reqs'[r] = Idle
        \/ /\ reqs'[r].phase = "rules"
           /\ reqs'[r].op = reqs[r].op /\ reqs[r].op \in {"create", "move", "system"}
           /\ reqs'[r].card = reqs[r].card   /\ reqs'[r].project = reqs[r].project
    BY <1>2 DEF MoveWrite, Goto, End, TypeOK, Request
  <2> QED
    BY <1>2, <2>1, <2>2, <2>3, PlaceStep DEF MoveWrite
<1>3. ASSUME NEW r \in Requests,
           SystemCheck(r)
      PROVE  KeyInv'
  BY <1>3 DEF SystemCheck, TypeOK, Shape, KeyInv, Known, Target, SystemOps,
     Same, Alone, Leaves, KeysIssued, Working, Exists, ProjectOf, Fresh, Free,
     Numbering, Request, Goto, SystemAllowed
<1>4. ASSUME NEW r \in Requests,
           SystemWrite(r)
      PROVE  KeyInv'
  <2>1. reqs[r].card \in CardIds /\ reqs[r].to \in Columns
        /\ ColumnProject[reqs[r].to] = reqs[r].project
    BY <1>4 DEF SystemWrite, Shape, KeyInv, Target
  <2>4. Working(r, reqs[r].card) /\ reqs[r].op \notin {"copy", "relocate"}
    BY <1>4 DEF SystemWrite, KeyInv, SystemOps, Working, Free
  <2>2. \A q \in Requests \ {r} : reqs'[q] = reqs[q]
    BY <1>4 DEF SystemWrite, Goto, End, TypeOK
  <2>3. reqs'[r] = Idle
        \/ /\ reqs'[r].phase = "rules"
           /\ reqs'[r].op = reqs[r].op /\ reqs[r].op \in {"create", "move", "system"}
           /\ reqs'[r].card = reqs[r].card   /\ reqs'[r].project = reqs[r].project
    BY <1>4 DEF SystemWrite, Goto, End, TypeOK, Request, KeyInv, SystemOps
  <2> QED
    BY <1>4, <2>1, <2>2, <2>3, <2>4, PlaceStep DEF SystemWrite
<1>5. ASSUME NEW r \in Requests,
           RelocateUntag(r)
      PROVE  KeyInv'
  BY <1>5 DEF RelocateUntag, TypeOK, Shape, KeyInv, Known, Target, SystemOps,
     Same, Alone, Leaves, KeysIssued, Working, Exists, ProjectOf, Fresh, Free,
     Numbering, Request, At, Goto
<1>6. ASSUME NEW r \in Requests,
           RelocateRetag(r)
      PROVE  KeyInv'
  BY <1>6 DEF RelocateRetag, TypeOK, Shape, KeyInv, Known, Target, SystemOps,
     Same, Alone, Leaves, KeysIssued, Working, Exists, ProjectOf, Fresh, Free,
     Numbering, Request, At, Goto
<1>7. ASSUME NEW r \in Requests,
           RelocateWrite(r)
      PROVE  KeyInv'
  BY <1>7 DEF RelocateWrite, TypeOK, Shape, KeyInv, Known, Target, SystemOps,
     Same, Alone, Leaves, KeysIssued, Working, Exists, ProjectOf, Fresh, Free,
     Numbering, Request, Idle, At, End
<1>8. ASSUME NEW r \in Requests,
           AttachWrite(r)
      PROVE  KeyInv'
  BY <1>8 DEF AttachWrite, TypeOK, Shape, KeyInv, Known, Target, SystemOps,
     Same, Alone, Leaves, KeysIssued, Working, Exists, ProjectOf, Fresh, Free,
     Numbering, Request, Idle, End
<1>9. ASSUME NEW r \in Requests,
           DeleteWrite(r)
      PROVE  KeyInv'
  BY <1>9 DEF DeleteWrite, TypeOK, Shape, KeyInv, Known, Target, SystemOps,
     Same, Alone, Leaves, KeysIssued, Working, Exists, ProjectOf, Fresh, Free,
     Numbering, Request, Idle, Remove, End
<1>10. ASSUME NEW r \in Requests,
           Stop(r)
      PROVE  KeyInv'
  BY <1>10 DEF Stop, TypeOK, Shape, KeyInv, Known, Target, SystemOps, Same,
     Alone, Leaves, KeysIssued, Working, Exists, ProjectOf, Fresh, Free,
     Numbering, Request, Idle, End
<1>11. ASSUME NEW r \in Requests, NEW to \in Columns,
           CreateCheck(r, to)
      PROVE  KeyInv'
  BY <1>11 DEF CreateCheck, TypeOK, Shape, KeyInv, Known, Target, SystemOps,
     Same, Alone, Leaves, KeysIssued, Working, Exists, ProjectOf, Fresh, Free,
     Numbering, Request, Idle
<1>12. ASSUME NEW r \in Requests, NEW to \in Columns,
           RuleMove(r, to)
      PROVE  KeyInv'
  <2>1. reqs'[r].phase = "place" /\ reqs'[r].to = to /\ reqs'[r].op = reqs[r].op
        /\ reqs'[r].card = reqs[r].card /\ reqs'[r].project = reqs[r].project
        /\ \A q \in Requests \ {r} : reqs'[q] = reqs[q]
    BY <1>12 DEF RuleMove, TypeOK, Request
  <2>2. UNCHANGED <<col, num, held, crossed>> /\ ColumnProject[to] = reqs[r].project
        /\ reqs[r].phase = "rules"
    BY <1>12 DEF RuleMove, SystemAllowed
  <2>3. \A q \in Requests, d \in CardIds :
           Working(q, d)' => /\ Working(q, d) /\ reqs'[q].op = reqs[q].op
                             /\ reqs'[q].project = reqs[q].project
    BY <2>1, <2>2 DEF Working, Free
  <2>4. Known'
    BY <2>1, <2>2 DEF KeyInv, Known, Fresh, Exists
  <2>5. Target' /\ SystemOps'
    BY <2>1, <2>2 DEF KeyInv, Target, SystemOps
  <2>6. Same' /\ Alone' /\ Leaves' /\ KeysIssued'
    BY <2>2, <2>3 DEF KeyInv, Same, Alone, Leaves, KeysIssued, Exists,
       ProjectOf
  <2> QED
    BY <2>4, <2>5, <2>6 DEF KeyInv
<1>13. ASSUME NEW r \in Requests, NEW l \in Labels,
           RuleLabel(r, l)
      PROVE  KeyInv'
  BY <1>13 DEF RuleLabel, TypeOK, Shape, KeyInv, Known, Target, SystemOps,
     Same, Alone, Leaves, KeysIssued, Working, Exists, ProjectOf, Fresh, Free,
     Numbering, Request
<1>14. ASSUME NEW r \in Requests, NEW c \in CardIds,
           CreateWrite(r, c)
      PROVE  KeyInv'
  <2>1. /\ \A q \in Requests \ {r} : reqs'[q] = reqs[q]
        /\ reqs'[r] = Idle
           \/ /\ reqs'[r].phase = "rules"  /\ reqs'[r].op = "create"
              /\ reqs'[r].card = c         /\ reqs'[r].project = reqs[r].project
    BY <1>14 DEF CreateWrite, End, TypeOK, Request
  <2>2. /\ reqs[r].to \in Columns /\ reqs[r].project = ColumnProject[reqs[r].to]
        /\ col' = [col EXCEPT ![c] = reqs[r].to]
        /\ num' = [num EXCEPT ![c] = reqs[r].number]
        /\ held' = held \cup {Key(reqs[r].project, reqs[r].number, c)}
        /\ crossed \subseteq crossed'
    BY <1>14 DEF CreateWrite, Shape, Numbering, TypeOK
  <2>3. ~Exists(c) /\ \A q \in Requests : reqs[q].card # c
    BY <1>14, CardsAssumption DEF CreateWrite, KeyInv, Known
  <2>4. \A d \in CardIds : /\ d # c => /\ Exists(d)' <=> Exists(d)
                                     /\ ProjectOf(d)' = ProjectOf(d)
                                       /\ num'[d] = num[d]
                           /\ ~Fresh(d) => ~Fresh(d)'
    BY <2>2 DEF Exists, ProjectOf, Fresh, TypeOK
  <2>5. ~Fresh(c)' /\ ProjectOf(c)' = reqs[r].project /\ num'[c] = reqs[r].number
    <3>1. Key(reqs[r].project, reqs[r].number, c).card = c
      BY DEF Key
    <3>2. col'[c] = reqs[r].to /\ num'[c] = reqs[r].number
      BY <2>2 DEF TypeOK
    <3> QED
      BY <2>2, <3>1, <3>2 DEF Fresh, ProjectOf
  <2>6. \A q \in Requests, d \in CardIds :
           Working(q, d)' => \/ /\ d # c /\ Working(q, d) /\ reqs'[q] = reqs[q]
                             \/ /\ q = r /\ d = c /\ reqs'[q].op = "create"
                                /\ reqs'[q].project = reqs[q].project
    BY <2>1, <2>3, CardsAssumption DEF Working, Free, Idle
  <2>7. Known'
    BY <2>1, <2>2, <2>4, <2>5, CardsAssumption DEF KeyInv, Known, Idle,
       TypeOK, Request
  <2>8. Target' /\ SystemOps'
    BY <2>1 DEF KeyInv, Target, SystemOps, Idle
  <2>9. Same' /\ Alone' /\ Leaves'
    BY <2>2, <2>4, <2>5, <2>6 DEF KeyInv, Same, Alone, Leaves
  <2>10. KeysIssued'
    BY <2>2, <2>4, <2>5 DEF KeyInv, KeysIssued, Key
  <2> QED
    BY <2>7, <2>8, <2>9, <2>10 DEF KeyInv
<1>15. ASSUME NEW r \in Requests, NEW c \in CardIds, NEW to \in Columns,
           CopyRead(r, c, to)
      PROVE  KeyInv'
  BY <1>15 DEF CopyRead, TypeOK, Shape, KeyInv, Known, Target, SystemOps,
     Same, Alone, Leaves, KeysIssued, Working, Exists, ProjectOf, Fresh, Free,
     Numbering, Request, Begin, Others
<1>16. ASSUME NEW r \in Requests, NEW c \in CardIds, NEW to \in Columns,
           UpdateRead(r, c, to)
      PROVE  KeyInv'
  BY <1>16 DEF UpdateRead, TypeOK, Shape, KeyInv, Known, Target, SystemOps,
     Same, Alone, Leaves, KeysIssued, Working, Exists, ProjectOf, Fresh, Free,
     Numbering, Request, Begin, Others, MoveAllowed
<1>17. ASSUME NEW r \in Requests, NEW c \in CardIds, NEW to \in Columns,
           GithubFind(r, c, to)
      PROVE  KeyInv'
  BY <1>17 DEF GithubFind, TypeOK, Shape, KeyInv, Known, Target, SystemOps,
     Same, Alone, Leaves, KeysIssued, Working, Exists, ProjectOf, Fresh, Free,
     Numbering, Request, Begin, Others
<1>18. ASSUME NEW r \in Requests, NEW c \in CardIds, NEW to \in Columns,
           RelocateRead(r, c, to)
      PROVE  KeyInv'
  BY <1>18 DEF RelocateRead, TypeOK, Shape, KeyInv, Known, Target, SystemOps,
     Same, Alone, Leaves, KeysIssued, Working, Exists, ProjectOf, Fresh, Free,
     Numbering, Request, Begin, Others, LeavesProject
<1>19. ASSUME NEW r \in Requests, NEW c \in CardIds, NEW l \in Labels,
           AttachRead(r, c, l)
      PROVE  KeyInv'
  BY <1>19 DEF AttachRead, TypeOK, Shape, KeyInv, Known, Target, SystemOps,
     Same, Alone, Leaves, KeysIssued, Working, Exists, ProjectOf, Fresh, Free,
     Numbering, Request, Begin, Others
<1>20. ASSUME NEW r \in Requests, NEW c \in CardIds, NEW p \in Projects,
           DeleteRead(r, c, p)
      PROVE  KeyInv'
  BY <1>20 DEF DeleteRead, TypeOK, Shape, KeyInv, Known, Target, SystemOps,
     Same, Alone, Leaves, KeysIssued, Working, Exists, ProjectOf, Fresh, Free,
     Numbering, Request, Begin, Others, InProject
<1>21. ASSUME NEW S \in Blocks, NEW k \in Columns, NEW f \in Orders(S),
           NEW lab \in Labellings(S, ColumnProject[k]),
           ImportCards(S, k, f, lab)
      PROVE  KeyInv'
  <2> DEFINE p == ColumnProject[k]
  <2>1. /\ S \subseteq CardIds /\ reqs' = reqs /\ crossed' = crossed
        /\ \A c \in S : Fresh(c)
        /\ held' = held \cup {Key(p, counter[p] + f[c], c) : c \in S}
        /\ col' = [c \in CardIds |-> IF c \in S THEN k ELSE col[c]]
        /\ num' = [c \in CardIds |->
                     IF c \in S THEN counter[p] + f[c] ELSE num[c]]
    BY <1>21 DEF ImportCards, Blocks
  <2>2. \A c \in S : ~Exists(c) /\ \A q \in Requests : reqs[q].card # c
    BY <2>1, CardsAssumption DEF KeyInv, Known
  <2>3. \A d \in CardIds : /\ d \notin S => /\ Exists(d)' <=> Exists(d)
                                         /\ ProjectOf(d)' = ProjectOf(d)
                                         /\ num'[d] = num[d]
                           /\ ~Fresh(d) => ~Fresh(d)'
    BY <2>1 DEF Exists, ProjectOf, Fresh, TypeOK
  <2>4. \A c \in S : Key(p, num'[c], c) \in held' /\ ProjectOf(c)' = p
    BY <2>1 DEF ProjectOf
  <2>5. \A c \in S : ~Fresh(c)'
    BY <2>4 DEF Fresh, Key
  <2>6. \A q \in Requests, d \in CardIds :
           Working(q, d)' => d \notin S /\ Working(q, d) /\ reqs'[q] = reqs[q]
    BY <2>1, <2>2 DEF Working, Free
  <2>7. Known'
    BY <2>1, <2>3, <2>5, CardsAssumption DEF KeyInv, Known, TypeOK, Request
  <2>8. Target' /\ SystemOps'
    BY <2>1 DEF KeyInv, Target, SystemOps
  <2>9. Same' /\ Alone' /\ Leaves'
    BY <2>1, <2>3, <2>6 DEF KeyInv, Same, Alone, Leaves
  <2>10. KeysIssued'
    BY <2>1, <2>3, <2>4 DEF KeyInv, KeysIssued, Key
  <2> QED
    BY <2>7, <2>8, <2>9, <2>10 DEF KeyInv
<1>22. ASSUME NEW c \in CardIds, NEW l \in Labels,
           Detach(c, l)
      PROVE  KeyInv'
  BY <1>22 DEF Detach, TypeOK, Shape, KeyInv, Known, Target, SystemOps, Same,
     Alone, Leaves, KeysIssued, Working, Exists, ProjectOf, Fresh, Free,
     Numbering, Request
<1>23. ASSUME NEW k \in Columns,
           DeleteColumn(k)
      PROVE  KeyInv'
  BY <1>23 DEF DeleteColumn, TypeOK, Shape, KeyInv, Known, Target, SystemOps,
     Same, Alone, Leaves, KeysIssued, Working, Exists, ProjectOf, Fresh, Free,
     Numbering, Request, Remove
<1>24. CASE UNCHANGED vars
  BY <1>24 DEF vars, TypeOK, Shape, KeyInv, Known, Target, SystemOps, Same,
     Alone, Leaves, KeysIssued, Working, Exists, ProjectOf, Fresh, Free,
     Numbering, Request, Idle, Key
<1> QED
  BY <1>1, <1>2, <1>3, <1>4, <1>5, <1>6, <1>7, <1>8, <1>9, <1>10, <1>11,
     <1>12, <1>13, <1>14, <1>15, <1>16, <1>17, <1>18, <1>19, <1>20, <1>21,
     <1>22,
     <1>23, <1>24
     DEF Next

----------------------------------------------------------------------------
(* Labels.                                                                 *)

\* The labels a request carries are of the project it works in.
Carried ==
    \A r \in Requests :
        \/ reqs[r].op \in {"relocate", "attach"}
        \/ reqs[r].op = "copy" /\ reqs[r].card \notin crossed \cup torn
        => \A l \in reqs[r].labels : LabelProject[l] = reqs[r].project

\* A new card is written without labels.
Unlabelled == \A r \in Requests : reqs[r].op = "create" => reqs[r].labels = {}

\* A card being relocated has lost its old labels, and has at most the new ones.
Retagged ==
    \A r \in Requests, c \in CardIds :
        /\ Working(r, c) /\ reqs[r].op = "relocate" /\ c \notin crossed
        /\ reqs[r].phase \in {"retag", "allocate", "write"}
        => tags[c] \subseteq
             IF reqs[r].phase = "retag" THEN {} ELSE reqs[r].labels

\* The strengthening that makes LabelsAtHome inductive.
LabelInv == Carried /\ Unlabelled /\ Retagged /\ LabelsAtHome

\* Every step keeps it.
LEMMA LabelStep ==
  TypeOK /\ Shape /\ KeyInv /\ LabelInv /\ [Next]_vars => LabelInv'
<1> SUFFICES ASSUME TypeOK, Shape, KeyInv, LabelInv, [Next]_vars PROVE LabelInv'
  OBVIOUS
<1> USE CardsAssumption
<1>1. ASSUME NEW r \in Requests,
           AllocateNumber(r)
      PROVE  LabelInv'
  BY <1>1 DEF AllocateNumber, TypeOK, Shape, Relabelled, Exists, Free,
     Numbering, Request
<1>2. ASSUME NEW r \in Requests,
           MoveWrite(r)
      PROVE  LabelInv'
  <2>1. Carried'
    BY <1>2 DEF MoveWrite, TypeOK, Shape, Request, Idle, LabelInv, Carried,
       Goto, End
  <2>2. Unlabelled'
    BY <1>2 DEF MoveWrite, TypeOK, Shape, Request, Idle, LabelInv, Unlabelled,
       Goto, End
  <2>3. Retagged'
    BY <1>2 DEF MoveWrite, TypeOK, Shape, Request, Idle, LabelInv, Retagged,
       Working, Free, KeyInv, Alone, Same, Goto, End
  <2>4. LabelsAtHome'
    BY <1>2 DEF MoveWrite, TypeOK, Shape, Request, Idle, LabelInv,
       LabelsAtHome, Relabelled, Unlabelled, Working, Free, KeyInv, Same,
       Alone, Exists, ProjectOf, Known, Target, SystemOps, Goto, End
  <2> QED
    BY <2>1, <2>2, <2>3, <2>4 DEF LabelInv
<1>3. ASSUME NEW r \in Requests,
           SystemCheck(r)
      PROVE  LabelInv'
  BY <1>3 DEF SystemCheck, TypeOK, Shape, Target, SystemOps, Alone, LabelInv,
     Carried, Unlabelled, Retagged, LabelsAtHome, Relabelled, Working, Exists,
     ProjectOf, Free, Numbering, Request, Goto, SystemAllowed
<1>4. ASSUME NEW r \in Requests,
           SystemWrite(r)
      PROVE  LabelInv'
  <2>1. \A d \in CardIds : /\ Exists(d)' <=> Exists(d)
                           /\ d \notin crossed => ProjectOf(d)' = ProjectOf(d)
    <3>1. /\ reqs[r].card \in CardIds
          /\ Working(r, reqs[r].card) /\ Exists(reqs[r].card)
          /\ reqs[r].op \notin {"copy", "relocate"}
      BY <1>4 DEF SystemWrite, Shape, KeyInv, SystemOps, Working, Free
    <3>2. reqs[r].to \in Columns /\ ColumnProject[reqs[r].to] = reqs[r].project
      BY <1>4 DEF SystemWrite, KeyInv, Target
    <3> QED
      BY <1>4, <3>1, <3>2 DEF SystemWrite, TypeOK, KeyInv, Same, Exists,
         ProjectOf
  <2>2. \A q \in Requests : reqs'[q] = reqs[q]
            \/ reqs'[q].labels = {}
            \/ /\ q = r /\ reqs'[q].op = reqs[q].op /\ reqs'[q].card = reqs[q].card
               /\ reqs[q].phase = "place" /\ reqs'[q].phase = "rules"
               /\ reqs'[q].labels = reqs[q].labels /\ reqs'[q].project = reqs[q].project
    BY <1>4 DEF SystemWrite, Goto, End, Idle, TypeOK, Request
  <2>3. Carried' /\ Unlabelled'
    BY <1>4, <2>2 DEF SystemWrite, LabelInv, Carried, Unlabelled
  <2>6. Retagged'
    BY <1>4 DEF SystemWrite, TypeOK, Shape, Request, Idle, LabelInv, Retagged,
       Working, Free, KeyInv, Alone, Same, Goto, End
  <2>4. \A q \in Requests :
          Relabelled(q) => Relabelled(q)' /\ reqs'[q].card = reqs[q].card
    BY <1>4 DEF SystemWrite, Relabelled, Goto, End, TypeOK
  <2>5. LabelsAtHome'
    BY <1>4, <2>1, <2>4 DEF SystemWrite, LabelInv, LabelsAtHome
  <2> QED
    BY <2>3, <2>5, <2>6 DEF LabelInv
<1>5. ASSUME NEW r \in Requests,
           RelocateUntag(r)
      PROVE  LabelInv'
  <2>0. PICK c \in CardIds : c = reqs[r].card
    BY <1>5 DEF RelocateUntag, At, Shape
  <2>1. PICK ph \in {"allocate", "retag"} : reqs' = [reqs EXCEPT ![r].phase = ph]
    BY <1>5 DEF RelocateUntag, Goto
  <2>2. /\ c = reqs[r].card /\ reqs[r].op = "relocate" /\ reqs[r].phase = "untag"
        /\ tags' = [tags EXCEPT ![c] = {}]
        /\ UNCHANGED <<col, crossed, torn>>
    BY <1>5, <2>0 DEF RelocateUntag, At
  <2>3. /\ reqs'[r].card = c /\ reqs'[r].op = "relocate"
        /\ reqs'[r].labels = reqs[r].labels /\ reqs'[r].project = reqs[r].project
        /\ \A q \in Requests \ {r} : reqs'[q] = reqs[q]
    BY <2>1, <2>2 DEF TypeOK, Request
  <2>4. \A d \in CardIds : tags'[d] = IF d = c THEN {} ELSE tags[d]
    BY <2>2 DEF TypeOK
  <2>5. Carried' /\ Unlabelled'
    <3>1. Carried'
      BY <2>2, <2>3 DEF LabelInv, Carried
    <3>2. Unlabelled'
      BY <2>2, <2>3 DEF LabelInv, Unlabelled
    <3> QED
      BY <3>1, <3>2
  <2>6. Retagged'
    <3> SUFFICES ASSUME NEW q \in Requests, NEW d \in CardIds, Working(q, d)',
                        reqs'[q].op = "relocate", d \notin crossed',
                        reqs'[q].phase \in {"retag", "allocate", "write"}
                 PROVE  tags'[d] \subseteq
                          IF reqs'[q].phase = "retag" THEN {} ELSE reqs'[q].labels
      BY DEF Retagged
    <3>1. CASE d = c
      BY <2>4, <3>1
    <3>2. CASE d # c
      <4>1. q # r /\ reqs'[q] = reqs[q] /\ Working(q, d)
        BY <2>3, <3>2 DEF Working, Free
      <4> QED
        BY <2>2, <2>4, <3>2, <4>1 DEF LabelInv, Retagged
    <3> QED
      BY <3>1, <3>2
  <2>7. LabelsAtHome'
    <3> SUFFICES ASSUME NEW d \in CardIds, Exists(d)', d \notin crossed' \cup torn',
                        \A q \in Requests : reqs'[q].card = d => ~Relabelled(q)'
                 PROVE  \A l \in tags'[d] : LabelProject[l] = ProjectOf(d)'
      BY DEF LabelsAtHome
    <3>1. CASE d = c
      BY <2>4, <3>1
    <3>2. CASE d # c
      <4>1. \A q \in Requests : reqs[q].card = d => ~Relabelled(q)
        BY <2>2, <2>3, <3>2 DEF Relabelled
      <4> QED
        BY <2>2, <2>4, <3>2, <4>1 DEF LabelInv, LabelsAtHome, Exists, ProjectOf
    <3> QED
      BY <3>1, <3>2
  <2> QED
    BY <2>5, <2>6, <2>7 DEF LabelInv
<1>6. ASSUME NEW r \in Requests,
           RelocateRetag(r)
      PROVE  LabelInv'
  <2>0. PICK c \in CardIds : c = reqs[r].card
    BY <1>6 DEF RelocateRetag, At, Shape
  <2>1. /\ c = reqs[r].card /\ Working(r, c)
        /\ reqs[r].op = "relocate" /\ reqs[r].phase = "retag"
        /\ reqs' = [reqs EXCEPT ![r].phase = "allocate"]
        /\ tags' = [tags EXCEPT ![c] = @ \cup reqs[r].labels]
        /\ UNCHANGED <<col, crossed, torn>>
    BY <1>6, <2>0 DEF RelocateRetag, At, Goto, Working, Free
  <2>2. /\ reqs'[r].card = c /\ reqs'[r].labels = reqs[r].labels
        /\ reqs'[r].op = "relocate" /\ reqs'[r].phase = "allocate"
        /\ reqs'[r].project = reqs[r].project
        /\ \A q \in Requests \ {r} : reqs'[q] = reqs[q]
    BY <2>1 DEF TypeOK, Request
  <2>3. c \notin crossed => /\ tags'[c] = reqs[r].labels
                            /\ \A q \in Requests : Working(q, c)' => q = r
    <3>1. c \notin crossed => \A q \in Requests : Working(q, c)' => q = r
      BY <2>1, <2>2 DEF KeyInv, Alone, Working, Free
    <3>2. c \notin crossed => tags[c] = {}
      BY <2>1 DEF LabelInv, Retagged
    <3>3. tags'[c] = tags[c] \cup reqs[r].labels
      BY <2>1 DEF TypeOK
    <3> QED
      BY <3>1, <3>2, <3>3
  <2>4. \A d \in CardIds : d # c => tags'[d] = tags[d]
    BY <2>1 DEF TypeOK
  <2>5. Carried' /\ Unlabelled'
    BY <2>1, <2>2 DEF LabelInv, Carried, Unlabelled
  <2>6. Retagged'
    <3>1. \A q \in Requests \ {r}, d \in CardIds : Working(q, d)' <=> Working(q, d)
      BY <2>2 DEF Working, Free
    <3>2. \A d \in CardIds : Working(r, d)' => d = c
      BY <2>2 DEF Working
    <3> SUFFICES ASSUME NEW q \in Requests, NEW d \in CardIds, Working(q, d)',
                        reqs'[q].op = "relocate", d \notin crossed',
                        reqs'[q].phase \in {"retag", "allocate", "write"}
                 PROVE  tags'[d] \subseteq
                          IF reqs'[q].phase = "retag" THEN {} ELSE reqs'[q].labels
      BY DEF Retagged
    <3>3. CASE q = r
      BY <3>2, <3>3, <2>1, <2>2, <2>3
    <3>4. CASE q # r
      <4>1. d # c /\ d \notin crossed
        BY <3>4, <2>1, <2>3 DEF Working, Free
      <4>2. Working(q, d) /\ reqs'[q] = reqs[q] /\ tags'[d] = tags[d]
        BY <3>1, <3>4, <4>1, <2>2, <2>4
      <4> QED
        BY <4>1, <4>2 DEF LabelInv, Retagged
    <3> QED
      BY <3>3, <3>4
  <2>7. LabelsAtHome'
    BY <2>1, <2>2, <2>3, <2>4 DEF LabelInv, LabelsAtHome, Relabelled, Exists,
       ProjectOf
  <2> QED
    BY <2>5, <2>6, <2>7 DEF LabelInv
<1>7. ASSUME NEW r \in Requests,
           RelocateWrite(r)
      PROVE  LabelInv'
  BY <1>7 DEF RelocateWrite, TypeOK, Shape, KeyInv, Target, SystemOps, Known,
     Same, Alone, LabelInv, Carried, Unlabelled, Retagged, LabelsAtHome,
     Relabelled, Working, Exists, ProjectOf, Free, Numbering, Request, Idle,
     At, End
<1>8. ASSUME NEW r \in Requests,
           AttachWrite(r)
      PROVE  LabelInv'
  <2>1. Carried'
    BY <1>8 DEF AttachWrite, TypeOK, Shape, Request, Idle, LabelInv, Carried,
       End
  <2>2. Unlabelled'
    BY <1>8 DEF AttachWrite, TypeOK, Shape, Request, Idle, LabelInv,
       Unlabelled, End
  <2>3. Retagged'
    BY <1>8 DEF AttachWrite, TypeOK, Shape, Request, Idle, LabelInv, Retagged,
       Working, Free, KeyInv, Alone, Same, At, End
  <2>4. LabelsAtHome'
    BY <1>8 DEF AttachWrite, TypeOK, Shape, Request, Idle, LabelInv,
       LabelsAtHome, Carried, Relabelled, Unlabelled, Working, Free, KeyInv,
       Same, Alone, Exists, ProjectOf, Target, SystemOps, At, End
  <2> QED
    BY <2>1, <2>2, <2>3, <2>4 DEF LabelInv
<1>9. ASSUME NEW r \in Requests,
           DeleteWrite(r)
      PROVE  LabelInv'
  BY <1>9 DEF DeleteWrite, TypeOK, Shape, KeyInv, Target, SystemOps, Known,
     Alone, LabelInv, Carried, Unlabelled, Retagged, LabelsAtHome, Relabelled,
     Working, Exists, ProjectOf, Free, Numbering, Request, Idle, Remove, End
<1>10. ASSUME NEW r \in Requests,
           Stop(r)
      PROVE  LabelInv'
  <2>1. Carried'
    BY <1>10 DEF Stop, TypeOK, Shape, Request, Idle, LabelInv, Carried, End
  <2>2. Unlabelled'
    BY <1>10 DEF Stop, TypeOK, Shape, Request, Idle, LabelInv, Unlabelled, End
  <2>3. Retagged'
    BY <1>10 DEF Stop, TypeOK, Shape, Request, Idle, LabelInv, Retagged,
       Working, Free, End
  <2>4. LabelsAtHome'
    BY <1>10 DEF Stop, TypeOK, Shape, Request, Idle, LabelInv, LabelsAtHome,
       Retagged, Relabelled, Unlabelled, Working, Free, KeyInv, Same, Alone,
       Exists, ProjectOf, Target, End
  <2> QED
    BY <2>1, <2>2, <2>3, <2>4 DEF LabelInv
<1>11. ASSUME NEW r \in Requests, NEW to \in Columns,
           CreateCheck(r, to)
      PROVE  LabelInv'
  BY <1>11 DEF CreateCheck, TypeOK, Shape, Target, SystemOps, Known, Same,
     Alone, LabelInv, Carried, Unlabelled, Retagged, LabelsAtHome, Relabelled,
     Working, Exists, ProjectOf, Free, Numbering, Request, Idle
<1>12. ASSUME NEW r \in Requests, NEW to \in Columns,
           RuleMove(r, to)
      PROVE  LabelInv'
  <2>1. Carried'
    BY <1>12 DEF RuleMove, TypeOK, Shape, Request, LabelInv, Carried
  <2>2. Unlabelled'
    BY <1>12 DEF RuleMove, TypeOK, Shape, Request, LabelInv, Unlabelled
  <2>3. Retagged'
    BY <1>12 DEF RuleMove, TypeOK, Shape, Request, LabelInv, Retagged,
       Working, Free, Same
  <2>4. LabelsAtHome'
    BY <1>12 DEF RuleMove, TypeOK, Shape, Request, LabelInv, LabelsAtHome,
       Relabelled, Free, Exists, ProjectOf
  <2> QED
    BY <2>1, <2>2, <2>3, <2>4 DEF LabelInv
<1>13. ASSUME NEW r \in Requests, NEW l \in Labels,
           RuleLabel(r, l)
      PROVE  LabelInv'
  BY <1>13 DEF RuleLabel, TypeOK, Shape, KeyInv, Target, SystemOps, Same,
     Alone, LabelInv, Carried, Unlabelled, Retagged, LabelsAtHome, Relabelled,
     Working, Exists, ProjectOf, Free, Numbering, Request
<1>14. ASSUME NEW r \in Requests, NEW c \in CardIds,
           CreateWrite(r, c)
      PROVE  LabelInv'
  <2>1. /\ reqs[r].to \in Columns /\ reqs[r].project = ColumnProject[reqs[r].to]
        /\ col' = [col EXCEPT ![c] = reqs[r].to]
        /\ tags' = [tags EXCEPT ![c] = reqs[r].labels]
        /\ crossed' = IF reqs[r].card \in crossed THEN crossed \cup {c} ELSE crossed
        /\ torn' = IF reqs[r].card \in torn THEN torn \cup {c} ELSE torn
    BY <1>14 DEF CreateWrite, Shape, Numbering, TypeOK
  <2>2. ~Exists(c) /\ \A q \in Requests : reqs[q].card # c
    BY <1>14, CardsAssumption DEF CreateWrite, KeyInv, Known
  <2>3. /\ \A q \in Requests \ {r} : reqs'[q] = reqs[q]
        /\ \/ reqs'[r] = Idle
           \/ /\ reqs'[r].phase = "rules"  /\ reqs'[r].op = "create"
              /\ reqs[r].op = "create"     /\ reqs'[r].labels = reqs[r].labels
    BY <1>14 DEF CreateWrite, End, TypeOK, Request
  <2>4. Carried' /\ Unlabelled'
    BY <2>1, <2>2, <2>3 DEF LabelInv, Carried, Unlabelled, Idle
  <2>5. \A d \in CardIds \ {c} : tags'[d] = tags[d] /\ col'[d] = col[d]
    BY <2>1 DEF TypeOK
  <2>6. \A q \in Requests, d \in CardIds :
           Working(q, d)' /\ reqs'[q].op = "relocate" =>
               q # r /\ d # c /\ Working(q, d) /\ reqs'[q] = reqs[q]
    BY <2>2, <2>3, CardsAssumption DEF Working, Free, Idle
  <2>7. Retagged'
    BY <2>1, <2>5, <2>6 DEF LabelInv, Retagged
  <2>8. c \notin crossed' \cup torn' =>
          \A l \in tags'[c] : LabelProject[l] = ProjectOf(c)'
    <3>1. tags'[c] = reqs[r].labels /\ ProjectOf(c)' = reqs[r].project
      BY <2>1 DEF TypeOK, ProjectOf
    <3>2. reqs[r].op \in {"create", "copy"}
      BY <1>14 DEF CreateWrite
    <3> QED
      BY <2>1, <3>1, <3>2 DEF LabelInv, Carried, Unlabelled
  <2>9. \A q \in Requests :
          Relabelled(q) => Relabelled(q)' /\ reqs'[q].card = reqs[q].card
    <3>1. reqs[r].op # "relocate"
      BY <1>14 DEF CreateWrite
    <3> QED
      BY <2>3, <3>1 DEF Relabelled
  <2>10. LabelsAtHome'
    BY <2>1, <2>5, <2>8, <2>9 DEF LabelInv, LabelsAtHome, Exists, ProjectOf
  <2> QED
    BY <2>4, <2>7, <2>10 DEF LabelInv
<1>15. ASSUME NEW r \in Requests, NEW c \in CardIds, NEW to \in Columns,
           CopyRead(r, c, to)
      PROVE  LabelInv'
  BY <1>15 DEF CopyRead, TypeOK, Shape, KeyInv, Target, SystemOps, Same,
     LabelInv, Carried, Unlabelled, Retagged, LabelsAtHome, Relabelled,
     Working, Exists, ProjectOf, Free, Numbering, Request, Begin, Count,
     Matching, Others
<1>16. ASSUME NEW r \in Requests, NEW c \in CardIds, NEW to \in Columns,
           UpdateRead(r, c, to)
      PROVE  LabelInv'
  BY <1>16 DEF UpdateRead, TypeOK, Shape, Target, SystemOps, Known, Same,
     Alone, LabelInv, Carried, Unlabelled, Retagged, LabelsAtHome, Relabelled,
     Working, Exists, ProjectOf, Free, Numbering, Request, Begin, MoveAllowed
<1>17. ASSUME NEW r \in Requests, NEW c \in CardIds, NEW to \in Columns,
           GithubFind(r, c, to)
      PROVE  LabelInv'
  <2>1. Carried'
    BY <1>17 DEF GithubFind, TypeOK, Shape, Request, LabelInv, Carried, Begin
  <2>2. Unlabelled'
    BY <1>17 DEF GithubFind, TypeOK, Shape, Request, LabelInv, Unlabelled,
       Begin
  <2>3. Retagged'
    BY <1>17 DEF GithubFind, TypeOK, Shape, Request, LabelInv, Retagged,
       Working, Free, Begin
  <2>4. LabelsAtHome'
    BY <1>17 DEF GithubFind, TypeOK, Shape, Request, LabelInv, LabelsAtHome,
       Relabelled, Free, Exists, ProjectOf, Begin
  <2> QED
    BY <2>1, <2>2, <2>3, <2>4 DEF LabelInv
<1>18. ASSUME NEW r \in Requests, NEW c \in CardIds, NEW to \in Columns,
           RelocateRead(r, c, to)
      PROVE  LabelInv'
  <2>1. Carried'
    BY <1>18 DEF RelocateRead, TypeOK, Shape, Request, LabelInv, Carried,
       Begin, Matching
  <2>2. Unlabelled'
    BY <1>18 DEF RelocateRead, TypeOK, Shape, Request, LabelInv, Unlabelled,
       Begin
  <2>3. Retagged'
    BY <1>18 DEF RelocateRead, TypeOK, Shape, Request, LabelInv, Retagged,
       Working, Free, Begin
  <2>4. LabelsAtHome'
    BY <1>18 DEF RelocateRead, TypeOK, Shape, Request, LabelInv, LabelsAtHome,
       Relabelled, Free, Exists, ProjectOf, Begin
  <2> QED
    BY <2>1, <2>2, <2>3, <2>4 DEF LabelInv
<1>19. ASSUME NEW r \in Requests, NEW c \in CardIds, NEW l \in Labels,
           AttachRead(r, c, l)
      PROVE  LabelInv'
  <2>1. Carried'
    BY <1>19 DEF AttachRead, TypeOK, Shape, Request, LabelInv, Carried, Begin
  <2>2. Unlabelled'
    BY <1>19 DEF AttachRead, TypeOK, Shape, Request, LabelInv, Unlabelled,
       Begin
  <2>3. Retagged'
    BY <1>19 DEF AttachRead, TypeOK, Shape, Request, LabelInv, Retagged,
       Working, Free, Begin
  <2>4. LabelsAtHome'
    BY <1>19 DEF AttachRead, TypeOK, Shape, Request, LabelInv, LabelsAtHome,
       Relabelled, Free, Exists, ProjectOf, Begin
  <2> QED
    BY <2>1, <2>2, <2>3, <2>4 DEF LabelInv
<1>20. ASSUME NEW r \in Requests, NEW c \in CardIds, NEW p \in Projects,
           DeleteRead(r, c, p)
      PROVE  LabelInv'
  <2>1. Carried'
    BY <1>20 DEF DeleteRead, TypeOK, Shape, Request, LabelInv, Carried, Begin
  <2>2. Unlabelled'
    BY <1>20 DEF DeleteRead, TypeOK, Shape, Request, LabelInv, Unlabelled,
       Begin
  <2>3. Retagged'
    BY <1>20 DEF DeleteRead, TypeOK, Shape, Request, LabelInv, Retagged,
       Working, Free, Begin
  <2>4. LabelsAtHome'
    BY <1>20 DEF DeleteRead, TypeOK, Shape, Request, LabelInv, LabelsAtHome,
       Relabelled, Free, Exists, ProjectOf, Begin
  <2> QED
    BY <2>1, <2>2, <2>3, <2>4 DEF LabelInv
<1>21. ASSUME NEW S \in Blocks, NEW k \in Columns, NEW f \in Orders(S),
           NEW lab \in Labellings(S, ColumnProject[k]),
           ImportCards(S, k, f, lab)
      PROVE  LabelInv'
  <2>1. /\ S \subseteq CardIds /\ reqs' = reqs
        /\ crossed' = crossed /\ torn' = torn
        /\ \A c \in S : Fresh(c)
        /\ \A c \in CardIds :
             /\ col'[c] = IF c \in S THEN k ELSE col[c]
             /\ tags'[c] = IF c \in S THEN lab[c] ELSE tags[c]
    BY <1>21 DEF ImportCards, Blocks
  <2>2. \A c \in S : \A l \in lab[c] : LabelProject[l] = ColumnProject[k]
    BY DEF Labellings
  <2>3. \A r \in Requests, c \in S : reqs[r].card # c
    BY <2>1 DEF KeyInv, Known
  <2>4. Carried' /\ Unlabelled'
    BY <2>1 DEF LabelInv, Carried, Unlabelled
  <2>5. Retagged'
    BY <2>1, <2>3 DEF LabelInv, Retagged, Working, Free
  <2>6. LabelsAtHome'
    BY <2>1, <2>2 DEF LabelInv, LabelsAtHome, Relabelled, Exists, ProjectOf
  <2> QED
    BY <2>4, <2>5, <2>6 DEF LabelInv
<1>22. ASSUME NEW c \in CardIds, NEW l \in Labels,
           Detach(c, l)
      PROVE  LabelInv'
  BY <1>22 DEF Detach, TypeOK, Shape, LabelInv, Carried, Unlabelled, Retagged,
     LabelsAtHome, Relabelled, Working, Exists, ProjectOf, Free, Numbering,
     Request
<1>23. ASSUME NEW k \in Columns,
           DeleteColumn(k)
      PROVE  LabelInv'
  BY <1>23 DEF DeleteColumn, TypeOK, Shape, LabelInv, Carried, Unlabelled,
     Retagged, LabelsAtHome, Relabelled, Working, Exists, ProjectOf, Free,
     Numbering, Request, Remove
<1>24. CASE UNCHANGED vars
  BY <1>24 DEF vars, TypeOK, Shape, KeyInv, Target, SystemOps, Known, Same,
     Alone, LabelInv, Carried, Unlabelled, Retagged, LabelsAtHome,
     Relabelled, Working, Exists, ProjectOf, Free, Numbering, Request, Idle
<1> QED
  BY <1>1, <1>2, <1>3, <1>4, <1>5, <1>6, <1>7, <1>8, <1>9, <1>10, <1>11,
     <1>12, <1>13, <1>14, <1>15, <1>16, <1>17, <1>18, <1>19, <1>20, <1>21,
     <1>22,
     <1>23, <1>24
     DEF Next

----------------------------------------------------------------------------
(* Steps.                                                                  *)

\* What a step may do to the key of card c.
KeyKept(c) ==
    Exists(c) /\ Exists(c)' /\ c \notin crossed =>
        IF ProjectOf(c)' = ProjectOf(c)
        THEN num'[c] = num[c]
        ELSE Key(ProjectOf(c)', num'[c], c) \notin held

\* A step that changes a card's project gives it a new key, any other leaves its
\* number alone.
LEMMA KeyKeptStep ==
  ASSUME TypeOK, Shape, NumberInv, KeyInv, [Next]_vars, NEW c \in CardIds
  PROVE  KeyKept(c)
<1> USE CardsAssumption
<1>1. CASE UNCHANGED <<col, num>>
  BY <1>1 DEF KeyKept, Exists, ProjectOf
<1>2. ASSUME NEW r \in Requests, MoveWrite(r) \/ SystemWrite(r)
      PROVE  KeyKept(c)
  <2>1. /\ reqs[r].card \in CardIds /\ reqs[r].to \in Columns
        /\ ColumnProject[reqs[r].to] = reqs[r].project
    BY <1>2 DEF MoveWrite, SystemWrite, Shape, KeyInv, Target
  <2>2. Working(r, reqs[r].card) /\ reqs[r].op \notin {"copy", "relocate"}
    BY <1>2 DEF MoveWrite, SystemWrite, KeyInv, SystemOps, Working, Free
  <2>3. col' = [col EXCEPT ![reqs[r].card] = reqs[r].to] /\ num' = num
    BY <1>2 DEF MoveWrite, SystemWrite
  <2>4. Exists(c) /\ c \notin crossed => ProjectOf(c)' = ProjectOf(c)
    BY <2>1, <2>2, <2>3 DEF TypeOK, KeyInv, Same, Exists, ProjectOf
  <2> QED
    BY <2>3, <2>4 DEF KeyKept
<1>3. ASSUME NEW r \in Requests, RelocateWrite(r)
      PROVE  KeyKept(c)
  <2>1. CASE c # reqs[r].card
    BY <1>3, <2>1 DEF RelocateWrite, KeyKept, Exists, ProjectOf, TypeOK
  <2>2. CASE c = reqs[r].card
    <3>1. /\ Working(r, c) /\ reqs[r].op = "relocate"
          /\ reqs[r].to \in Columns /\ reqs[r].project = ColumnProject[reqs[r].to]
      BY <1>3, <2>2 DEF RelocateWrite, At, Working, Free, Shape, Numbering
    <3>2. ProjectOf(c)' = reqs[r].project /\ num'[c] = reqs[r].number
      BY <1>3, <2>2, <3>1 DEF RelocateWrite, ProjectOf, TypeOK
    <3>3. Exists(c) /\ c \notin crossed => ProjectOf(c)' # ProjectOf(c)
      BY <3>1, <3>2 DEF KeyInv, Leaves
    <3>4. Key(reqs[r].project, reqs[r].number, c) \notin held
      BY <1>3 DEF RelocateWrite, At, NumberInv, PendingUnheld, Pending,
         Numbering, Key
    <3> QED
      BY <3>2, <3>3, <3>4 DEF KeyKept
  <2> QED
    BY <2>1, <2>2
<1>4. ASSUME NEW r \in Requests, NEW d \in CardIds, CreateWrite(r, d)
      PROVE  KeyKept(c)
  BY <1>4 DEF CreateWrite, KeyInv, Known, KeyKept, Exists, ProjectOf, TypeOK
<1>5. ASSUME NEW S \in Blocks, NEW k \in Columns, NEW f \in Orders(S),
            NEW lab \in Labellings(S, ColumnProject[k]), ImportCards(S, k, f, lab)
      PROVE  KeyKept(c)
  BY <1>5 DEF ImportCards, KeyInv, Known, KeyKept, Exists, ProjectOf, TypeOK
<1>6. ASSUME NEW S, Remove(S)
      PROVE  KeyKept(c)
  BY <1>6 DEF Remove, KeyKept, Exists, ProjectOf
<1>7. ASSUME NEW r \in Requests, DeleteWrite(r)
      PROVE  KeyKept(c)
  BY <1>6, <1>7 DEF DeleteWrite
<1>8. ASSUME NEW k \in Columns, DeleteColumn(k)
      PROVE  KeyKept(c)
  BY <1>6, <1>8 DEF DeleteColumn
<1>9. ASSUME NEW r \in Requests,
             \/ AllocateNumber(r) \/ SystemCheck(r) \/ RelocateUntag(r)
             \/ RelocateRetag(r) \/ AttachWrite(r) \/ Stop(r)
             \/ \E to \in Columns : CreateCheck(r, to) \/ RuleMove(r, to)
             \/ \E l \in Labels : RuleLabel(r, l)
      PROVE  UNCHANGED <<col, num>>
  BY <1>9 DEF AllocateNumber, SystemCheck, RelocateUntag, RelocateRetag,
     AttachWrite, Stop, CreateCheck, RuleMove, RuleLabel
<1>10. ASSUME NEW r \in Requests, NEW d \in CardIds,
              \/ \E to \in Columns : \/ CopyRead(r, d, to) \/ UpdateRead(r, d, to)
                                    \/ GithubFind(r, d, to) \/ RelocateRead(r, d, to)
              \/ \E l \in Labels : AttachRead(r, d, l)
              \/ \E p \in Projects : DeleteRead(r, d, p)
       PROVE  UNCHANGED <<col, num>>
  BY <1>10 DEF CopyRead, UpdateRead, GithubFind, RelocateRead, AttachRead,
     DeleteRead
<1>11. ASSUME NEW d \in CardIds, NEW l \in Labels, Detach(d, l)
       PROVE  UNCHANGED <<col, num>>
  BY <1>11 DEF Detach
<1> QED
  BY <1>1, <1>2, <1>3, <1>4, <1>5, <1>7, <1>8, <1>9, <1>10, <1>11 DEF Next,
     vars

\* A delete request that is about to write works in the project of its card.
LEMMA DeleteStep ==
  ASSUME TypeOK, Shape, KeyInv, [Next]_vars,
         NEW r \in Requests, NEW c \in CardIds,
         At(r, "delete", "write"), reqs[r].card = c, reqs'[r] = Idle,
         Exists(c), c \notin crossed
  PROVE  ProjectOf(c) = reqs[r].project
BY DEF At, KeyInv, Same, Working, Free

\* The inductive invariant of the specification.
Inv == TypeOK /\ Shape /\ NumberInv /\ KeyInv /\ LabelInv

\* It holds at the start.
LEMMA InitInv == Init => Inv
<1> SUFFICES ASSUME Init PROVE Inv
  OBVIOUS
<1> USE CardsAssumption DEF Init, Idle
<1>1. TypeOK /\ Shape
  BY DEF TypeOK, Shape, Exists, Request, Phases, Ops, Numbering
<1>2. NumberInv
  BY DEF NumberInv, HeldBelow, PendingBelow, PendingUnheld, PendingDistinct,
     NumbersNeverReused, Pending
<1>3. KeyInv
  BY DEF KeyInv, Known, Target, SystemOps, Same, Alone, Leaves, KeysIssued,
     Free, Exists
<1>4. LabelInv
  BY DEF LabelInv, Carried, Unlabelled, Retagged, LabelsAtHome, Free, Exists
<1> QED
  BY <1>1, <1>2, <1>3, <1>4 DEF Inv

\* It holds in every reachable state.
THEOREM Invariance == Spec => []Inv
<1>1. Inv /\ [Next]_vars => Inv'
  BY TypeStep, ShapeStep, NumberStep, KeyStep, LabelStep DEF Inv
<1> QED
  BY <1>1, InitInv, PTL DEF Spec

\* Types, and no card in a column that has been deleted.
THEOREM TypeCorrect == Spec => []TypeOK
<1>1. Inv => TypeOK
  BY DEF Inv
<1> QED
  BY <1>1, Invariance, PTL

\* card-key.service: a number is never given to a second card of a project.
THEOREM NumbersCorrect == Spec => []NumbersNeverReused
<1>1. Inv => NumbersNeverReused
  BY DEF Inv, NumberInv
<1> QED
  BY <1>1, Invariance, PTL

\* Every card that no relocation crossed shows a key that was given to it.
THEOREM KeysCorrect == Spec => []KeysIssued
<1>1. Inv => KeysIssued
  BY DEF Inv, KeyInv
<1> QED
  BY <1>1, Invariance, PTL

\* A card at rest, neither crossed nor torn, bears labels of its project only.
THEOREM LabelsCorrect == Spec => []LabelsAtHome
<1>1. Inv => LabelsAtHome
  BY DEF Inv, LabelInv
<1> QED
  BY <1>1, Invariance, PTL

\* No step changes the number of a card that stays in its project; a card that
\* changes project takes a key it never had.
THEOREM KeyPermanentCorrect == Spec => KeyPermanent
<1>1. Inv /\ [Next]_vars => [\A c \in CardIds :
        Exists(c) /\ Exists(c)' /\ c \notin crossed =>
            IF ProjectOf(c)' = ProjectOf(c)
            THEN num'[c] = num[c]
            ELSE Key(ProjectOf(c)', num'[c], c) \notin held]_vars
  BY KeyKeptStep DEF Inv, KeyKept
<1> QED
  BY <1>1, Invariance, PTL DEF Spec, KeyPermanent

\* A delete request takes a card only from the project it was checked for.
THEOREM DeletesCorrect == Spec => DeletesWhereChecked
<1>1. Inv /\ [Next]_vars => [\A r \in Requests, c \in CardIds :
        /\ At(r, "delete", "write") /\ reqs[r].card = c /\ reqs'[r] = Idle
        /\ Exists(c) /\ ~Exists(c)' /\ c \notin crossed
        => ProjectOf(c) = reqs[r].project]_vars
  BY DeleteStep DEF Inv
<1> QED
  BY <1>1, Invariance, PTL DEF Spec, DeletesWhereChecked
=============================================================================
