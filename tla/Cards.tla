------------------------------- MODULE Cards -------------------------------
(***************************************************************************)
(* The life of a card: how it is created, copied, moved inside its         *)
(* project, relocated to another project, labelled, imported and deleted,  *)
(* and how it gets the number that, after the project's key, is its name   *)
(* ("QNT-42").                                                             *)
(*                                                                         *)
(* A service call is a chain of awaited queries with no transaction around *)
(* them, so a request here is a record with a phase: it has made its       *)
(* checks on what it read, and the write is still to come.  Steps of other *)
(* requests fall in between.  Queries whose answer cannot change (the      *)
(* project of a column, the project and name of a label) are taken         *)
(* together with the read before them.                                     *)
(***************************************************************************)
EXTENDS Naturals, FiniteSets

CONSTANTS
    Projects,       \* projects of one organisation
    Columns,        \* column ids
    ColumnProject,  \* the project of a column; Column.projectId never changes
    Labels,         \* label ids; each belongs to one project
    LabelProject,   \* the project of a label
    LabelName,      \* its name, up to case
    CardIds,        \* ids the database can give to new cards
    Requests,       \* requests in flight at once
    None,           \* no card, no column, no project
    MaxNumber,      \* bound: card numbers given out per project
    MaxRequests,    \* bound: requests begun
    ImportSize      \* bound: cards in one import

ASSUME CardsAssumption ==
    /\ ColumnProject \in [Columns -> Projects]
    /\ LabelProject \in [Labels -> Projects]
    /\ None \notin Columns \cup CardIds \cup Projects
    /\ MaxNumber \in Nat
    /\ MaxRequests \in Nat
    /\ IsFiniteSet(CardIds)
    /\ ImportSize \in Nat

VARIABLES
    columns,  \* the columns that exist
    col,      \* Card.columnId
    num,      \* Card.number
    tags,     \* CardLabel rows, by card
    counter,  \* Project.cardCounter
    reqs,     \* the requests in flight
    begun,    \* how many requests have begun, for the bound alone
    held,     \* history: [project, number, card] of every number ever given
    crossed,  \* history: cards relocated while another request was on them
    torn      \* history: cards whose relocation stopped after relabelling

vars == <<columns, col, num, tags, counter, reqs, begun, held, crossed, torn>>

----------------------------------------------------------------------------
(* Rows and reads.                                                         *)

Exists(c) == col[c] # None
ProjectOf(c) == ColumnProject[col[c]]
Fresh(c) == \A h \in held : h.card # c
Key(p, n, c) == [project |-> p, number |-> n, card |-> c]

Ops == {"create", "copy", "edit", "move", "relocate", "system", "delete", "attach"}
Phases == {"idle", "untag", "retag", "allocate", "write", "rules", "system", "place"}

Idle == [phase |-> "idle", op |-> "create", card |-> None, to |-> None,
         project |-> None, number |-> 0, labels |-> {}]

Request == [phase: Phases, op: Ops, card: CardIds \cup {None},
            to: Columns \cup {None},
            project: Projects \cup {None},
            number: Nat, labels: SUBSET Labels]

Free(r) == reqs[r].phase = "idle"
At(r, op, phase) == reqs[r].op = op /\ reqs[r].phase = phase

\* Request r goes on to another phase, or is over.
Goto(r, phase) == reqs' = [reqs EXCEPT ![r].phase = phase]
End(r) == reqs' = [reqs EXCEPT ![r] = Idle]

Count == begun < MaxRequests /\ begun' = begun + 1

\* Request r, which has just read card c, works on it from now on.  History:
\* the card is crossed when one of two requests on it is a relocation.
Others(r, c) == {q \in Requests \ {r} : ~Free(q) /\ reqs[q].card = c}
Begin(r, c, op, phase, to, p, labels) ==
    /\ Free(r)
    /\ Count
    /\ reqs' = [reqs EXCEPT ![r] =
            [phase |-> phase, op |-> op, card |-> c, to |-> to,
             project |-> p, number |-> 0, labels |-> labels]]
    /\ crossed' = IF \/ \E q \in Others(r, c) : reqs[q].op = "relocate"
                     \/ op = "relocate" /\ Others(r, c) # {}
                  THEN crossed \cup {c} ELSE crossed

----------------------------------------------------------------------------
(* Card numbers.                                                           *)

\* A number computed from the cards on the board, as SELECT max + 1 would.
MutantNextNumber(p) ==
    LET onBoard == {num[c] : c \in {d \in CardIds : Exists(d) /\ ProjectOf(d) = p}}
    IN IF onBoard = {} THEN 1
       ELSE 1 + CHOOSE n \in onBoard : \A m \in onBoard : m <= n

NextNumber(p) == counter[p] + 1

\* UPDATE ... SET cardCounter = cardCounter + 1 RETURNING, committed at once:
\* the number is spent even when the card is never written.
AllocateNumber(r) ==
    /\ reqs[r].phase = "allocate"
    /\ LET p == reqs[r].project
       IN /\ counter[p] < MaxNumber
          /\ counter' = [counter EXCEPT ![p] = @ + 1]
          /\ reqs' = [reqs EXCEPT ![r].number = NextNumber(p),
                                  ![r].phase = "write"]
    /\ UNCHANGED <<columns, col, num, tags, held, crossed, torn, begun>>

----------------------------------------------------------------------------
(* Creating and copying.                                                   *)

\* createCard up to the number: the column exists, its project is the card's.
\* The automation that creates cards on a schedule asks the same.
CreateCheck(r, to) ==
    /\ Free(r)
    /\ to \in columns
    /\ Count
    /\ reqs' = [reqs EXCEPT ![r] = [Idle EXCEPT
            !.phase = "allocate", !.op = "create", !.to = to,
            !.project = ColumnProject[to]]]
    /\ UNCHANGED <<columns, col, num, tags, counter, held, crossed, torn>>

\* Labels of project p that bear the name of a label of S.
MutantMatching(S, p) == S

Matching(S, p) ==
    {l \in Labels : LabelProject[l] = p /\ \E k \in S : LabelName[k] = LabelName[l]}

\* duplicateCard up to the number: the labels come along by id inside the
\* project, by name into another one.
CopyRead(r, c, to) ==
    /\ Exists(c)
    /\ to \in columns
    /\ LET p == ColumnProject[to]
       IN Begin(r, c, "copy", "allocate", to, p,
                IF p = ProjectOf(c) THEN tags[c] ELSE Matching(tags[c], p))
    /\ UNCHANGED <<columns, col, num, tags, counter, held, torn>>

\* The row of the new card, in one statement with its labels.  The insert
\* fails when the column is gone.  createCard then runs the project's
\* automation rules, duplicateCard does not.  History: a copy of a crossed or
\* torn card counts as one.
CreateWrite(r, c) ==
    /\ reqs[r].op \in {"create", "copy"}
    /\ reqs[r].phase = "write"
    /\ reqs[r].to \in columns
    /\ Fresh(c)
    /\ col' = [col EXCEPT ![c] = reqs[r].to]
    /\ num' = [num EXCEPT ![c] = reqs[r].number]
    /\ tags' = [tags EXCEPT ![c] = reqs[r].labels]
    /\ held' = held \cup {Key(reqs[r].project, reqs[r].number, c)}
    /\ IF reqs[r].op = "create"
       THEN reqs' = [reqs EXCEPT ![r].phase = "rules", ![r].card = c,
                                 ![r].number = 0]
       ELSE End(r)
    /\ crossed' = IF reqs[r].card \in crossed THEN crossed \cup {c} ELSE crossed
    /\ torn' = IF reqs[r].card \in torn THEN torn \cup {c} ELSE torn
    /\ UNCHANGED <<columns, counter, begun>>

\* applyImport: one transaction takes a block of numbers, inserts the cards,
\* reads them back by project and number, and labels them with labels of the
\* project; it rolls back unless it finds exactly as many cards as it wrote.
ImportCards(S, place, order, labels) ==
    LET p == ColumnProject[place]
        number(c) == counter[p] + order[c]
        inBlock == {d \in CardIds : /\ Exists(d)
                                    /\ ProjectOf(d) = p
                                    /\ num[d] > counter[p]
                                    /\ num[d] <= counter[p] + Cardinality(S)}
    IN /\ Count
       /\ place \in columns
       /\ \A c \in S : Fresh(c)
       /\ counter[p] + Cardinality(S) <= MaxNumber
       /\ inBlock = {}
       /\ counter' = [counter EXCEPT ![p] = @ + Cardinality(S)]
       /\ col' = [c \in CardIds |-> IF c \in S THEN place ELSE col[c]]
       /\ num' = [c \in CardIds |-> IF c \in S THEN number(c) ELSE num[c]]
       /\ tags' = [c \in CardIds |-> IF c \in S THEN labels[c] ELSE tags[c]]
       /\ held' = held \cup {Key(p, number(c), c) : c \in S}
       /\ UNCHANGED <<columns, reqs, crossed, torn>>

----------------------------------------------------------------------------
(* Moving inside the project.                                              *)

MutantMoveAllowed(c, to) == TRUE

\* updateCard refuses a column of another project.
MoveAllowed(c, to) == ColumnProject[to] = ProjectOf(c)

\* updateCard: the card and both columns are read and compared.  The column
\* sent may be the one the card is in: it is written back all the same.
UpdateRead(r, c, to) ==
    /\ Exists(c)
    /\ to \in columns
    /\ MoveAllowed(c, to)
    /\ Begin(r, c, IF to = col[c] THEN "edit" ELSE "move", "write", to,
             ProjectOf(c), {})
    /\ UNCHANGED <<columns, col, num, tags, counter, held, torn>>

\* The write of updateCard carries the column read before, and no number.  A
\* move to another column runs the automation rules of the project.
MutantMoveWrite(r) ==
    /\ reqs[r].op \in {"edit", "move"} /\ reqs[r].phase = "write"
    /\ Exists(reqs[r].card)
    /\ col' = [col EXCEPT ![reqs[r].card] = reqs[r].to]
    /\ IF reqs[r].op = "move" THEN Goto(r, "rules") ELSE End(r)
    /\ UNCHANGED <<columns, num, tags, counter, held, crossed, torn, begun>>

MoveWrite(r) ==
    /\ reqs[r].op \in {"edit", "move"} /\ reqs[r].phase = "write"
    /\ Exists(reqs[r].card)
    /\ reqs[r].to \in columns
    /\ col' = [col EXCEPT ![reqs[r].card] = reqs[r].to]
    /\ IF reqs[r].op = "move" THEN Goto(r, "rules") ELSE End(r)
    /\ UNCHANGED <<columns, num, tags, counter, held, crossed, torn, begun>>

\* A GitHub event names a card by its key: the card is looked up in the project
\* of the repository link, and handed to sistemKartTasi with that project.
GithubFind(r, c, to) ==
    /\ Exists(c)
    /\ Begin(r, c, "system", "system", to, ProjectOf(c), {})
    /\ UNCHANGED <<columns, col, num, tags, counter, held, torn>>

\* sistemKartTasi, the checks: the column must be of the project it was called
\* with, the card must exist and not be there already.
SystemAllowed(r, to) ==
    /\ to \in columns
    /\ ColumnProject[to] = reqs[r].project
    /\ Exists(reqs[r].card)
    /\ col[reqs[r].card] # to

SystemCheck(r) ==
    /\ reqs[r].phase = "system"
    /\ SystemAllowed(r, reqs[r].to)
    /\ Goto(r, "place")
    /\ UNCHANGED <<columns, col, num, tags, counter, held, crossed, torn, begun>>

\* runRulesForTrigger, action MOVE_TO_COLUMN: sistemKartTasi with the project of
\* the rule, which is the project of the request.
RuleMove(r, to) ==
    /\ reqs[r].phase = "rules"
    /\ SystemAllowed(r, to)
    /\ reqs' = [reqs EXCEPT ![r].phase = "place", ![r].to = to]
    /\ UNCHANGED <<columns, col, num, tags, counter, held, crossed, torn, begun>>

\* sistemKartTasi, the write.  It starts no rules of its own; the rules left in
\* the list of a caller that is running rules still run.
SystemWrite(r) ==
    /\ reqs[r].phase = "place"
    /\ Exists(reqs[r].card)
    /\ reqs[r].to \in columns
    /\ col' = [col EXCEPT ![reqs[r].card] = reqs[r].to]
    /\ IF reqs[r].op = "system" THEN End(r) ELSE Goto(r, "rules")
    /\ UNCHANGED <<columns, num, tags, counter, held, crossed, torn, begun>>

\* Action ADD_LABEL: only a label of the rule's project, and never twice.
RuleLabel(r, l) ==
    /\ reqs[r].phase = "rules"
    /\ LabelProject[l] = reqs[r].project
    /\ Exists(reqs[r].card)
    /\ tags' = [tags EXCEPT ![reqs[r].card] = @ \cup {l}]
    /\ UNCHANGED <<columns, col, num, counter, reqs, begun, held, crossed, torn>>

----------------------------------------------------------------------------
(* Relocating to another project: labels, number, row, one after another.  *)

MutantLeavesProject(c, to) == TRUE

\* moveCardToProject refuses a column of the project the card is in.
LeavesProject(c, to) == ColumnProject[to] # ProjectOf(c)

RelocateRead(r, c, to) ==
    /\ Exists(c)
    /\ to \in columns
    /\ LeavesProject(c, to)
    /\ Begin(r, c, "relocate", IF tags[c] = {} THEN "allocate" ELSE "untag",
             to, ColumnProject[to], Matching(tags[c], ColumnProject[to]))
    /\ UNCHANGED <<columns, col, num, tags, counter, held, torn>>

\* cardLabel.deleteMany.
RelocateUntag(r) ==
    /\ At(r, "relocate", "untag")
    /\ tags' = [tags EXCEPT ![reqs[r].card] = {}]
    /\ Goto(r, IF reqs[r].labels = {} THEN "allocate" ELSE "retag")
    /\ UNCHANGED <<columns, col, num, counter, held, crossed, torn, begun>>

\* cardLabel.createMany: it fails on a row that is there already.
RelocateRetag(r) ==
    /\ At(r, "relocate", "retag")
    /\ Exists(reqs[r].card)
    /\ reqs[r].labels \cap tags[reqs[r].card] = {}
    /\ tags' = [tags EXCEPT ![reqs[r].card] = @ \cup reqs[r].labels]
    /\ Goto(r, "allocate")
    /\ UNCHANGED <<columns, col, num, counter, held, crossed, torn, begun>>

RelocateWrite(r) ==
    /\ At(r, "relocate", "write")
    /\ LET c == reqs[r].card
       IN /\ Exists(c)
          /\ reqs[r].to \in columns
          /\ col' = [col EXCEPT ![c] = reqs[r].to]
          /\ num' = [num EXCEPT ![c] = reqs[r].number]
          /\ held' = held \cup {Key(reqs[r].project, reqs[r].number, c)}
    /\ End(r)
    /\ UNCHANGED <<columns, tags, counter, crossed, torn, begun>>

----------------------------------------------------------------------------
(* Labels.                                                                 *)

\* attachLabelToCard: the label is looked up in the project of the card.
AttachRead(r, c, l) ==
    /\ Exists(c)
    /\ LabelProject[l] = ProjectOf(c)
    /\ l \notin tags[c]
    /\ Begin(r, c, "attach", "write", None, ProjectOf(c), {l})
    /\ UNCHANGED <<columns, col, num, tags, counter, held, torn>>

AttachWrite(r) ==
    /\ At(r, "attach", "write")
    /\ Exists(reqs[r].card)
    /\ reqs[r].labels \cap tags[reqs[r].card] = {}
    /\ tags' = [tags EXCEPT ![reqs[r].card] = @ \cup reqs[r].labels]
    /\ End(r)
    /\ UNCHANGED <<columns, col, num, counter, held, crossed, torn, begun>>

\* removeLabelFromCard: nothing read before the delete matters to it.
Detach(c, l) ==
    /\ Count
    /\ l \in tags[c]
    /\ tags' = [tags EXCEPT ![c] = @ \ {l}]
    /\ UNCHANGED <<columns, col, num, counter, reqs, held, crossed, torn>>

----------------------------------------------------------------------------
(* Deleting.                                                               *)

\* The rows of the cards of S go, and by cascade all that hangs on them.
Remove(S) ==
    /\ col' = [c \in CardIds |-> IF c \in S THEN None ELSE col[c]]
    /\ num' = [c \in CardIds |-> IF c \in S THEN 0 ELSE num[c]]
    /\ tags' = [c \in CardIds |-> IF c \in S THEN {} ELSE tags[c]]

\* deleteCard checks the project of the card; the bulk action keeps, of the
\* cards it is given, those of the project it is called for.
MutantInProject(c, p) == TRUE

InProject(c, p) == ProjectOf(c) = p

DeleteRead(r, c, p) ==
    /\ Exists(c)
    /\ InProject(c, p)
    /\ Begin(r, c, "delete", "write", None, p, {})
    /\ UNCHANGED <<columns, col, num, tags, counter, held, torn>>

\* The delete itself names the card only, not the project.
DeleteWrite(r) ==
    /\ At(r, "delete", "write")
    /\ Exists(reqs[r].card)
    /\ Remove({reqs[r].card})
    /\ End(r)
    /\ UNCHANGED <<columns, counter, held, crossed, torn, begun>>

\* deleteColumn: the cards of the column go with it.
DeleteColumn(k) ==
    /\ Count
    /\ k \in columns
    /\ columns' = columns \ {k}
    /\ Remove({c \in CardIds : col[c] = k})
    /\ UNCHANGED <<counter, reqs, held, crossed, torn>>

----------------------------------------------------------------------------
(* A request ends early: a check refuses it, a write finds its row or       *)
(* column gone, the connection drops, the server restarts; or the rules    *)
(* are done.  What it has written so far stays.  History: a relocation cut *)
(* off after the new labels were written leaves the card torn.             *)
Relabelled(r) ==
    /\ reqs[r].op = "relocate"
    /\ reqs[r].phase \in {"allocate", "write"}
    /\ reqs[r].labels # {}

Stop(r) ==
    /\ ~Free(r)
    /\ End(r)
    /\ torn' = IF Relabelled(r) THEN torn \cup {reqs[r].card} ELSE torn
    /\ UNCHANGED <<columns, col, num, tags, counter, held, crossed, begun>>

----------------------------------------------------------------------------
Init ==
    /\ columns = Columns
    /\ col = [c \in CardIds |-> None]
    /\ num = [c \in CardIds |-> 0]
    /\ tags = [c \in CardIds |-> {}]
    /\ counter = [p \in Projects |-> 0]
    /\ reqs = [r \in Requests |-> Idle]
    /\ begun = 0
    /\ held = {}
    /\ crossed = {}
    /\ torn = {}

Blocks == {S \in SUBSET CardIds : S # {} /\ Cardinality(S) <= ImportSize}
Orders(S) == {f \in [S -> 1 .. Cardinality(S)] :
                \A c, d \in S : f[c] = f[d] => c = d}
Labellings(S, p) == [S -> SUBSET {l \in Labels : LabelProject[l] = p}]

Next ==
    \/ \E r \in Requests :
        \/ AllocateNumber(r)
        \/ MoveWrite(r)
        \/ SystemCheck(r)
        \/ SystemWrite(r)
        \/ RelocateUntag(r)
        \/ RelocateRetag(r)
        \/ RelocateWrite(r)
        \/ AttachWrite(r)
        \/ DeleteWrite(r)
        \/ Stop(r)
        \/ \E to \in Columns : CreateCheck(r, to) \/ RuleMove(r, to)
        \/ \E l \in Labels : RuleLabel(r, l)
        \/ \E c \in CardIds :
            \/ CreateWrite(r, c)
            \/ \E to \in Columns :
                \/ CopyRead(r, c, to)
                \/ UpdateRead(r, c, to)
                \/ GithubFind(r, c, to)
                \/ RelocateRead(r, c, to)
            \/ \E l \in Labels : AttachRead(r, c, l)
            \/ \E p \in Projects : DeleteRead(r, c, p)
    \/ \E S \in Blocks, k \in Columns :
        \E f \in Orders(S), g \in Labellings(S, ColumnProject[k]) :
            ImportCards(S, k, f, g)
    \/ \E c \in CardIds, l \in Labels : Detach(c, l)
    \/ \E k \in Columns : DeleteColumn(k)

Spec == Init /\ [][Next]_vars

----------------------------------------------------------------------------
(* Properties.                                                             *)

\* Types, and referential integrity: a card sits in a column that exists, and
\* nothing is left of a deleted card.
TypeOK ==
    /\ columns \subseteq Columns
    /\ col \in [CardIds -> columns \cup {None}]
    /\ num \in [CardIds -> Nat]
    /\ tags \in [CardIds -> SUBSET Labels]
    /\ counter \in [Projects -> Nat]
    /\ reqs \in [Requests -> Request]
    /\ begun \in Nat
    /\ held \subseteq [project: Projects, number: Nat, card: CardIds]
    /\ crossed \subseteq CardIds
    /\ torn \subseteq CardIds
    /\ \A c \in CardIds : ~Exists(c) => num[c] = 0 /\ tags[c] = {}

\* card-key.service: a number is never given out twice in a project, neither
\* to two cards at once nor again after the first card is deleted or has left.
NumbersNeverReused ==
    \A h, k \in held :
        h.project = k.project /\ h.number = k.number => h.card = k.card

\* The key a card shows was given to that card, unless a relocation of the card
\* ran while another request was on it.
KeysIssued ==
    \A c \in CardIds :
        Exists(c) /\ c \notin crossed => Key(ProjectOf(c), num[c], c) \in held

\* A card carries labels of its own project only, unless a relocation crossed
\* another request, or is between relabelling and moving the card, or was cut
\* off there.
LabelsAtHome ==
    \A c \in CardIds :
        /\ Exists(c)
        /\ c \notin crossed \cup torn
        /\ \A r \in Requests : reqs[r].card = c => ~Relabelled(r)
        => \A l \in tags[c] : LabelProject[l] = ProjectOf(c)

\* card-key.service: a key is permanent.  A card that stays in its project
\* keeps its number; one that leaves it takes a key it never had before.
KeyPermanent ==
    [][\A c \in CardIds :
        Exists(c) /\ Exists(c)' /\ c \notin crossed =>
            IF ProjectOf(c)' = ProjectOf(c)
            THEN num'[c] = num[c]
            ELSE Key(ProjectOf(c)', num'[c], c) \notin held]_vars

\* A delete removes a card only from the project the request was checked for.
DeletesWhereChecked ==
    [][\A r \in Requests, c \in CardIds :
        /\ At(r, "delete", "write") /\ reqs[r].card = c /\ reqs'[r] = Idle
        /\ Exists(c) /\ ~Exists(c)' /\ c \notin crossed
        => ProjectOf(c) = reqs[r].project]_vars

\* schema.prisma: within a project a number names one card.
UniqueKeys ==
    \A c, d \in CardIds :
        Exists(c) /\ Exists(d) /\ ProjectOf(c) = ProjectOf(d) /\ num[c] = num[d]
        => c = d
=============================================================================
