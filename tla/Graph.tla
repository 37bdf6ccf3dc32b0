------------------------------- MODULE Graph -------------------------------
(***************************************************************************)
(* What ties cards to each other and to their project: dependencies, parent *)
(* cards and values of the fields of a project.  A link is checked query by *)
(* query, while other requests write, and is written after the last query;  *)
(* a relocation takes the card to another project meanwhile.                *)
(***************************************************************************)
EXTENDS Naturals, FiniteSets

CONSTANTS
    Tasks,          \* cards
    Boards,         \* projects
    Homes,          \* by card, its project: how it may begin
    NoTask,         \* also: a search that has seen everything
    Edits,          \* requests under way at a time
    MaxLinks,       \* bound: links of each kind at a time
    MaxRelocations  \* bound

ASSUME GraphAssumption == Homes \subseteq [Tasks -> Boards] /\ NoTask \notin Tasks

VARIABLES
    tasks,      \* cards that exist
    board,      \* by card, its project
    blocks,     \* dependencies of type BLOCKS, blocker first
    related,    \* dependencies of the other types
    parent,     \* by card, its parent
    values,     \* by card, projects it has a value of a field of
    edit,       \* requests under way
    late,       \* history: links written while their check was overtaken by another
    relocated,  \* history: cards that changed project
    crossed     \* history: cards whose relocation met the writing of a value

graphVars == <<tasks, board, blocks, related, parent, values, edit, late, relocated, crossed>>

Free == [kind |-> "free"]
Done(e) == edit' = [edit EXCEPT ![e] = Free]
Parents == {<<c, parent[c]>> : c \in {c \in tasks : parent[c] # NoTask}}

\* Those searching links of a kind learn nothing of one written now.
Overtake(e, kind) ==
    edit' = [f \in Edits |->
                IF f = e THEN Free
                ELSE IF edit[f].kind = kind THEN [edit[f] EXCEPT !.alone = FALSE]
                ELSE edit[f]]

----------------------------------------------------------------------------
(* Dependencies.                                                           *)

\* addDependency up to the search: both cards are of one project, and no
\* dependency of any type is there, nor the reverse if the type has no direction.
AddDependency(e, blocker, blocked, type) ==
    /\ edit[e] = Free
    /\ {blocker, blocked} \subseteq tasks
    /\ board[blocker] = board[blocked]
    /\ blocker # blocked
    /\ <<blocker, blocked>> \notin blocks \cup related
    /\ type = "related" => <<blocked, blocker>> \notin blocks \cup related
    /\ edit' = [edit EXCEPT ![e] =
            [kind |-> type, link |-> <<blocker, blocked>>, alone |-> TRUE,
             seen |-> {blocked}, next |-> IF type = "related" THEN {} ELSE {blocked}]]
    /\ UNCHANGED <<tasks, board, blocks, related, parent, values, late, relocated, crossed>>

\* Mutant: the search goes from a card to its blockers.
MutantBlocked(by) == {c \in tasks : \E b \in by : <<c, b>> \in blocks}

\* The cards that wait for one of some cards.
Blocked(by) == {c \in tasks : \E b \in by : <<b, c>> \in blocks}

\* wouldCreateCycle: one layer of the search, one query.
Search(e) ==
    /\ edit[e].kind = "blocks" /\ edit[e].next # {}
    /\ IF edit[e].link[1] \in edit[e].next
       THEN Done(e)
       ELSE LET found == Blocked(edit[e].next) \ edit[e].seen
            IN edit' = [edit EXCEPT ![e].seen = @ \cup found, ![e].next = found]
    /\ UNCHANGED <<tasks, board, blocks, related, parent, values, late, relocated, crossed>>

\* The row is unique by the two cards, and both must still exist.
Insertable(link) ==
    /\ {link[1], link[2]} \subseteq tasks
    /\ link \notin blocks \cup related

WriteDependency(e) ==
    /\ edit[e].kind \in {"blocks", "related"} /\ edit[e].next = {}
    /\ LET link == edit[e].link
       IN IF ~Insertable(link)
          THEN Done(e) /\ UNCHANGED <<blocks, related, late>>
          ELSE /\ Overtake(e, "blocks")
               /\ IF edit[e].kind = "blocks"
                  THEN blocks' = blocks \cup {link} /\ UNCHANGED related
                  ELSE related' = related \cup {link} /\ UNCHANGED blocks
               /\ late' = IF edit[e].alone THEN late ELSE late \cup {link}
    /\ UNCHANGED <<tasks, board, parent, values, relocated, crossed>>

RemoveDependency(link) ==
    /\ link \in blocks \cup related
    /\ blocks' = blocks \ {link} /\ related' = related \ {link} /\ late' = late \ {link}
    /\ UNCHANGED <<tasks, board, parent, values, edit, relocated, crossed>>

----------------------------------------------------------------------------
(* Parents.                                                                *)

\* validateParentCard up to its loop, for a card that exists.
SetParent(e, c, p) ==
    /\ edit[e] = Free
    /\ {c, p} \subseteq tasks /\ p # c
    /\ board[p] = board[c]
    /\ edit' = [edit EXCEPT ![e] =
            [kind |-> "adopt", link |-> <<c, p>>, alone |-> TRUE,
             seen |-> {p}, next |-> parent[p]]]
    /\ UNCHANGED <<tasks, board, blocks, related, parent, values, late, relocated, crossed>>

\* One card up, one query; a card met before ends the climb.
Climb(e) ==
    /\ edit[e].kind = "adopt" /\ edit[e].next # NoTask
    /\ LET at == edit[e].next
       IN IF at = edit[e].link[1]
          THEN Done(e)
          ELSE edit' = [edit EXCEPT
                 ![e].seen = @ \cup {at},
                 ![e].next = IF at \in edit[e].seen \/ at \notin tasks THEN NoTask ELSE parent[at]]
    /\ UNCHANGED <<tasks, board, blocks, related, parent, values, late, relocated, crossed>>

\* updateCard
WriteParent(e) ==
    /\ edit[e].kind = "adopt" /\ edit[e].next = NoTask
    /\ LET c == edit[e].link[1]
           p == edit[e].link[2]
       IN IF ~({c, p} \subseteq tasks)
          THEN Done(e) /\ UNCHANGED <<parent, late>>
          ELSE /\ Overtake(e, "adopt")
               /\ parent' = [parent EXCEPT ![c] = p]
               /\ late' = IF edit[e].alone THEN late \ {<<c, parent[c]>>}
                          ELSE (late \ {<<c, parent[c]>>}) \cup {<<c, p>>}
    /\ UNCHANGED <<tasks, board, blocks, related, values, relocated, crossed>>

ClearParent(c) ==
    /\ c \in tasks /\ parent[c] # NoTask
    /\ parent' = [parent EXCEPT ![c] = NoTask]
    /\ late' = late \ {<<c, parent[c]>>}
    /\ UNCHANGED <<tasks, board, blocks, related, values, edit, relocated, crossed>>

----------------------------------------------------------------------------
(* Values, relocation, deletion.                                           *)

Meets(c, kind) == \E e \in Edits : edit[e].kind = kind /\ edit[e].link[1] = c

\* setCardCustomFieldValue up to its access check: the field is of the project
\* the card is in.
SetValue(e, c, b) ==
    /\ edit[e] = Free /\ c \in tasks
    /\ board[c] = b
    /\ edit' = [edit EXCEPT ![e] = [kind |-> "value", link |-> <<c, b>>]]
    /\ crossed' = IF Meets(c, "relocate") THEN crossed \cup {c} ELSE crossed
    /\ UNCHANGED <<tasks, board, blocks, related, parent, values, late, relocated>>

WriteValue(e) ==
    /\ edit[e].kind = "value"
    /\ LET c == edit[e].link[1]
       IN values' = IF c \in tasks THEN [values EXCEPT ![c] = @ \cup {edit[e].link[2]}] ELSE values
    /\ Done(e)
    /\ UNCHANGED <<tasks, board, blocks, related, parent, late, relocated, crossed>>

\* relocateCard; the values it drops are those it read.
Relocate(e, c, b) ==
    /\ edit[e] = Free /\ c \in tasks /\ board[c] # b
    /\ Cardinality(relocated) < MaxRelocations
    /\ edit' = [edit EXCEPT ![e] =
            [kind |-> "relocate", link |-> <<c, b>>, drop |-> values[c] # {}]]
    /\ crossed' = IF Meets(c, "value") \/ Meets(c, "relocate") THEN crossed \cup {c} ELSE crossed
    /\ UNCHANGED <<tasks, board, blocks, related, parent, values, late, relocated>>

\* Mutant: the values go along to the other project.
MutantDropValues(e) ==
    /\ edit[e].kind = "relocate" /\ edit[e].drop
    /\ edit' = [edit EXCEPT ![e].drop = FALSE]
    /\ UNCHANGED <<tasks, board, blocks, related, parent, values, late, relocated, crossed>>

DropValues(e) ==
    /\ edit[e].kind = "relocate" /\ edit[e].drop
    /\ values' = [values EXCEPT ![edit[e].link[1]] = {}]
    /\ edit' = [edit EXCEPT ![e].drop = FALSE]
    /\ UNCHANGED <<tasks, board, blocks, related, parent, late, relocated, crossed>>

\* Parents and dependencies stay as they are.
Arrive(e) ==
    /\ edit[e].kind = "relocate" /\ ~edit[e].drop
    /\ LET c == edit[e].link[1]
       IN IF c \in tasks
          THEN /\ board' = [board EXCEPT ![c] = edit[e].link[2]]
               /\ relocated' = relocated \cup {c}
          ELSE UNCHANGED <<board, relocated>>
    /\ Done(e)
    /\ UNCHANGED <<tasks, blocks, related, parent, values, late, crossed>>

Without(links, c) == {l \in links : l[1] # c /\ l[2] # c}

\* deleteCard: the rows of its dependencies go with it, its children lose it.
Delete(c) ==
    /\ c \in tasks
    /\ tasks' = tasks \ {c}
    /\ blocks' = Without(blocks, c) /\ related' = Without(related, c)
    /\ late' = Without(late, c)
    /\ parent' = [d \in Tasks |-> IF d = c \/ parent[d] = c THEN NoTask ELSE parent[d]]
    /\ values' = [values EXCEPT ![c] = {}]
    /\ UNCHANGED <<board, edit, relocated, crossed>>

----------------------------------------------------------------------------
GraphInit ==
    /\ tasks = Tasks
    /\ board \in Homes
    /\ blocks = {} /\ related = {}
    /\ parent = [c \in Tasks |-> NoTask]
    /\ values = [c \in Tasks |-> {}]
    /\ edit = [e \in Edits |-> Free]
    /\ late = {} /\ relocated = {} /\ crossed = {}

MovesNext ==
    \/ \E e \in Edits :
        \/ \E c \in Tasks, b \in Boards : Relocate(e, c, b)
        \/ DropValues(e) \/ Arrive(e)
    \/ \E c \in Tasks : Delete(c)

DependencyNext ==
    \/ \E e \in Edits :
        \/ /\ Cardinality(blocks \cup related) < MaxLinks
           /\ \E a, b \in Tasks, type \in {"blocks", "related"} : AddDependency(e, a, b, type)
        \/ Search(e) \/ WriteDependency(e)
    \/ \E link \in blocks \cup related : RemoveDependency(link)
    \/ MovesNext

ParentNext ==
    \/ \E e \in Edits :
        \/ Cardinality(Parents) < MaxLinks /\ \E c, p \in Tasks : SetParent(e, c, p)
        \/ Climb(e) \/ WriteParent(e)
    \/ \E c \in Tasks : ClearParent(c)
    \/ MovesNext

FieldNext ==
    \/ \E e \in Edits :
        \/ \E c \in Tasks, b \in Boards : SetValue(e, c, b)
        \/ WriteValue(e)
    \/ MovesNext

----------------------------------------------------------------------------
(* Properties.                                                             *)

EditTypes ==
    {Free}
    \cup [kind : {"blocks", "related"}, link : Tasks \X Tasks, alone : BOOLEAN,
          seen : SUBSET Tasks, next : SUBSET Tasks]
    \cup [kind : {"adopt"}, link : Tasks \X Tasks, alone : BOOLEAN,
          seen : SUBSET Tasks, next : Tasks \cup {NoTask}]
    \cup [kind : {"value"}, link : Tasks \X Boards]
    \cup [kind : {"relocate"}, link : Tasks \X Boards, drop : BOOLEAN]

\* Types, and links only among cards that exist.
GraphTypeOK ==
    /\ tasks \subseteq Tasks
    /\ board \in [Tasks -> Boards]
    /\ blocks \cup related \cup Parents \subseteq tasks \X tasks
    /\ blocks \cap related = {}
    /\ values \in [Tasks -> SUBSET Boards]
    /\ \A e \in Edits : edit[e] \in EditTypes
    /\ late \subseteq blocks \cup related \cup Parents
    /\ relocated \cup crossed \subseteq Tasks

\* Every set of cards has one that leads to no card of the set.
NoCycle(links) ==
    \A S \in (SUBSET Tasks) \ {{}} : \E c \in S : \A d \in S : <<c, d>> \notin links

\* dependency.service ("Bu bağımlılık döngü oluşturur"), validateParentCard: no
\* card waits for itself and none is its own ancestor, whatever requests search
\* and write at once; every cycle there is has a link in it that was written
\* after another one overtook its search.
Acyclic == NoCycle(blocks \ late) /\ NoCycle(Parents \ late)

\* addDependency ("aynı proje içindeki kartlar"), validateParentCard,
\* setCardCustomFieldValue: links and values belong to the project of the card,
\* but for links of cards that were ever relocated, those made after it among
\* them, and for values of cards one was written to during a relocation.
LinksAtHome ==
    /\ \A l \in blocks \cup related \cup Parents :
         board[l[1]] = board[l[2]] \/ {l[1], l[2]} \cap relocated # {}
    /\ \A c \in tasks \ crossed : values[c] \subseteq {board[c]}
=============================================================================
