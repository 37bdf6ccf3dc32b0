------------------------------ MODULE Delivery ------------------------------
(***************************************************************************)
(* Messages with other servers.                                             *)
(*                                                                          *)
(* Outgoing: an event of a project is sent to each of its webhooks by a     *)
(* worker of its own, which tries a few times and keeps a row of how it     *)
(* went.  An answer may be lost although the message arrived, a write of    *)
(* the row may fail, the webhook may be deleted, the process may stop.      *)
(*                                                                          *)
(* Incoming: GitHub may send an event twice, and several at once.  An event *)
(* is recorded, then its cards are looked up, and each is linked to the     *)
(* branch or pull request and moved to the column the link names for it.    *)
(***************************************************************************)
EXTENDS Naturals, FiniteSets

CONSTANTS
    Hooks, OutEvents,  \* webhooks of a project, and events to send
    MaxTries,          \* MAX_DENEME
    HubEvents,         \* what GitHub sends, with what it is and the cards its keys name
    HubKind, HubTickets,
    Handlers,          \* requests of GitHub at work at a time
    Tickets, Stages, NoStage,
    Mappings           \* bound: the columns a link can name, by kind of event

Kinds == {"push", "opened", "merged"}

ASSUME DeliveryAssumption ==
    /\ MaxTries \in Nat \ {0}
    /\ HubKind \in [HubEvents -> Kinds \cup {"other"}]
    /\ HubTickets \in [HubEvents -> SUBSET Tickets]
    /\ NoStage \notin Stages /\ Mappings \subseteq [Kinds -> Stages \cup {NoStage}]

Deliveries == OutEvents \X Hooks

VARIABLES
    hooks,    \* by webhook, "none", "active", "passive" or "deleted"
    waiting,  \* deliveries a dispatch still has to write the row of
    row,      \* by delivery, its row: status and attempts
    worker,   \* by delivery, "off", "trying" or "resting", and the tries that failed
    arrived,  \* history: by delivery, how often the receiver got it
    unheard,  \* history: and how often that was not recorded
    cut       \* history: deliveries whose worker stopped before the end

outVars == <<hooks, waiting, row, worker, arrived, unheard, cut>>

VARIABLES
    repo,     \* the link of the project: its state and the columns it names
    records,  \* events whose delivery has been recorded
    handler,  \* by handler, the event, the link it was received with and the cards left
    stage,    \* by ticket, its column
    shelved,  \* tickets that are archived
    bound,    \* links between events and tickets
    moves,    \* history: by event and ticket, how often the event moved it
    meant,    \* history: by event, the tickets found for it
    failed    \* history: events whose handling failed on the way

inVars == <<repo, records, handler, stage, shelved, bound, moves, meant, failed>>

----------------------------------------------------------------------------
(* Outgoing webhooks.                                                      *)

\* createWebhook, updateWebhook
SetHook(h, state) ==
    /\ state = "passive" => hooks[h] # "none"
    /\ hooks[h] \notin {"deleted", state}
    /\ hooks' = [hooks EXCEPT ![h] = state]
    /\ UNCHANGED <<waiting, row, worker, arrived, unheard, cut>>

\* deleteWebhook: the rows of its deliveries go with it, the workers stay.
DeleteHook(h) ==
    /\ hooks[h] \in {"active", "passive"}
    /\ hooks' = [hooks EXCEPT ![h] = "deleted"]
    /\ row' = [d \in Deliveries |-> IF d[2] = h /\ row[d].status # "none"
                                    THEN [row[d] EXCEPT !.status = "gone"] ELSE row[d]]
    /\ UNCHANGED <<waiting, worker, arrived, unheard, cut>>

\* dispatchEvent: the active webhooks, once and for all; each event only once here.
Dispatch(e) ==
    /\ \A h \in Hooks : row[<<e, h>>].status = "none" /\ <<e, h>> \notin waiting
    /\ waiting' = waiting \cup {d \in Deliveries : d[1] = e /\ hooks[d[2]] = "active"}
    /\ UNCHANGED <<hooks, row, worker, arrived, unheard, cut>>

\* The row of a deleted webhook cannot be written: the others get none either.
Create(d) ==
    /\ d \in waiting
    /\ IF hooks[d[2]] = "deleted"
       THEN waiting' = {w \in waiting : w[1] # d[1]} /\ UNCHANGED <<row, worker>>
       ELSE /\ waiting' = waiting \ {d}
            /\ row' = [row EXCEPT ![d] = [status |-> "PENDING", attempts |-> 0]]
            /\ worker' = [worker EXCEPT ![d] = [phase |-> "trying", failures |-> 0]]
    /\ UNCHANGED <<hooks, arrived, unheard, cut>>

Written(d, status, n) == row' = [row EXCEPT ![d] = [status |-> status, attempts |-> n]]

\* After the write of the success, the loop goes on.
MutantStopped(d) ==
    worker' = [worker EXCEPT ![d] = [phase |-> "resting", failures |-> 0]]

Stopped(d) == worker' = [worker EXCEPT ![d].phase = "off"]

\* A try that is answered well and recorded.
Succeed(d) ==
    /\ worker[d].phase = "trying"
    /\ row[d].status # "gone"
    /\ Written(d, "SUCCESS", worker[d].failures + 1)
    /\ Stopped(d)
    /\ arrived' = [arrived EXCEPT ![d] = @ + 1]
    /\ UNCHANGED <<hooks, waiting, unheard, cut>>

\* A try that fails: the address, the connection, the answer or its time limit, or
\* the write of the success.  Before the last one, attempts is written if possible.
Fail(d, got) ==
    LET n == worker[d].failures + 1 IN
    /\ worker[d].phase = "trying"
    /\ arrived' = [arrived EXCEPT ![d] = @ + got]
    /\ unheard' = [unheard EXCEPT ![d] = @ + got]
    /\ IF n < MaxTries
       THEN /\ worker' = [worker EXCEPT ![d] = [phase |-> "resting", failures |-> n]]
            /\ \/ UNCHANGED row
               \/ row[d].status # "gone" /\ Written(d, row[d].status, n)
            /\ UNCHANGED cut
       ELSE /\ Stopped(d)
            /\ \/ row[d].status # "gone" /\ Written(d, "FAILED", n) /\ UNCHANGED cut
               \/ UNCHANGED row /\ cut' = cut \cup {d}
    /\ UNCHANGED <<hooks, waiting>>

Retry(d) ==
    /\ worker[d].phase = "resting"
    /\ worker' = [worker EXCEPT ![d].phase = "trying"]
    /\ UNCHANGED <<hooks, waiting, row, arrived, unheard, cut>>

\* A restart of the process: nothing takes the rows up again.
Restart ==
    /\ \E d \in Deliveries : d \in waiting \/ worker[d].phase # "off"
    /\ worker' = [d \in Deliveries |-> [worker[d] EXCEPT !.phase = "off"]]
    /\ cut' = cut \cup {d \in Deliveries : worker[d].phase # "off"}
    /\ waiting' = {}
    /\ UNCHANGED <<hooks, row, arrived, unheard>>

----------------------------------------------------------------------------
(* Events of GitHub.                                                       *)

NoWork == [event |-> "none"]
HandlersOf(e) == {h \in Handlers : handler[h].event = e}

\* createLink, updateLink
SetRepo(targets, state) ==
    /\ repo.state # "deleted"
    /\ repo.state = "none" => state = "active"
    /\ repo' = [state |-> state, targets |-> targets]
    /\ UNCHANGED <<records, handler, stage, shelved, bound, moves, meant, failed>>

\* deleteLink: records and bindings go with it.
DeleteRepo ==
    /\ repo.state \in {"active", "passive"}
    /\ repo' = [repo EXCEPT !.state = "deleted"]
    /\ records' = {} /\ bound' = {}
    /\ UNCHANGED <<handler, stage, shelved, moves, meant, failed>>

Target(e) == IF HubKind[e] = "other" THEN NoStage ELSE repo.targets[HubKind[e]]

\* The route has read the link, the signature and the event hold.
Receive(h, e) ==
    /\ handler[h] = NoWork
    /\ repo.state = "active"
    /\ handler' = [handler EXCEPT ![h] = [event |-> e, step |-> "record", target |-> Target(e),
                                          left |-> {}, card |-> "none"]]
    /\ UNCHANGED <<repo, records, stage, shelved, bound, moves, meant, failed>>

\* The record is written whether there is one or not.
MutantIsNew(e) == TRUE

\* teslimatiKaydet: the delivery of the link is unique.
IsNew(e) == e \notin records

Record(h) ==
    LET e == handler[h].event IN
    /\ handler[h] # NoWork /\ handler[h].step = "record"
    /\ repo.state # "deleted"
    /\ IF IsNew(e)
       THEN /\ records' = records \cup {e}
            /\ handler' = [handler EXCEPT ![h].step = "find"]
       ELSE handler' = [handler EXCEPT ![h] = NoWork] /\ UNCHANGED records
    /\ UNCHANGED <<repo, stage, shelved, bound, moves, meant, failed>>

\* anahtarlariKartaCoz: the cards of the project that are not archived.
Find(h) ==
    LET e == handler[h].event
        found == {t \in HubTickets[e] : stage[t] # "deleted" /\ t \notin shelved}
    IN  /\ handler[h] # NoWork /\ handler[h].step = "find"
        /\ meant' = [meant EXCEPT ![e] = found]
        /\ handler' = [handler EXCEPT ![h].step = "bind", ![h].left = found]
        /\ UNCHANGED <<repo, records, stage, shelved, bound, moves, failed>>

\* bagiKaydet: refused when the card or the link is no longer there.
Bind(h, t) ==
    /\ handler[h] # NoWork /\ handler[h].step = "bind" /\ t \in handler[h].left
    /\ stage[t] # "deleted" /\ repo.state # "deleted"
    /\ bound' = bound \cup {<<handler[h].event, t>>}
    /\ handler' = [handler EXCEPT ![h].left = @ \ {t}, ![h].card = t,
                      ![h].step = IF handler[h].target = NoStage THEN "bind" ELSE "move"]
    /\ UNCHANGED <<repo, records, stage, shelved, moves, meant, failed>>

\* sistemKartTasi (see Cards): moved, or left where it is.
Move(h) ==
    LET e == handler[h].event  t == handler[h].card IN
    /\ handler[h] # NoWork /\ handler[h].step = "move"
    /\ \/ /\ stage[t] # "deleted" /\ stage[t] # handler[h].target
          /\ stage' = [stage EXCEPT ![t] = handler[h].target]
          /\ moves' = [moves EXCEPT ![e][t] = @ + 1]
       \/ UNCHANGED <<stage, moves>>
    /\ handler' = [handler EXCEPT ![h].step = "bind"]
    /\ UNCHANGED <<repo, records, shelved, bound, meant, failed>>

EndEvent(h) ==
    /\ handler[h] # NoWork /\ handler[h].step = "bind" /\ handler[h].left = {}
    /\ handler' = [handler EXCEPT ![h] = NoWork]
    /\ UNCHANGED <<repo, records, stage, shelved, bound, moves, meant, failed>>

\* Any step may fail: the answer to GitHub is 200 all the same, the rest is not done.
FailEvent(h) ==
    /\ handler[h] # NoWork
    /\ failed' = failed \cup {handler[h].event}
    /\ handler' = [handler EXCEPT ![h] = NoWork]
    /\ UNCHANGED <<repo, records, stage, shelved, bound, moves, meant>>

\* Users move, archive and delete cards meanwhile; anahtarlaKartTasi moves those a
\* commit message names to the column of the branch.
UserMoves(t, s) ==
    /\ stage[t] # "deleted" /\ stage[t] # s
    /\ stage' = [stage EXCEPT ![t] = s]
    /\ UNCHANGED <<repo, records, handler, shelved, bound, moves, meant, failed>>

UserArchives(t) ==
    /\ stage[t] # "deleted"
    /\ shelved' = IF t \in shelved THEN shelved \ {t} ELSE shelved \cup {t}
    /\ UNCHANGED <<repo, records, handler, stage, bound, moves, meant, failed>>

UserDeletes(t) ==
    /\ stage[t] # "deleted"
    /\ stage' = [stage EXCEPT ![t] = "deleted"]
    /\ bound' = {b \in bound : b[2] # t}
    /\ UNCHANGED <<repo, records, handler, shelved, moves, meant, failed>>

MoveByKey(t) ==
    /\ repo.state = "active" /\ repo.targets["push"] # NoStage
    /\ t \notin shelved /\ stage[t] \notin {"deleted", repo.targets["push"]}
    /\ stage' = [stage EXCEPT ![t] = repo.targets["push"]]
    /\ UNCHANGED <<repo, records, handler, shelved, bound, moves, meant, failed>>

----------------------------------------------------------------------------
DeliveryInit ==
    /\ hooks = [h \in Hooks |-> "none"]
    /\ waiting = {} /\ cut = {}
    /\ row = [d \in Deliveries |-> [status |-> "none", attempts |-> 0]]
    /\ worker = [d \in Deliveries |-> [phase |-> "off", failures |-> 0]]
    /\ arrived = [d \in Deliveries |-> 0] /\ unheard = arrived
    /\ repo = [state |-> "none", targets |-> [k \in Kinds |-> NoStage]]
    /\ records = {} /\ bound = {} /\ failed = {}
    /\ handler = [h \in Handlers |-> NoWork]
    /\ stage \in [Tickets -> Stages] /\ shelved = {}
    /\ moves = [e \in HubEvents |-> [t \in Tickets |-> 0]]
    /\ meant = [e \in HubEvents |-> {}]

OutNext ==
    \/ Restart
    \/ \E h \in Hooks : DeleteHook(h) \/ \E state \in {"active", "passive"} : SetHook(h, state)
    \/ \E e \in OutEvents : Dispatch(e)
    \/ \E d \in Deliveries : Create(d) \/ Succeed(d) \/ Retry(d) \/ \E got \in 0 .. 1 : Fail(d, got)

InNext ==
    \/ DeleteRepo
    \/ \E targets \in Mappings, state \in {"active", "passive"} : SetRepo(targets, state)
    \/ \E h \in Handlers :
        \/ Record(h) \/ Find(h) \/ Move(h) \/ EndEvent(h) \/ FailEvent(h)
        \/ \E e \in HubEvents : Receive(h, e)
        \/ \E t \in Tickets : Bind(h, t)
    \/ \E t \in Tickets :
        \/ UserArchives(t) \/ UserDeletes(t) \/ MoveByKey(t)
        \/ \E s \in Stages : UserMoves(t, s)

----------------------------------------------------------------------------
DeliveryTypeOK ==
    /\ hooks \in [Hooks -> {"none", "active", "passive", "deleted"}]
    /\ waiting \subseteq Deliveries /\ cut \subseteq Deliveries
    /\ row \in [Deliveries -> [status: {"none", "PENDING", "SUCCESS", "FAILED", "gone"},
                               attempts: 0 .. MaxTries]]
    /\ worker \in [Deliveries -> [phase: {"off", "trying", "resting"},
                                  failures: 0 .. MaxTries - 1]]
    /\ repo \in [state: {"none", "active", "passive", "deleted"},
                 targets: [Kinds -> Stages \cup {NoStage}]]
    /\ stage \in [Tickets -> Stages \cup {"deleted"}] /\ shelved \subseteq Tickets
    /\ records \subseteq HubEvents /\ failed \subseteq HubEvents
    /\ bound \subseteq HubEvents \X Tickets

(* What the row of a delivery says is true: SUCCESS means that it arrived,   *)
(* FAILED that every try was made, PENDING that a worker is at it, unless    *)
(* the worker was stopped; and the receiver gets it once more than it was    *)
(* not heard, at most.                                                      *)
DeliverySettled ==
    \A d \in Deliveries :
        /\ row[d].status = "SUCCESS" => arrived[d] > 0
        /\ row[d].status = "FAILED" => row[d].attempts = MaxTries
        /\ row[d].status = "PENDING" => worker[d].phase # "off" \/ d \in cut
        /\ arrived[d] <= unheard[d] + 1

(* However often GitHub sends an event, it moves a card at most once; and a  *)
(* recorded event nobody works on any more is bound to every card found for  *)
(* it, unless its handling failed on the way.                               *)
EventOnce ==
    \A e \in HubEvents :
        /\ \A t \in Tickets : moves[e][t] <= 1
        /\ e \in records /\ HandlersOf(e) = {} /\ e \notin failed =>
               \A t \in meant[e] : <<e, t>> \in bound \/ stage[t] = "deleted"
=============================================================================
