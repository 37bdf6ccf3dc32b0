-------------------------------- MODULE Rooms --------------------------------
(***************************************************************************)
(* The rooms of the open connections.  What is sent to a room reaches every *)
(* socket in it, so a socket has to be out of the rooms its user may no     *)
(* longer see.  A socket comes in by its handshake or by asking; both check *)
(* the access, and enter at a later moment.  It goes out by leaving, by     *)
(* disconnecting, or by the follow-up of a call of Membership:              *)
(*                                                                          *)
(*   evict       the rooms of one user in the organisation, socket by       *)
(*               socket, with a query for the card rooms after each;        *)
(*   revalidate  whoever is in the room of a project and may not see it,    *)
(*               found socket by socket with a query each, is evicted       *)
(*               from the project.                                          *)
(*                                                                          *)
(* A socket also keeps lists of organisations and projects: they allow      *)
(* sending to a room.  An entry of the list is a place like the room, that  *)
(* of the organisation one with the room since both come and go together.   *)
(***************************************************************************)
EXTENDS Membership

CONSTANTS
    Sockets,
    SocketUser,  \* the user of a socket
    Cards,
    CardProject, \* the project of a card
    MaxAsked     \* bound: requests to enter a room at a time

ASSUME RoomsAssumption ==
    /\ SocketUser \in [Sockets -> Users]
    /\ CardProject \in [Cards -> Projects]
    /\ MaxAsked \in Nat

Org == <<"org", None>>
ProjectRoom(p) == <<"project", p>>
Listed(p) == <<"listed", p>>
CardRoom(c) == <<"card", c>>

Places == {Org} \cup {ProjectRoom(p) : p \in Projects}
                \cup {Listed(p) : p \in Projects} \cup {CardRoom(c) : c \in Cards}

\* The project a place belongs to, and the places of some projects.
At(pl) == IF pl[1] = "card" THEN CardProject[pl[2]] ELSE pl[2]
PlacesOf(P) == {pl \in Places \ {Org} : At(pl) \in P}

VARIABLES
    link,   \* by socket: "down", "hello" during the handshake, "up"
    holds,  \* by socket, the places it is in; those it will enter during the handshake
    asked,  \* requests to enter that have passed the check: socket and place
    todo,   \* by call, the sockets its follow-up still has to look at
    scope,  \* by call, the projects whose places its follow-up takes away
    turn,   \* by call, the card places whose projects are being looked up
    losers, \* by call, the users a revalidation found without access
    stray   \* history: places kept although no follow-up takes them away

workVars == <<todo, scope, turn, losers>>
roomVars == <<link, holds, asked, workVars, stray>>
vars == <<memberVars, call, begun, roomVars>>

Up(s) == link[s] = "up"
SocketsOf(u) == {s \in Sockets : Up(s) /\ SocketUser[s] = u}

\* canAccessOrganization, canAccessProject, canAccessCard.
May(u, pl) == IF pl = Org THEN Member(u) ELSE CanSee(u, At(pl))

\* The places a request for a room opens: join:org, join:project, join:card.
Opens(pl) == IF pl[1] = "project" THEN {pl, Listed(pl[2])} ELSE {pl}

\* The places a socket will be in without another check.
Coming(s) == (UNION {Opens(a[2]) : a \in {b \in asked : b[1] = s}})
               \cup (IF link[s] = "hello" THEN holds[s] ELSE {})

\* What a follow-up takes away, once it has started.
Taken(k) == PlacesOf(scope[k]) \cup (IF call[k].at = None THEN {Org} ELSE {})

\* A follow-up at work will take the place from the socket.
DueIn(k, s, pl) ==
    LET u == SocketUser[s]
        inRoom(S) == \E t \in S \cap SocketsOf(u) : ProjectRoom(call[k].at) \in holds[t]
    IN  \/ call[k].phase = "evict" /\ call[k].who = u
        \/ call[k].phase = "revalidate" /\ pl \in PlacesOf({call[k].at}) /\ inRoom(Sockets)
        \/ call[k].phase = "scan" /\ pl \in PlacesOf(scope[k])
             /\ (u \in losers[k] \/ inRoom(todo[k]))
        \/ call[k].phase = "leave" /\ pl \in Taken(k)
             /\ (s \in todo[k] \/ u \in losers[k] \/ <<s, pl>> \in turn[k])

Due(s, pl) == \E k \in Calls : DueIn(k, s, pl)

\* The places held or coming that their user may not be in.
Excess == {x \in Sockets \X Places :
              /\ x[2] \in holds[x[1]] \cup Coming(x[1])
              /\ ~May(SocketUser[x[1]], x[2])}

\* Of these, the ones that a step leaves without a follow-up.  One that is on its
\* way is never followed up: the follow-up only knows what a socket is in.
Unfollowed == {x \in Excess : x[2] \in Coming(x[1]) \/ ~Due(x[1], x[2])}

\* A socket gives up places; what it is no longer in and will not be is no stray.
\* Another revalidation may have been to find the user in a room left here, for the
\* places of another socket.
Leaves(s, P) ==
    /\ holds' = [holds EXCEPT ![s] = @ \ P]
    /\ stray' = (stray \ {x \in {s} \X P : x[2] \notin Coming(s)})
                  \cup {x \in Unfollowed' \ Unfollowed : x[1] # s}

----------------------------------------------------------------------------
(* Connections.                                                            *)

\* The handshake reads memberships, projects and grants: taken as one snapshot.
Hello(s) ==
    /\ link[s] = "down"
    /\ begun < MaxBegun
    /\ begun' = begun + 1
    /\ link' = [link EXCEPT ![s] = "hello"]
    /\ holds' = [holds EXCEPT ![s] =
            (UNION {{ProjectRoom(p), Listed(p)} : p \in VisibleProjects(SocketUser[s])})
              \cup (IF Member(SocketUser[s]) THEN {Org} ELSE {})]
    /\ UNCHANGED <<memberVars, call, asked, workVars, stray>>

\* The connection is there, in its rooms.  An eviction in the meantime did not see it.
Connect(s) ==
    /\ link[s] = "hello"
    /\ link' = [link EXCEPT ![s] = "up"]
    /\ UNCHANGED <<memberVars, call, begun, holds, asked, workVars, stray>>

\* The socket closes, or the sweep finds its token expired.  The next connection is
\* a new one: what the old one asked for comes to nothing.
Disconnect(s) ==
    /\ link[s] # "down"
    /\ link' = [link EXCEPT ![s] = "down"]
    /\ holds' = [holds EXCEPT ![s] = {}]
    /\ asked' = {a \in asked : a[1] # s}
    /\ todo' = [k \in Calls |-> todo[k] \ {s}]
    /\ turn' = [k \in Calls |-> {x \in turn[k] : x[1] # s}]
    /\ UNCHANGED <<memberVars, call, begun, scope, losers>>
    /\ stray' = {x \in stray : x[1] # s} \cup (Unfollowed' \ Unfollowed)

Ask(s, pl) ==
    /\ Up(s)
    /\ pl[1] # "listed" /\ pl \notin holds[s]
    /\ May(SocketUser[s], pl)
    /\ Cardinality(asked) < MaxAsked
    /\ asked' = asked \cup {<<s, pl>>}
    /\ UNCHANGED <<memberVars, call, begun, link, holds, workVars, stray>>

\* The rest of the handler, after the check.
Enter(s, pl) ==
    /\ <<s, pl>> \in asked
    /\ asked' = asked \ {<<s, pl>>}
    /\ holds' = [holds EXCEPT ![s] = @ \cup Opens(pl)]
    /\ UNCHANGED <<memberVars, call, begun, link, workVars, stray>>

\* leave:project and leave:card: the room alone, the list stays.  A revalidation
\* looks for users in the room, so it may not find this one any more.
Leave(s, pl) ==
    /\ Up(s)
    /\ pl[1] \in {"project", "card"} /\ pl \in holds[s]
    /\ holds' = [holds EXCEPT ![s] = @ \ {pl}]
    /\ UNCHANGED <<memberVars, call, begun, link, asked, workVars>>
    /\ stray' = (stray \ {x \in {<<s, pl>>} : pl \notin Coming(s)})
                  \cup (Unfollowed' \ Unfollowed)

----------------------------------------------------------------------------
(* The writes of Membership, seen from the rooms.                          *)

Granted(k) == Grants(k) /\ UNCHANGED roomVars

\* What a write takes away and its follow-up does not find: places on their way;
\* anything after a change of role that is no demotion to guest, or a deletion,
\* which have none; and, for one project, the places of users not in its room.
Overlooked(k, x) ==
    \/ x[2] \in Coming(x[1])
    \/ call[k].op \in {"idle", "role", "delete"}
    \/ call[k].op \in {"drop", "visibility"}
         /\ \A t \in SocketsOf(SocketUser[x[1]]) : ProjectRoom(call[k].at) \notin holds[t]

\* The cards of a project that is gone are not found by any follow-up.
Lost(k) ==
    /\ Losses(k)
    /\ UNCHANGED <<link, holds, asked, workVars>>
    /\ LET new == IF call[k].op \in {"idle", "delete"} THEN Excess' ELSE Excess' \ Excess
       IN  stray' = stray \cup {x \in new : Overlooked(k, x)}

----------------------------------------------------------------------------
(* evictFromOrganization and evictFromProject.                             *)

Quiet == UNCHANGED <<memberVars, begun, link, asked>>

\* The sockets the user has now; without any, the call is over.
EvictStart(k) ==
    /\ call[k].phase = "evict"
    /\ LET S == SocketsOf(call[k].who) IN
        /\ todo' = [todo EXCEPT ![k] = S]
        /\ scope' = [scope EXCEPT ![k] = {p \in Projects : Live(p)}]
        /\ IF S = {} THEN call' = [call EXCEPT ![k] = Idle]
                     ELSE call' = [call EXCEPT ![k].phase = "leave"]
    /\ Quiet
    /\ UNCHANGED <<holds, turn, losers, stray>>

\* One socket leaves the rooms and lists; then its card rooms are looked up.
LeaveRooms(k, s) ==
    /\ call[k].phase = "leave"
    /\ s \in todo[k] /\ turn[k] = {}
    /\ todo' = [todo EXCEPT ![k] = @ \ {s}]
    /\ turn' = [turn EXCEPT ![k] = {<<s, pl>> : pl \in {q \in holds[s] : q[1] = "card"}}]
    /\ Quiet
    /\ UNCHANGED <<call, scope, losers>>
    /\ Leaves(s, {pl \in Taken(k) : pl[1] # "card"})

\* kartOdalariniTerkEt: the cards of the project or of the organisation.
InScope(k, pl) == (call[k].at = None \/ At(pl) = call[k].at) /\ Live(At(pl))

LeaveCards(k) ==
    /\ call[k].phase = "leave" /\ turn[k] # {}
    /\ turn' = [turn EXCEPT ![k] = {}]
    /\ Quiet
    /\ UNCHANGED <<call, todo, scope, losers>>
    /\ LET s == (CHOOSE x \in turn[k] : TRUE)[1]
       IN  Leaves(s, {x[2] : x \in {y \in turn[k] : InScope(k, y[2])}})

\* The next user of a revalidation, or the end.
EvictNext(k) ==
    /\ call[k].phase = "leave" /\ todo[k] = {} /\ turn[k] = {}
    /\ IF losers[k] = {}
       THEN call' = [call EXCEPT ![k] = Idle] /\ UNCHANGED <<todo, losers>>
       ELSE \E u \in losers[k] :
              /\ losers' = [losers EXCEPT ![k] = @ \ {u}]
              /\ todo' = [todo EXCEPT ![k] = SocketsOf(u)]
              /\ UNCHANGED call
    /\ Quiet
    /\ UNCHANGED <<holds, scope, turn, stray>>

(* revalidateProjectRoom.                                                  *)

ScanStart(k) ==
    /\ call[k].phase = "revalidate"
    /\ call' = [call EXCEPT ![k].phase = "scan"]
    /\ todo' = [todo EXCEPT ![k] = {s \in Sockets : Up(s)}]
    /\ scope' = [scope EXCEPT ![k] = {call[k].at}]
    /\ Quiet
    /\ UNCHANGED <<holds, turn, losers, stray>>

Scan(k, s) ==
    /\ call[k].phase = "scan" /\ s \in todo[k]
    /\ todo' = [todo EXCEPT ![k] = @ \ {s}]
    /\ losers' = [losers EXCEPT ![k] =
            IF ProjectRoom(call[k].at) \in holds[s] /\ ~CanSee(SocketUser[s], call[k].at)
            THEN @ \cup {SocketUser[s]} ELSE @]
    /\ Quiet
    /\ UNCHANGED <<call, holds, scope, turn, stray>>

ScanEnd(k) ==
    /\ call[k].phase = "scan" /\ todo[k] = {}
    /\ call' = [call EXCEPT ![k].phase = "leave"]
    /\ Quiet
    /\ UNCHANGED <<holds, workVars, stray>>

\* A query of the follow-up fails: what it had still to do stays undone.
Stop(k) ==
    /\ call[k].phase \in {"evict", "revalidate", "scan", "leave"}
    /\ call' = [call EXCEPT ![k] = Idle]
    /\ todo' = [todo EXCEPT ![k] = {}]
    /\ turn' = [turn EXCEPT ![k] = {}]
    /\ losers' = [losers EXCEPT ![k] = {}]
    /\ Quiet
    /\ UNCHANGED <<holds, scope>>
    /\ stray' = stray \cup (Unfollowed' \ Unfollowed)

----------------------------------------------------------------------------
Init ==
    /\ MembershipInit
    /\ link = [s \in Sockets |-> "down"]
    /\ holds = [s \in Sockets |-> {}]
    /\ asked = {}
    /\ todo = [k \in Calls |-> {}]
    /\ scope = [k \in Calls |-> {}]
    /\ turn = [k \in Calls |-> {}]
    /\ losers = [k \in Calls |-> {}]
    /\ stray = {}

Next ==
    \/ \E s \in Sockets : Hello(s) \/ Connect(s) \/ Disconnect(s)
    \/ \E s \in Sockets, pl \in Places : Ask(s, pl) \/ Enter(s, pl) \/ Leave(s, pl)
    \/ \E k \in Calls :
        \/ (Checks(k) \/ Refuse(k)) /\ UNCHANGED roomVars
        \/ Granted(k) \/ Lost(k) \/ Stop(k)
        \/ EvictStart(k) \/ LeaveCards(k) \/ EvictNext(k) \/ ScanStart(k) \/ ScanEnd(k)
        \/ \E s \in Sockets : LeaveRooms(k, s) \/ Scan(k, s)

Spec == Init /\ [][Next]_vars

----------------------------------------------------------------------------
(* Types; a follow-up has work only in the phases that do it.              *)
TypeOK ==
    /\ MembershipTypeOK
    /\ link \in [Sockets -> {"down", "hello", "up"}]
    /\ \A s \in Sockets : holds[s] \subseteq Places /\ (link[s] = "down" => holds[s] = {})
    /\ asked \subseteq {s \in Sockets : Up(s)} \X Places
    /\ \A k \in Calls :
        /\ todo[k] \subseteq {s \in Sockets : Up(s)}
        /\ scope[k] \subseteq Projects
        /\ turn[k] \subseteq {s \in Sockets : Up(s)} \X Places
        /\ losers[k] \subseteq Users
        /\ todo[k] \cup turn[k] \cup losers[k] # {} => call[k].phase \in {"scan", "leave"}
    /\ stray \subseteq Sockets \X Places

(* A connection is in a room, or in a list that lets it send to the room,   *)
(* only while its user may see what is said there, or a follow-up is at     *)
(* work that takes the place away.  The exceptions are named by stray: a    *)
(* check that was overtaken, a write without a follow-up, a follow-up that  *)
(* failed or that looked for the user in a room already left.               *)
RoomsFollowAccess ==
    \A s \in Sockets : \A pl \in holds[s] :
        Up(s) => May(SocketUser[s], pl) \/ Due(s, pl) \/ <<s, pl>> \in stray
=============================================================================
