----------------------------- MODULE RoomsProofs -----------------------------
(***************************************************************************)
(* What the calls on an organisation promise about invitations, grants and  *)
(* visibility, and about the rooms of the open connections, for any number  *)
(* of users, projects, invitations, calls and connections.  Three           *)
(* invariants, each on top of the one before: OrgInv of the tables, TypesInv *)
(* of the calls and their follow-ups, AccessInv of who is in which room.    *)
(***************************************************************************)
EXTENDS Rooms, TLAPS

Statuses == {"free", "PENDING", "ACCEPTED", "DECLINED", "gone"}

Ops == {"idle", "invite", "accept", "decline", "cancel", "remove", "role", "demote",
        "create", "add", "drop", "visibility", "delete"}
Phases == {"", "write", "evict", "revalidate", "scan", "leave"}

\* What a call carries: a change of role carries a role, a grant a project and its
\* user, an answer its invitation.  The rest is of no importance here.
Work == [op: Ops, who: Users \cup {None}, at: Projects \cup Invitations \cup {None},
         arg: Roles \cup Visibilities \cup {""}, phase: Phases]

CallsTyped ==
    /\ call \in [Calls -> Work]
    /\ \A k \in Calls :
        /\ call[k].op \in {"role", "demote"} => call[k].arg \in Roles
        /\ call[k].op = "invite" => call[k].who \in Users /\ call[k].arg \in Roles
        /\ call[k].op = "add" => call[k].at \in Projects /\ call[k].who \in Users
        /\ call[k].op \in {"accept", "decline"} => call[k].at \in Invitations

TablesTyped ==
    /\ roles \in [Users -> Roles \cup {"none"}]
    /\ explicit \subseteq Projects \X Users
    /\ invites \in [Invitations -> [status: Statuses, who: Users \cup {None}, role: Roles]]
    /\ entered \in [Invitations -> Nat]

\* AnsweredOnce is not inductive: what may still be accepted was not accepted yet,
\* and neither were the ids no invitation has.
Unanswered ==
    \A i \in Invitations :
        /\ entered[i] <= 1
        /\ invites[i].status \in {"free", "PENDING"} => entered[i] = 0
        /\ invites[i].status = "ACCEPTED" => entered[i] = 1
        /\ invites[i].status = "DECLINED" /\ i \notin crossed => entered[i] = 0

OrgInv == CallsTyped /\ TablesTyped /\ Unanswered /\ NoLeftoverGrants

\* The tables the invariant speaks of are as they were.
SameTables == UNCHANGED <<roles, explicit, invites, entered, crossed, leftover>>

----------------------------------------------------------------------------
LEMMA SameKeep ==
    ASSUME OrgInv, SameTables
    PROVE  TablesTyped' /\ Unanswered' /\ NoLeftoverGrants'
PROOF
  <1>1. TablesTyped'
    BY DEF OrgInv, SameTables, TablesTyped
  <1>2. Unanswered'
    BY DEF OrgInv, SameTables, Unanswered
  <1>3. NoLeftoverGrants'
    BY DEF OrgInv, SameTables, NoLeftoverGrants, Member
  <1> QED BY <1>1, <1>2, <1>3

\* A call ends, or goes on with its follow-up, with what it carries unchanged.
LEMMA CallKeeps ==
    ASSUME CallsTyped,
           \/ UNCHANGED call
           \/ \E k \in Calls : call' = [call EXCEPT ![k] = Idle]
           \/ \E k \in Calls, ph \in Phases : call' = [call EXCEPT ![k].phase = ph]
    PROVE  CallsTyped'
PROOF
  <1>1. CASE UNCHANGED call
    BY <1>1 DEF CallsTyped
  <1>2. ASSUME NEW k \in Calls, call' = [call EXCEPT ![k] = Idle]
        PROVE  CallsTyped'
    <2>1. Idle \in Work /\ Idle.op = "idle"
      BY DEF Idle, Work, Ops, Phases
    <2> QED BY <1>2, <2>1 DEF CallsTyped
  <1>3. ASSUME NEW k \in Calls, NEW ph \in Phases, call' = [call EXCEPT ![k].phase = ph]
        PROVE  CallsTyped'
    <2>1. call'[k] = [call[k] EXCEPT !.phase = ph]
      BY <1>3 DEF CallsTyped
    <2>2. call[k] \in Work
      BY DEF CallsTyped
    <2>3. /\ call'[k] \in Work
          /\ call'[k].op = call[k].op /\ call'[k].arg = call[k].arg
          /\ call'[k].at = call[k].at /\ call'[k].who = call[k].who
      BY <2>1, <2>2 DEF Work
    <2>4. \A j \in Calls : j # k => call'[j] = call[j]
      BY <1>3 DEF CallsTyped
    <2>5. call' \in [Calls -> Work]
      BY <1>3, <2>3, <2>4 DEF CallsTyped
    <2> QED BY <2>3, <2>4, <2>5 DEF CallsTyped
  <1> QED BY <1>1, <1>2, <1>3

\* A call that begins carries what its checks have looked at.
LEMMA BeginKeeps ==
    ASSUME OrgInv, NEW k \in Calls, NEW op \in Ops, NEW u \in Users \cup {None},
           NEW p \in Projects \cup Invitations \cup {None}, NEW a \in Roles \cup Visibilities \cup {""},
           op \in {"role", "demote", "invite"} => a \in Roles,
           op \in {"add", "invite"} => u \in Users,
           op = "add" => p \in Projects,
           op \in {"accept", "decline"} => p \in Invitations,
           Begin(k, Request(op, u, p, a))
    PROVE  OrgInv'
PROOF
  <1> DEFINE c == Request(op, u, p, a)
  <1>1. /\ c \in Work
        /\ c.op = op /\ c.who = u /\ c.at = p /\ c.arg = a
    BY DEF Request, Work, Phases
  <1>2. call' = [call EXCEPT ![k] = c] /\ SameTables
    BY DEF Begin, memberVars, SameTables
  <1>3. CallsTyped'
    BY <1>1, <1>2 DEF OrgInv, CallsTyped
  <1> QED
    BY <1>2, <1>3, SameKeep DEF OrgInv

----------------------------------------------------------------------------
\* The rooms and the follow-ups leave the tables alone.
LEMMA RoomSteps ==
    ASSUME OrgInv,
           \/ \E s \in Sockets : Hello(s) \/ Connect(s) \/ Disconnect(s)
           \/ \E s \in Sockets, pl \in Places : Ask(s, pl) \/ Enter(s, pl) \/ Leave(s, pl)
           \/ \E k \in Calls :
                \/ Refuse(k) \/ Stop(k) \/ EvictStart(k) \/ LeaveCards(k)
                \/ EvictNext(k) \/ ScanStart(k) \/ ScanEnd(k)
                \/ \E s \in Sockets : LeaveRooms(k, s) \/ Scan(k, s)
    PROVE  OrgInv'
PROOF
  <1>1. SameTables
    BY DEF SameTables, memberVars, Quiet, Hello, Connect, Disconnect, Ask, Enter, Leave,
           Refuse, Stop, EvictStart, LeaveCards, EvictNext, ScanStart, ScanEnd,
           LeaveRooms, Scan
  <1>2. \/ UNCHANGED call
        \/ \E k \in Calls : call' = [call EXCEPT ![k] = Idle]
        \/ \E k \in Calls, ph \in Phases : call' = [call EXCEPT ![k].phase = ph]
    <2>1. "scan" \in Phases /\ "leave" \in Phases
      BY DEF Phases
    <2>2. CASE \E s \in Sockets : Hello(s) \/ Connect(s) \/ Disconnect(s)
      BY <2>2 DEF Hello, Connect, Disconnect
    <2>3. CASE \E s \in Sockets, pl \in Places : Ask(s, pl) \/ Enter(s, pl) \/ Leave(s, pl)
      BY <2>3 DEF Ask, Enter, Leave
    <2>4. ASSUME NEW k \in Calls, Refuse(k) \/ Stop(k)
          PROVE  call' = [call EXCEPT ![k] = Idle]
      BY <2>4 DEF Refuse, End, Stop
    <2>5. ASSUME NEW k \in Calls, EvictStart(k) \/ EvictNext(k) \/ LeaveCards(k)
          PROVE  \/ UNCHANGED call
                 \/ call' = [call EXCEPT ![k] = Idle]
                 \/ call' = [call EXCEPT ![k].phase = "leave"]
      BY <2>5 DEF EvictStart, EvictNext, LeaveCards
    <2>6. ASSUME NEW k \in Calls, ScanStart(k) \/ ScanEnd(k)
          PROVE  \/ call' = [call EXCEPT ![k].phase = "scan"]
                 \/ call' = [call EXCEPT ![k].phase = "leave"]
      BY <2>6 DEF ScanStart, ScanEnd
    <2>7. ASSUME NEW k \in Calls, NEW s \in Sockets, LeaveRooms(k, s) \/ Scan(k, s)
          PROVE  UNCHANGED call
      BY <2>7 DEF LeaveRooms, Scan
    <2> QED BY <2>1, <2>2, <2>3, <2>4, <2>5, <2>6, <2>7
  <1>3. CallsTyped'
    BY <1>2, CallKeeps DEF OrgInv
  <1> QED
    BY <1>1, <1>3, SameKeep DEF OrgInv

\* The checks only begin a call.
LEMMA ChecksKeep ==
    ASSUME OrgInv, NEW k \in Calls, Checks(k)
    PROVE  OrgInv'
PROOF
  <1> USE DEF Ops
  <1>1. \A i \in Invitations : invites[i].who \in Users \cup {None}
    BY DEF OrgInv, TablesTyped
  <1>2. ASSUME NEW a \in Users, NEW u \in Users, NEW r \in Roles, InviteCheck(k, a, u, r)
        PROVE  OrgInv'
    BY <1>2, BeginKeeps DEF InviteCheck
  <1>3. ASSUME NEW a \in Users, NEW u \in Users, NEW r \in Roles, RoleCheck(k, a, u, r)
        PROVE  OrgInv'
    BY <1>3, BeginKeeps DEF RoleCheck
  <1>4. ASSUME NEW i \in Invitations,
               \/ AcceptCheck(k, i) \/ DeclineCheck(k, i)
               \/ \E a \in Users : CancelCheck(k, a, i)
        PROVE  OrgInv'
    BY <1>1, <1>4, BeginKeeps DEF AcceptCheck, DeclineCheck, CancelCheck
  <1>5. ASSUME NEW a \in Users, NEW u \in Users, RemoveCheck(k, a, u)
        PROVE  OrgInv'
    BY <1>5, BeginKeeps DEF RemoveCheck
  <1>6. ASSUME NEW a \in Users, NEW p \in Projects, CreateCheck(k, a, p) \/ DeleteCheck(k, a, p)
        PROVE  OrgInv'
    BY <1>6, BeginKeeps DEF CreateCheck, DeleteCheck
  <1>7. ASSUME NEW a \in Users, NEW u \in Users, NEW p \in Projects,
               AddCheck(k, a, u, p) \/ DropCheck(k, a, u, p)
        PROVE  OrgInv'
    BY <1>7, BeginKeeps DEF AddCheck, DropCheck
  <1>8. ASSUME NEW a \in Users, NEW p \in Projects, NEW v \in Visibilities,
               VisibilityCheck(k, a, p, v)
        PROVE  OrgInv'
    BY <1>8, BeginKeeps DEF VisibilityCheck
  <1> QED
    BY <1>2, <1>3, <1>4, <1>5, <1>6, <1>7, <1>8 DEF Checks

----------------------------------------------------------------------------
(* The writes.                                                             *)

LEMMA InviteKeeps ==
    ASSUME OrgInv, NEW k \in Calls, NEW i \in Invitations, InviteWrite(k, i)
    PROVE  OrgInv'
PROOF
  <1> DEFINE new == [status |-> "PENDING", who |-> call[k].who, role |-> call[k].arg]
  <1>1. /\ invites' = [invites EXCEPT ![i] = new] /\ invites[i].status = "free"
        /\ UNCHANGED <<roles, explicit, entered, crossed, leftover>>
        /\ new \in [status: Statuses, who: Users \cup {None}, role: Roles]
    BY DEF OrgInv, InviteWrite, Writing, CallsTyped, Statuses
  <1>2. TablesTyped'
    BY <1>1 DEF OrgInv, TablesTyped
  <1>3. Unanswered'
    BY <1>1 DEF OrgInv, TablesTyped, Unanswered
  <1>4. NoLeftoverGrants'
    BY <1>1 DEF OrgInv, NoLeftoverGrants, Member
  <1>5. CallsTyped'
    BY CallKeeps DEF OrgInv, InviteWrite, End
  <1> QED BY <1>2, <1>3, <1>4, <1>5 DEF OrgInv

\* Accepting is possible only while nobody has.
LEMMA AcceptKeeps ==
    ASSUME OrgInv, NEW k \in Calls, AcceptWrite(k)
    PROVE  OrgInv'
PROOF
  <1> DEFINE i == call[k].at
             u == call[k].who
  <1>1. /\ invites[i].status = "PENDING"
        /\ invites' = [invites EXCEPT ![i].status = "ACCEPTED"]
        /\ roles' = [roles EXCEPT ![u] = IF @ = "none" THEN invites[i].role ELSE @]
        /\ entered' = [entered EXCEPT ![i] = @ + 1]
        /\ UNCHANGED <<explicit, crossed, leftover>>
    BY DEF AcceptWrite, Acceptable, Pending
  <1>2. \A j \in Invitations : invites[j].role \in Roles /\ "none" \notin Roles
    BY DEF OrgInv, TablesTyped, Roles
  <1>3. \A j \in Invitations :
            invites'[j].status = (IF j = i THEN "ACCEPTED" ELSE invites[j].status)
    BY <1>1 DEF OrgInv, TablesTyped
  <1>4. \A j \in Invitations : entered'[j] = (IF j = i THEN entered[j] + 1 ELSE entered[j])
    BY <1>1 DEF OrgInv, TablesTyped
  <1>5. i \in Invitations
    BY DEF OrgInv, CallsTyped, AcceptWrite, Writing
  <1>6. TablesTyped'
    <2>1. invites' \in [Invitations -> [status: Statuses, who: Users \cup {None}, role: Roles]]
      BY <1>1 DEF OrgInv, TablesTyped, Statuses
    <2>2. entered' \in [Invitations -> Nat]
      BY <1>1, <1>5 DEF OrgInv, TablesTyped
    <2>3. (IF roles[u] = "none" THEN invites[i].role ELSE roles[u]) \in Roles \cup {"none"}
          \/ u \notin Users
      BY <1>2, <1>5 DEF OrgInv, TablesTyped
    <2>4. roles' \in [Users -> Roles \cup {"none"}]
      BY <1>1, <2>3 DEF OrgInv, TablesTyped
    <2> QED BY <1>1, <2>1, <2>2, <2>4 DEF OrgInv, TablesTyped
  <1>7. Unanswered'
    BY <1>1, <1>3, <1>4 DEF OrgInv, TablesTyped, Unanswered
  <1>8. \A v \in Users : Member(v) => Member(v)'
    BY <1>1, <1>2, <1>5 DEF OrgInv, TablesTyped, Member
  <1>9. NoLeftoverGrants'
    BY <1>1, <1>8 DEF OrgInv, TablesTyped, NoLeftoverGrants
  <1>10. CallsTyped'
    BY CallKeeps DEF OrgInv, AcceptWrite, End
  <1> QED BY <1>6, <1>7, <1>9, <1>10 DEF OrgInv

\* A refusal over an acceptance is recorded in crossed; a cancelled invitation is
\* out of the count.
LEMMA RefusalsKeep ==
    ASSUME OrgInv, NEW k \in Calls, DeclineWrite(k) \/ CancelWrite(k)
    PROVE  OrgInv'
PROOF
  <1> DEFINE i == call[k].at
  <1>1. UNCHANGED <<roles, explicit, entered, leftover>>
    BY DEF DeclineWrite, CancelWrite
  <1>2. \/ /\ invites' = [invites EXCEPT ![i].status = "DECLINED"]
           /\ crossed' = (IF invites[i].status = "ACCEPTED" THEN crossed \cup {i} ELSE crossed)
           /\ invites[i].status \in {"PENDING", "ACCEPTED", "DECLINED"}
        \/ invites' = [invites EXCEPT ![i].status = "gone"] /\ UNCHANGED crossed
    BY DEF DeclineWrite, CancelWrite
  <1>3. TablesTyped'
    BY <1>1, <1>2 DEF OrgInv, TablesTyped, Statuses
  <1>4. Unanswered'
    BY <1>1, <1>2 DEF OrgInv, TablesTyped, Unanswered
  <1>5. NoLeftoverGrants'
    BY <1>1 DEF OrgInv, NoLeftoverGrants, Member
  <1>6. CallsTyped'
    BY CallKeeps DEF OrgInv, DeclineWrite, CancelWrite, End
  <1> QED BY <1>3, <1>4, <1>5, <1>6 DEF OrgInv

\* The invitations a write drops are out of the count too.
LEMMA DroppedInvitations ==
    ASSUME OrgInv, NEW I \in SUBSET Invitations,
           invites' = [i \in Invitations |->
                         IF i \in I THEN [invites[i] EXCEPT !.status = "gone"] ELSE invites[i]],
           UNCHANGED <<entered, crossed>>
    PROVE  /\ Unanswered'
           /\ invites' \in [Invitations -> [status: Statuses, who: Users \cup {None}, role: Roles]]
PROOF
  <1>1. \A i \in Invitations :
            invites'[i].status = (IF i \in I THEN "gone" ELSE invites[i].status)
    BY DEF OrgInv, TablesTyped
  <1>2. Unanswered'
    BY <1>1 DEF OrgInv, Unanswered
  <1>3. invites' \in [Invitations -> [status: Statuses, who: Users \cup {None}, role: Roles]]
    BY DEF OrgInv, TablesTyped, Statuses
  <1> QED BY <1>2, <1>3

\* The grants of a member go with the membership.
LEMMA RemoveKeeps ==
    ASSUME OrgInv, NEW k \in Calls, RemoveWrite(k)
    PROVE  OrgInv'
PROOF
  <1> DEFINE u == call[k].who
             I == {i \in Invitations : Pending(i) /\ invites[i].who = u}
  <1>1. /\ roles' = [roles EXCEPT ![u] = "none"]
        /\ explicit' = explicit \ GrantsOf(u)
        /\ leftover' = leftover \ GrantsOf(u)
        /\ UNCHANGED <<entered, crossed>>
        /\ invites' = [i \in Invitations |->
                IF i \in I THEN [invites[i] EXCEPT !.status = "gone"] ELSE invites[i]]
    BY DEF RemoveWrite
  <1>2. I \in SUBSET Invitations
    OBVIOUS
  <1>3. /\ Unanswered'
        /\ invites' \in [Invitations -> [status: Statuses, who: Users \cup {None}, role: Roles]]
    BY <1>1, <1>2, DroppedInvitations
  <1>4. TablesTyped'
    BY <1>1, <1>3 DEF OrgInv, TablesTyped
  <1>5. NoLeftoverGrants'
    <2> SUFFICES ASSUME NEW g \in explicit', g \notin leftover'
                 PROVE  Member(g[2])'
      BY DEF NoLeftoverGrants
    <2>1. g \in explicit /\ g[2] # u /\ g \notin leftover
      BY <1>1 DEF GrantsOf
    <2>2. g[2] \in Users /\ Member(g[2])
      BY <2>1 DEF OrgInv, TablesTyped, NoLeftoverGrants
    <2> QED BY <1>1, <2>1, <2>2 DEF OrgInv, TablesTyped, Member
  <1>6. CallsTyped'
    BY CallKeeps DEF OrgInv, RemoveWrite, Follow, Phases
  <1> QED BY <1>3, <1>4, <1>5, <1>6 DEF OrgInv

\* A role is given to members only, and it leaves them members.
LEMMA RoleKeeps ==
    ASSUME OrgInv, NEW k \in Calls, RoleWrite(k)
    PROVE  OrgInv'
PROOF
  <1> DEFINE u == call[k].who
  <1>1. /\ roles' = [roles EXCEPT ![u] = call[k].arg] /\ call[k].arg \in Roles
        /\ UNCHANGED <<explicit, invites, entered, crossed, leftover>>
    BY DEF OrgInv, CallsTyped, RoleWrite, Writing
  <1>2. TablesTyped'
    BY <1>1 DEF OrgInv, TablesTyped
  <1>3. \A v \in Users : Member(v) => Member(v)'
    BY <1>1 DEF OrgInv, TablesTyped, Member, Roles
  <1>4. NoLeftoverGrants'
    BY <1>1, <1>3 DEF OrgInv, TablesTyped, NoLeftoverGrants
  <1>5. Unanswered'
    BY <1>1 DEF OrgInv, Unanswered
  <1>6. CallsTyped'
    BY CallKeeps DEF OrgInv, RoleWrite, Follow, End, Phases
  <1> QED BY <1>2, <1>4, <1>5, <1>6 DEF OrgInv

\* A grant written for somebody who is no member any more is recorded in leftover.
LEMMA GrantKeeps ==
    ASSUME OrgInv, NEW k \in Calls, AddWrite(k)
    PROVE  OrgInv'
PROOF
  <1> DEFINE row == <<call[k].at, call[k].who>>
  <1>1. /\ explicit' = explicit \cup {row}
        /\ leftover' = (IF Member(row[2]) THEN leftover ELSE leftover \cup {row})
        /\ UNCHANGED <<roles, invites, entered, crossed>>
    BY DEF AddWrite
  <1>2. row \in Projects \X Users
    BY DEF OrgInv, CallsTyped, AddWrite, Writing
  <1>3. TablesTyped'
    BY <1>1, <1>2 DEF OrgInv, TablesTyped
  <1>4. NoLeftoverGrants'
    BY <1>1 DEF OrgInv, NoLeftoverGrants, Member
  <1>5. Unanswered'
    BY <1>1 DEF OrgInv, Unanswered
  <1>6. CallsTyped'
    BY CallKeeps DEF OrgInv, AddWrite, End
  <1> QED BY <1>3, <1>4, <1>5, <1>6 DEF OrgInv

\* What takes grants away takes them from leftover as well.
LEMMA ProjectKeeps ==
    ASSUME OrgInv, NEW k \in Calls,
           CreateWrite(k) \/ DropWrite(k) \/ VisibilityWrite(k) \/ DeleteWrite(k)
    PROVE  OrgInv'
PROOF
  <1>1. UNCHANGED <<roles, invites, entered, crossed>>
    BY DEF CreateWrite, DropWrite, VisibilityWrite, DeleteWrite
  <1>2. \E G : explicit' = explicit \ G /\ leftover' = leftover \ G
    <2>1. CASE CreateWrite(k) \/ VisibilityWrite(k)
      <3>1. explicit' = explicit \ {} /\ leftover' = leftover \ {}
        BY <2>1 DEF CreateWrite, VisibilityWrite
      <3> QED BY <3>1
    <2>2. CASE DropWrite(k)
      BY <2>2 DEF DropWrite
    <2>3. CASE DeleteWrite(k)
      BY <2>3 DEF DeleteWrite
    <2> QED BY <2>1, <2>2, <2>3
  <1>3. TablesTyped'
    BY <1>1, <1>2 DEF OrgInv, TablesTyped
  <1>4. NoLeftoverGrants'
    BY <1>1, <1>2 DEF OrgInv, NoLeftoverGrants, Member
  <1>5. Unanswered'
    BY <1>1 DEF OrgInv, Unanswered
  <1>6. CallsTyped'
    BY CallKeeps
       DEF OrgInv, CreateWrite, DropWrite, VisibilityWrite, DeleteWrite, End, Follow, Phases
  <1> QED BY <1>3, <1>4, <1>5, <1>6 DEF OrgInv

\* With the organisation everything goes.
LEMMA EndKeeps ==
    ASSUME OrgInv, NEW k \in Calls, DeleteOrganization(k)
    PROVE  OrgInv'
PROOF
  <1>1. /\ roles' = [u \in Users |-> "none"] /\ explicit' = {} /\ leftover' = {}
        /\ invites' = [i \in Invitations |-> [invites[i] EXCEPT !.status = "gone"]]
        /\ UNCHANGED <<call, entered, crossed>>
    BY DEF DeleteOrganization
  <1>2. /\ Unanswered'
        /\ invites' \in [Invitations -> [status: Statuses, who: Users \cup {None}, role: Roles]]
    BY <1>1, DroppedInvitations
  <1>3. TablesTyped'
    BY <1>1, <1>2 DEF OrgInv, TablesTyped
  <1>4. NoLeftoverGrants'
    BY <1>1 DEF NoLeftoverGrants
  <1>5. CallsTyped'
    BY <1>1, CallKeeps DEF OrgInv
  <1> QED BY <1>2, <1>3, <1>4, <1>5 DEF OrgInv

----------------------------------------------------------------------------
LEMMA OrgStarts == Init => OrgInv
PROOF
  <1> SUFFICES ASSUME Init PROVE OrgInv
    OBVIOUS
  <1>1. CallsTyped
    <2>1. Idle \in Work /\ Idle.op = "idle"
      BY DEF Idle, Work, Ops, Phases
    <2> QED BY <2>1 DEF Init, MembershipInit, CallsTyped
  <1>2. TablesTyped
    BY DEF Init, MembershipInit, TablesTyped, Statuses, Roles
  <1>3. Unanswered
    BY DEF Init, MembershipInit, Unanswered
  <1>4. NoLeftoverGrants
    BY DEF Init, MembershipInit, NoLeftoverGrants
  <1> QED BY <1>1, <1>2, <1>3, <1>4 DEF OrgInv

LEMMA OrgKeeps == OrgInv /\ [Next]_vars => OrgInv'
PROOF
  <1> SUFFICES ASSUME OrgInv, [Next]_vars PROVE OrgInv'
    OBVIOUS
  <1>1. CASE UNCHANGED vars
    <2>1. SameTables /\ UNCHANGED call
      BY <1>1 DEF vars, memberVars, SameTables
    <2> QED BY <2>1, SameKeep, CallKeeps DEF OrgInv
  <1>2. ASSUME NEW k \in Calls, Granted(k) PROVE OrgInv'
    BY <1>2, InviteKeeps, AcceptKeeps, RefusalsKeep, ProjectKeeps, GrantKeeps
       DEF Granted, Grants
  <1>3. ASSUME NEW k \in Calls, Lost(k) PROVE OrgInv'
    BY <1>3, RemoveKeeps, RoleKeeps, ProjectKeeps, EndKeeps DEF Lost, Losses
  <1>4. ASSUME NEW k \in Calls, Checks(k) PROVE OrgInv'
    BY <1>4, ChecksKeep
  <1> QED BY <1>1, <1>2, <1>3, <1>4, RoomSteps DEF Next

LEMMA OrgInvariance == Spec => []OrgInv
PROOF
  BY OrgStarts, OrgKeeps, PTL DEF Spec

\* An invitation brings its user in at most once, however many answers to it are at
\* work, and its status tells whether it did unless a refusal crossed an acceptance.
THEOREM AnsweredOnceCorrect == Spec => []AnsweredOnce
PROOF
  <1>1. OrgInv => AnsweredOnce
    BY DEF OrgInv, Unanswered, AnsweredOnce
  <1> QED BY <1>1, OrgInvariance, PTL

\* Nobody keeps a grant to a project beyond the membership, except by a call that
\* had checked the membership before its end.
THEOREM NoLeftoverGrantsCorrect == Spec => []NoLeftoverGrants
PROOF
  <1>1. OrgInv => NoLeftoverGrants
    BY DEF OrgInv
  <1> QED BY <1>1, OrgInvariance, PTL

\* The access check, the list of projects and the audience of a project follow one
\* rule in every state there is.
THEOREM OneRuleCorrect == Spec => []OneRule
PROOF
  <1>1. OneRule
    BY DEF OneRule, VisibleProjects, CanSee, Audience
  <1> QED BY <1>1, PTL

----------------------------------------------------------------------------
(* Types.                                                                   *)

\* A call is of one kind until it ends; which phases it goes through depends on it.
FormOf(c) ==
    /\ c.op = "idle" => c = Idle
    /\ c.op \in {"remove", "role", "demote", "invite"} => c.at = None
    /\ c.op \in {"create", "add", "drop", "visibility", "delete"} => c.at \in Projects
    /\ c.op \in {"create", "add"} => c.who \in Users
    /\ c.op = "visibility" => c.arg \in Visibilities
    /\ c.phase = "evict" => c.op \in {"remove", "demote"}
    /\ c.phase \in {"revalidate", "scan"} => c.op \in {"drop", "visibility"}
    /\ c.phase = "leave" => c.op \in {"remove", "demote", "drop", "visibility"}

MembersTyped ==
    /\ visibility \in [Projects -> Visibilities \cup {"unborn", "gone"}]
    /\ owner \in [Projects -> Users]
    /\ \A g \in explicit : Live(g[1])
    /\ leftover \subseteq explicit
    /\ begun \in 0 .. MaxBegun
    /\ crossed \subseteq Invitations

RoomsTyped ==
    /\ link \in [Sockets -> {"down", "hello", "up"}]
    /\ holds \in [Sockets -> SUBSET Places]
    /\ \A s \in Sockets : link[s] = "down" => holds[s] = {}
    /\ asked \subseteq {s \in Sockets : Up(s)} \X Places
    /\ todo \in [Calls -> SUBSET {s \in Sockets : Up(s)}]
    /\ scope \in [Calls -> SUBSET Projects]
    /\ turn \in [Calls -> SUBSET ({s \in Sockets : Up(s)} \X Places)]
    /\ losers \in [Calls -> SUBSET Users]
    /\ stray \subseteq Sockets \X Places

\* What a follow-up has before it, by phase.
WorkFits(k) ==
    /\ call[k].phase \notin {"scan", "leave"} => todo[k] = {} /\ turn[k] = {} /\ losers[k] = {}
    /\ call[k].phase \in {"scan", "leave"} /\ call[k].at # None => scope[k] = {call[k].at}
    /\ call[k].phase = "scan" => turn[k] = {}
    /\ \A x, y \in turn[k] : x[1] = y[1]
    /\ \A x \in turn[k] : x[2][1] = "card"

TypesInv ==
    /\ OrgInv /\ MembersTyped /\ RoomsTyped
    /\ \A k \in Calls : FormOf(call[k]) /\ WorkFits(k)

LEMMA PlaceForms ==
    ASSUME NEW pl \in Places
    PROVE  /\ pl = Org \/ (pl[1] \in {"project", "listed", "card"} /\ pl # Org /\ At(pl) \in Projects)
           /\ Org[1] = "org"
           /\ pl[1] = "project" => pl = ProjectRoom(At(pl))
PROOF
  BY RoomsAssumption DEF RoomsAssumption, Places, Org, ProjectRoom, Listed, CardRoom, At

LEMMA RoomForms ==
    ASSUME NEW p \in Projects
    PROVE  /\ ProjectRoom(p) \in Places /\ Listed(p) \in Places
           /\ ProjectRoom(p)[1] = "project" /\ Listed(p)[1] = "listed"
           /\ At(ProjectRoom(p)) = p /\ At(Listed(p)) = p
           /\ ProjectRoom(p) # Org /\ Listed(p) # Org
PROOF
  BY DEF Places, Org, ProjectRoom, Listed, At

\* What a request opens is where its place is.
LEMMA OpensForms ==
    ASSUME NEW pl \in Places, NEW q \in Opens(pl)
    PROVE  /\ q \in Places /\ (q = Org <=> pl = Org)
           /\ At(q) = At(pl) /\ \A u : May(u, q) <=> May(u, pl)
PROOF
  <1>1. CASE pl[1] = "project"
    <2>1. At(pl) \in Projects /\ pl # Org /\ pl[2] = At(pl)
      BY <1>1, PlaceForms DEF At
    <2>2. q = pl \/ q = Listed(At(pl))
      BY <1>1, <2>1 DEF Opens
    <2>3. q \in Places /\ q # Org /\ At(q) = At(pl)
      BY <2>1, <2>2, RoomForms
    <2> QED BY <2>1, <2>3 DEF May
  <1>2. CASE pl[1] # "project"
    BY <1>2 DEF Opens
  <1> QED BY <1>1, <1>2

LEMMA IdleIs == FormOf(Idle) /\ Idle.phase = "" /\ Idle \in Work /\ Idle.op = "idle"
PROOF
  BY DEF FormOf, Idle, Work, Ops, Phases

\* A call that changes keeps its form.
LEMMA FormsKept ==
    ASSUME NEW c, FormOf(c), c.phase = "write" \/ c.phase \in {"evict", "revalidate", "scan"},
           c \in Work, NEW d,
           \/ d = Idle
           \/ /\ d.op = c.op /\ d.at = c.at /\ d.who = c.who /\ d.arg = c.arg /\ c.op # "idle"
              /\ \/ d.phase = "evict" /\ c.op \in {"remove", "demote"}
                 \/ d.phase \in {"revalidate", "scan"} /\ c.op \in {"drop", "visibility"}
                 \/ d.phase = "leave" /\ c.phase \in {"evict", "scan"}
    PROVE  FormOf(d)
PROOF
  <1>1. CASE d = Idle
    BY <1>1, IdleIs
  <1>2. CASE d # Idle
    <2>1. d.op = c.op /\ d.at = c.at /\ d.who = c.who /\ d.arg = c.arg /\ c.op # "idle"
      BY <1>2
    <2>2. d.phase = "evict" => c.op \in {"remove", "demote"}
      BY <1>2
    <2>3. d.phase \in {"revalidate", "scan"} => c.op \in {"drop", "visibility"}
      BY <1>2
    <2>4. d.phase = "leave" => c.op \in {"remove", "demote", "drop", "visibility"}
      BY <1>2 DEF FormOf
    <2> QED BY <2>1, <2>2, <2>3, <2>4 DEF FormOf
  <1> QED BY <1>1, <1>2

\* Of one call the phase changes.
LEMMA PhaseOf ==
    ASSUME OrgInv, NEW k \in Calls, NEW ph \in Phases, call' = [call EXCEPT ![k].phase = ph]
    PROVE  /\ \A j \in Calls \ {k} : call'[j] = call[j]
           /\ call'[k].phase = ph /\ call'[k].op = call[k].op /\ call'[k].at = call[k].at
           /\ call'[k].who = call[k].who /\ call'[k].arg = call[k].arg
PROOF
  BY DEF OrgInv, CallsTyped, Work

\* Of one call everything may change.
LEMMA OneCall ==
    ASSUME TypesInv, OrgInv', MembersTyped', RoomsTyped', NEW k \in Calls,
           \A j \in Calls \ {k} :
             /\ call'[j] = call[j] /\ scope'[j] = scope[j] /\ losers'[j] = losers[j]
             /\ todo'[j] \subseteq todo[j] /\ turn'[j] \subseteq turn[j],
           FormOf(call'[k]), WorkFits(k)'
    PROVE  TypesInv'
PROOF
  <1>1. ASSUME NEW j \in Calls, j # k PROVE FormOf(call'[j]) /\ WorkFits(j)'
    BY <1>1 DEF TypesInv, WorkFits
  <1> QED BY <1>1 DEF TypesInv

LEMMA RoomsStart == Init => TypesInv
PROOF
  <1> SUFFICES ASSUME Init PROVE TypesInv
    OBVIOUS
  <1>1. OrgInv
    BY OrgStarts
  <1>2. MembersTyped
    BY MembershipAssumption DEF MembershipAssumption, Init, MembershipInit, MembersTyped
  <1>3. RoomsTyped
    BY DEF Init, RoomsTyped
  <1>4. \A k \in Calls : FormOf(call[k]) /\ WorkFits(k)
    BY IdleIs DEF Init, MembershipInit, WorkFits
  <1> QED BY <1>1, <1>2, <1>3, <1>4 DEF TypesInv

\* Steps of connections.
LEMMA SocketsTyped ==
    ASSUME TypesInv, OrgInv', NEW s \in Sockets,
           \/ Hello(s) \/ Connect(s) \/ Disconnect(s)
           \/ \E pl \in Places : Ask(s, pl) \/ Enter(s, pl) \/ Leave(s, pl)
    PROVE  TypesInv'
PROOF
  <1>0. RoomsTyped /\ MembersTyped /\ MembersTyped'
    <2>1. UNCHANGED memberVars /\ (begun' = begun \/ (begun < MaxBegun /\ begun' = begun + 1))
      BY DEF Hello, Connect, Disconnect, Ask, Enter, Leave
    <2>2. begun \in 0 .. MaxBegun /\ MaxBegun \in Nat
      BY MembershipAssumption DEF MembershipAssumption, TypesInv, MembersTyped
    <2>3. begun' \in 0 .. MaxBegun
      BY <2>1, <2>2
    <2> QED BY <2>1, <2>3 DEF TypesInv, MembersTyped, Live, memberVars
  <1>1. CASE Hello(s)
    <2>1. /\ \A p \in VisibleProjects(SocketUser[s]) : p \in Projects
          /\ Org \in Places
      BY DEF VisibleProjects, Places
    <2>2. holds' \in [Sockets -> SUBSET Places]
      <3> DEFINE A == (UNION {{ProjectRoom(p), Listed(p)} : p \in VisibleProjects(SocketUser[s])})
                 B == IF Member(SocketUser[s]) THEN {Org} ELSE {}
                 H == A \cup B
      <3> HIDE DEF A, B
      <3>2. H \subseteq Places
        <4>1. \A p \in VisibleProjects(SocketUser[s]) : {ProjectRoom(p), Listed(p)} \subseteq Places
          BY <2>1, RoomForms
        <4> SUFFICES ASSUME NEW q \in H PROVE q \in Places
          OBVIOUS
        <4>2. CASE q \in A
          <5>1. PICK X \in {{ProjectRoom(p), Listed(p)} : p \in VisibleProjects(SocketUser[s])} : q \in X
            BY <4>2 DEF A
          <5>2. PICK p \in VisibleProjects(SocketUser[s]) : X = {ProjectRoom(p), Listed(p)}
            BY <5>1
          <5> QED BY <4>1, <5>1, <5>2
        <4>3. CASE q \in B
          BY <2>1, <4>3 DEF B
        <4> QED BY <4>2, <4>3
      <3>3. holds' = [holds EXCEPT ![s] = H]
        BY <1>1 DEF Hello, A, B
      <3> HIDE DEF H
      <3> QED BY <1>0, <3>2, <3>3 DEF RoomsTyped
    <2>3. RoomsTyped'
      BY <1>0, <1>1, <2>2 DEF Hello, RoomsTyped, Up, workVars
    <2> QED BY <1>0, <1>1, <2>3 DEF Hello, TypesInv, WorkFits, workVars
  <1>2. CASE Connect(s)
    <2>1. RoomsTyped'
      BY <1>0, <1>2 DEF Connect, RoomsTyped, Up, workVars
    <2> QED BY <1>0, <1>2, <2>1 DEF Connect, TypesInv, WorkFits, workVars
  <1>3. CASE Disconnect(s)
    <2>1. /\ link' = [link EXCEPT ![s] = "down"]
          /\ holds' = [holds EXCEPT ![s] = {}]
          /\ asked' = {a \in asked : a[1] # s}
          /\ todo' = [k \in Calls |-> todo[k] \ {s}]
          /\ turn' = [k \in Calls |-> {x \in turn[k] : x[1] # s}]
          /\ UNCHANGED <<call, scope, losers>>
      BY <1>3 DEF Disconnect
    <2>2. \A t \in Sockets : Up(t)' <=> Up(t) /\ t # s
      BY <1>0, <2>1 DEF RoomsTyped, Up
    <2>3. Excess' \subseteq Sockets \X Places
      BY DEF Excess
    <2>4. stray' \subseteq Sockets \X Places
      BY <1>0, <1>3, <2>3 DEF Disconnect, Unfollowed, RoomsTyped
    <2>5. /\ asked' \subseteq {t \in Sockets : Up(t)'} \X Places
          /\ todo' \in [Calls -> SUBSET {t \in Sockets : Up(t)'}]
          /\ turn' \in [Calls -> SUBSET ({t \in Sockets : Up(t)'} \X Places)]
      BY <1>0, <2>1, <2>2 DEF RoomsTyped
    <2>6. RoomsTyped'
      BY <1>0, <2>1, <2>4, <2>5 DEF RoomsTyped
    <2> QED BY <1>0, <2>1, <2>6 DEF TypesInv, WorkFits
  <1>4. ASSUME NEW pl \in Places, Ask(s, pl) PROVE TypesInv'
    <2>1. RoomsTyped'
      BY <1>0, <1>4 DEF Ask, RoomsTyped, Up, workVars
    <2> QED BY <1>0, <1>4, <2>1 DEF Ask, TypesInv, WorkFits, workVars
  <1>5. ASSUME NEW pl \in Places, Enter(s, pl) PROVE TypesInv'
    <2>1. Opens(pl) \subseteq Places /\ Up(s)
      BY <1>0, <1>5, OpensForms DEF Enter, RoomsTyped
    <2>2. holds' \in [Sockets -> SUBSET Places] /\ link[s] # "down"
      BY <1>0, <1>5, <2>1 DEF Enter, RoomsTyped, Up
    <2>3. RoomsTyped'
      BY <1>0, <1>5, <2>2 DEF Enter, RoomsTyped, Up, workVars
    <2> QED BY <1>0, <1>5, <2>3 DEF Enter, TypesInv, WorkFits, workVars
  <1>6. ASSUME NEW pl \in Places, Leave(s, pl) PROVE TypesInv'
    <2>1. stray' \subseteq Sockets \X Places
      BY <1>0, <1>6 DEF Leave, Unfollowed, Excess, RoomsTyped
    <2>2. RoomsTyped'
      BY <1>0, <1>6, <2>1 DEF Leave, RoomsTyped, Up, workVars
    <2> QED BY <1>0, <1>6, <2>2 DEF Leave, TypesInv, WorkFits, workVars
  <1> QED BY <1>1, <1>2, <1>3, <1>4, <1>5, <1>6

LEMMA RequestForm ==
    ASSUME NEW k \in Calls, NEW op, NEW u, NEW p, NEW a, Begin(k, Request(op, u, p, a)),
           op # "idle",
           op \in {"remove", "role", "demote", "invite"} => p = None,
           op \in {"create", "add", "drop", "visibility", "delete"} => p \in Projects,
           op \in {"create", "add"} => u \in Users,
           op = "visibility" => a \in Visibilities
    PROVE  \E c : Begin(k, c) /\ FormOf(c) /\ c.phase = "write"
PROOF
  <1>1. PICK c : c = Request(op, u, p, a)
    OBVIOUS
  <1>2. c.op = op /\ c.who = u /\ c.at = p /\ c.arg = a /\ c.phase = "write"
    BY <1>1 DEF Request
  <1> QED BY <1>1, <1>2 DEF FormOf

\* A call begins, or ends without a write.
LEMMA ChecksTyped ==
    ASSUME TypesInv, OrgInv', NEW k \in Calls, Checks(k) \/ Refuse(k), UNCHANGED roomVars
    PROVE  TypesInv'
PROOF
  <1>0. UNCHANGED memberVars /\ UNCHANGED <<link, holds, asked, todo, scope, turn, losers, stray>>
    BY DEF Checks, Refuse, Begin, InviteCheck, RoleCheck, AcceptCheck, DeclineCheck, CancelCheck,
           RemoveCheck, CreateCheck, DeleteCheck, AddCheck, DropCheck, VisibilityCheck,
           roomVars, workVars
  <1>1. RoomsTyped'
    BY <1>0 DEF TypesInv, RoomsTyped, Up
  <1>2. CASE Refuse(k)
    <2>1. call' = [call EXCEPT ![k] = Idle] /\ UNCHANGED begun /\ call[k].phase = "write"
      BY <1>2 DEF Refuse, End
    <2>2. call'[k] = Idle /\ \A j \in Calls \ {k} : call'[j] = call[j]
      BY <2>1 DEF TypesInv, OrgInv, CallsTyped
    <2>3. MembersTyped'
      BY <1>0, <2>1 DEF TypesInv, MembersTyped, Live, memberVars
    <2>4. WorkFits(k)'
      BY <1>0, <2>1, <2>2, IdleIs DEF TypesInv, WorkFits
    <2> QED BY <1>0, <1>1, <2>2, <2>3, <2>4, IdleIs, OneCall
  <1>3. CASE Checks(k)
    <2>1. PICK c : /\ Begin(k, c) /\ c \in Work /\ FormOf(c) /\ c.phase = "write"
      <3>1. ASSUME NEW a \in Users, NEW u \in Users, NEW r \in Roles,
                   InviteCheck(k, a, u, r) \/ RoleCheck(k, a, u, r)
            PROVE  \E c : Begin(k, c) /\ FormOf(c) /\ c.phase = "write"
        BY <3>1, RequestForm DEF InviteCheck, RoleCheck
      <3>2. ASSUME NEW i \in Invitations, AcceptCheck(k, i) \/ DeclineCheck(k, i) \/ \E a \in Users : CancelCheck(k, a, i)
            PROVE  \E c : Begin(k, c) /\ FormOf(c) /\ c.phase = "write"
        BY <3>2, RequestForm DEF AcceptCheck, DeclineCheck, CancelCheck
      <3>3. ASSUME NEW a \in Users, NEW u \in Users, RemoveCheck(k, a, u)
            PROVE  \E c : Begin(k, c) /\ FormOf(c) /\ c.phase = "write"
        BY <3>3, RequestForm DEF RemoveCheck
      <3>4. ASSUME NEW a \in Users, NEW p \in Projects, CreateCheck(k, a, p) \/ DeleteCheck(k, a, p)
            PROVE  \E c : Begin(k, c) /\ FormOf(c) /\ c.phase = "write"
        BY <3>4, RequestForm DEF CreateCheck, DeleteCheck
      <3>5. ASSUME NEW a \in Users, NEW u \in Users, NEW p \in Projects, AddCheck(k, a, u, p) \/ DropCheck(k, a, u, p)
            PROVE  \E c : Begin(k, c) /\ FormOf(c) /\ c.phase = "write"
        BY <3>5, RequestForm DEF AddCheck, DropCheck
      <3>6. ASSUME NEW a \in Users, NEW p \in Projects, NEW v \in Visibilities, VisibilityCheck(k, a, p, v)
            PROVE  \E c : Begin(k, c) /\ FormOf(c) /\ c.phase = "write"
        BY <3>6, RequestForm DEF VisibilityCheck
      <3>7. PICK c : Begin(k, c) /\ FormOf(c) /\ c.phase = "write"
        BY <1>3, <3>1, <3>2, <3>3, <3>4, <3>5, <3>6 DEF Checks
      <3>8. c \in Work
        BY <3>7 DEF Begin, OrgInv, CallsTyped, TypesInv
      <3> QED BY <3>7, <3>8
    <2>2. /\ call[k] = Idle /\ begun < MaxBegun /\ begun' = begun + 1
          /\ call' = [call EXCEPT ![k] = c]
      BY <2>1 DEF Begin
    <2>3. call'[k] = c /\ \A j \in Calls \ {k} : call'[j] = call[j]
      BY <2>2 DEF TypesInv, OrgInv, CallsTyped
    <2>4. MembersTyped'
      BY <1>0, <2>2, MembershipAssumption DEF MembershipAssumption, TypesInv, MembersTyped, Live, memberVars
    <2>5. WorkFits(k)'
      BY <1>0, <2>1, <2>2, <2>3, IdleIs DEF TypesInv, WorkFits
    <2> QED BY <1>0, <1>1, <2>1, <2>3, <2>4, <2>5, OneCall
  <1> QED BY <1>2, <1>3

\* A call that writes: it ends, or its follow-up is due.
LEMMA WrittenTyped ==
    ASSUME TypesInv, OrgInv', NEW k \in Calls, call[k].phase = "write",
           \/ End(k)
           \/ Follow(k, "evict") /\ call[k].op \in {"remove", "demote"}
           \/ Follow(k, "revalidate") /\ call[k].op \in {"drop", "visibility"},
           UNCHANGED <<link, holds, asked, workVars>>, stray' \subseteq Sockets \X Places,
           visibility' \in [Projects -> Visibilities \cup {"unborn", "gone"}],
           owner' \in [Projects -> Users], leftover' \subseteq explicit',
           \A g \in explicit' : Live(g[1])', crossed' \subseteq Invitations
    PROVE  TypesInv'
PROOF
  <1>1. /\ UNCHANGED begun /\ \A j \in Calls \ {k} : call'[j] = call[j]
        /\ \/ call'[k] = Idle
           \/ /\ call'[k].op = call[k].op /\ call'[k].at = call[k].at
              /\ call'[k].who = call[k].who /\ call'[k].arg = call[k].arg
              /\ \/ call'[k].phase = "evict" /\ call[k].op \in {"remove", "demote"}
                 \/ call'[k].phase = "revalidate" /\ call[k].op \in {"drop", "visibility"}
    <2>1. CASE End(k)
      BY <2>1 DEF End, TypesInv, OrgInv, CallsTyped
    <2>2. CASE Follow(k, "evict") /\ call[k].op \in {"remove", "demote"}
      BY <2>2, PhaseOf DEF Follow, TypesInv, Phases
    <2>3. CASE Follow(k, "revalidate") /\ call[k].op \in {"drop", "visibility"}
      BY <2>3, PhaseOf DEF Follow, TypesInv, Phases
    <2> QED BY <2>1, <2>2, <2>3
  <1>2. FormOf(call[k]) /\ call[k] \in Work /\ call[k].op # "idle"
    <2>1. FormOf(call[k]) /\ call[k] \in Work
      BY DEF TypesInv, OrgInv, CallsTyped
    <2> QED BY <2>1, IdleIs DEF FormOf
  <1>3. FormOf(call'[k])
    BY <1>1, <1>2, FormsKept
  <1>4. WorkFits(k)'
    BY <1>1, IdleIs DEF TypesInv, WorkFits, workVars
  <1>5. MembersTyped'
    BY <1>1 DEF TypesInv, MembersTyped
  <1>6. RoomsTyped'
    BY DEF TypesInv, RoomsTyped, Up, workVars
  <1> QED BY <1>1, <1>3, <1>4, <1>5, <1>6, OneCall DEF workVars

LEMMA GrantedTyped ==
    ASSUME TypesInv, OrgInv', NEW k \in Calls, Granted(k)
    PROVE  TypesInv'
PROOF
  <1>0. MembersTyped /\ RoomsTyped /\ FormOf(call[k])
    BY DEF TypesInv
  <1>1. /\ call[k].phase = "write" /\ End(k)
        /\ UNCHANGED <<link, holds, asked, workVars, stray>>
    BY DEF Granted, Grants, InviteWrite, AcceptWrite, DeclineWrite, CancelWrite, CreateWrite, AddWrite,
           Writing, roomVars
  <1>2. CASE (\E i \in Invitations : InviteWrite(k, i)) \/ AcceptWrite(k) \/ DeclineWrite(k) \/ CancelWrite(k)
    <2>1. UNCHANGED <<visibility, owner, explicit, leftover>>
      BY <1>2 DEF InviteWrite, AcceptWrite, DeclineWrite, CancelWrite
    <2>2. crossed' \subseteq Invitations
      <3>1. CASE DeclineWrite(k)
        <4>1. call[k].at \in Invitations
          BY <3>1 DEF DeclineWrite, Writing, TypesInv, OrgInv, CallsTyped
        <4> QED BY <1>0, <3>1, <4>1 DEF DeclineWrite, MembersTyped
      <3>2. CASE ~DeclineWrite(k)
        BY <1>0, <1>2, <3>2 DEF InviteWrite, AcceptWrite, CancelWrite, MembersTyped
      <3> QED BY <3>1, <3>2
    <2>3. \A g \in explicit' : Live(g[1])'
      BY <1>0, <2>1 DEF MembersTyped, Live
    <2> QED BY <1>0, <1>1, <2>1, <2>2, <2>3, WrittenTyped DEF MembersTyped, RoomsTyped
  <1>3. CASE CreateWrite(k)
    <2>1. /\ call[k].at \in Projects /\ call[k].who \in Users
          /\ visibility' = [visibility EXCEPT ![call[k].at] = "ORG"]
          /\ owner' = [owner EXCEPT ![call[k].at] = call[k].who]
          /\ UNCHANGED <<explicit, leftover, crossed>>
      BY <1>0, <1>3 DEF CreateWrite, Writing, FormOf
    <2>2. visibility' \in [Projects -> Visibilities \cup {"unborn", "gone"}] /\ owner' \in [Projects -> Users]
      BY <1>0, <2>1 DEF MembersTyped, Visibilities
    <2>3. \A g \in explicit : g[1] \in Projects
      BY DEF TypesInv, OrgInv, TablesTyped
    <2>4. \A g \in explicit' : Live(g[1])'
      BY <1>0, <2>1, <2>3 DEF MembersTyped, Live, Visibilities
    <2> QED BY <1>0, <1>1, <2>1, <2>2, <2>4, WrittenTyped DEF MembersTyped, RoomsTyped
  <1>4. CASE AddWrite(k)
    <2>1. /\ Live(call[k].at) /\ UNCHANGED <<visibility, owner, crossed>>
          /\ explicit' = explicit \cup {<<call[k].at, call[k].who>>}
          /\ leftover' \subseteq leftover \cup {<<call[k].at, call[k].who>>}
      BY <1>4 DEF AddWrite
    <2>2. \A g \in explicit' : Live(g[1])'
      BY <1>0, <2>1 DEF MembersTyped, Live
    <2> QED BY <1>0, <1>1, <2>1, <2>2, WrittenTyped DEF MembersTyped, RoomsTyped
  <1> QED BY <1>2, <1>3, <1>4 DEF Granted, Grants

LEMMA LostTyped ==
    ASSUME TypesInv, OrgInv', NEW k \in Calls, Lost(k)
    PROVE  TypesInv'
PROOF
  <1>0. MembersTyped /\ RoomsTyped /\ FormOf(call[k])
    BY DEF TypesInv
  <1>1. stray' \subseteq Sockets \X Places
    <2>1. Excess' \subseteq Sockets \X Places
      BY DEF Excess
    <2> QED BY <1>0, <2>1 DEF Lost, RoomsTyped
  <1>2. UNCHANGED <<link, holds, asked, workVars>>
    BY DEF Lost
  <1>3. CASE RemoveWrite(k)
    <2>1. /\ call[k].phase = "write" /\ Follow(k, "evict") /\ call[k].op = "remove"
          /\ UNCHANGED <<visibility, owner, crossed>>
          /\ \E G : explicit' = explicit \ G /\ leftover' = leftover \ G
      BY <1>3 DEF RemoveWrite, Writing
    <2>2. \A g \in explicit' : Live(g[1])'
      BY <1>0, <2>1 DEF MembersTyped, Live
    <2> QED BY <1>0, <1>1, <1>2, <2>1, <2>2, WrittenTyped DEF MembersTyped
  <1>4. CASE RoleWrite(k)
    <2>1. /\ call[k].phase = "write"
          /\ End(k) \/ (Follow(k, "evict") /\ call[k].op = "demote")
          /\ UNCHANGED <<visibility, owner, crossed, explicit, leftover>>
      BY <1>4 DEF RoleWrite, Writing
    <2>2. \A g \in explicit' : Live(g[1])'
      BY <1>0, <2>1 DEF MembersTyped, Live
    <2> QED BY <1>0, <1>1, <1>2, <2>1, <2>2, WrittenTyped DEF MembersTyped
  <1>5. CASE DropWrite(k)
    <2>1. /\ call[k].phase = "write" /\ Follow(k, "revalidate") /\ call[k].op = "drop"
          /\ UNCHANGED <<visibility, owner, crossed>>
          /\ \E G : explicit' = explicit \ G /\ leftover' = leftover \ G
      BY <1>5 DEF DropWrite, Writing
    <2>2. \A g \in explicit' : Live(g[1])'
      BY <1>0, <2>1 DEF MembersTyped, Live
    <2> QED BY <1>0, <1>1, <1>2, <2>1, <2>2, WrittenTyped DEF MembersTyped
  <1>6. CASE VisibilityWrite(k)
    <2>1. /\ call[k].phase = "write" /\ Follow(k, "revalidate") /\ call[k].op = "visibility"
          /\ call[k].at \in Projects /\ call[k].arg \in Visibilities
          /\ visibility' = [visibility EXCEPT ![call[k].at] = call[k].arg]
          /\ UNCHANGED <<owner, crossed, explicit, leftover>>
      BY <1>0, <1>6 DEF VisibilityWrite, Writing, FormOf
    <2>2. visibility' \in [Projects -> Visibilities \cup {"unborn", "gone"}]
      BY <1>0, <2>1 DEF MembersTyped
    <2>3. \A g \in explicit : g[1] \in Projects
      BY DEF TypesInv, OrgInv, TablesTyped
    <2>4. \A g \in explicit' : Live(g[1])'
      BY <1>0, <2>1, <2>3 DEF MembersTyped, Live
    <2> QED BY <1>0, <1>1, <1>2, <2>1, <2>2, <2>4, WrittenTyped DEF MembersTyped
  <1>7. CASE DeleteWrite(k)
    <2>1. /\ call[k].phase = "write" /\ End(k) /\ call[k].at \in Projects
          /\ visibility' = [visibility EXCEPT ![call[k].at] = "gone"]
          /\ explicit' = explicit \ RowsOf({call[k].at}) /\ leftover' = leftover \ RowsOf({call[k].at})
          /\ UNCHANGED <<owner, crossed>>
      BY <1>0, <1>7 DEF DeleteWrite, Writing, FormOf
    <2>2. visibility' \in [Projects -> Visibilities \cup {"unborn", "gone"}]
      BY <1>0, <2>1 DEF MembersTyped
    <2>3. \A g \in explicit : g[1] \in Projects
      BY DEF TypesInv, OrgInv, TablesTyped
    <2>4. \A g \in explicit' : Live(g[1])'
      BY <1>0, <2>1, <2>3 DEF MembersTyped, Live, RowsOf
    <2> QED BY <1>0, <1>1, <1>2, <2>1, <2>2, <2>4, WrittenTyped DEF MembersTyped
  <1>8. CASE DeleteOrganization(k)
    <2>1. /\ begun' \in 0 .. MaxBegun /\ visibility' = [p \in Projects |-> "gone"]
          /\ explicit' = {} /\ leftover' = {} /\ UNCHANGED <<owner, call, crossed>>
      BY <1>0, <1>8, MembershipAssumption DEF DeleteOrganization, MembersTyped, MembershipAssumption
    <2>2. MembersTyped'
      BY <1>0, <2>1 DEF MembersTyped
    <2>3. RoomsTyped'
      BY <1>0, <1>1, <1>2 DEF RoomsTyped, Up, workVars
    <2> QED BY <1>0, <1>2, <2>1, <2>2, <2>3 DEF TypesInv, WorkFits, workVars
  <1> QED BY <1>3, <1>4, <1>5, <1>6, <1>7, <1>8 DEF Lost, Losses

\* A step of a follow-up.
LEMMA FollowTyped ==
    ASSUME TypesInv, OrgInv', NEW k \in Calls,
           \/ EvictStart(k) \/ LeaveCards(k) \/ EvictNext(k) \/ ScanStart(k) \/ ScanEnd(k) \/ Stop(k)
           \/ \E s \in Sockets : LeaveRooms(k, s) \/ Scan(k, s)
    PROVE  TypesInv'
PROOF
  <1>0. MembersTyped /\ RoomsTyped /\ FormOf(call[k]) /\ WorkFits(k) /\ call[k] \in Work
    BY DEF TypesInv, OrgInv, CallsTyped
  <1>1. Quiet
    BY DEF EvictStart, LeaveCards, EvictNext, ScanStart, ScanEnd, Stop, LeaveRooms, Scan
  <1>2. MembersTyped'
    BY <1>0, <1>1 DEF Quiet, memberVars, MembersTyped, Live
  <1>3. Excess' \subseteq Sockets \X Places
    BY DEF Excess
  <1>4. \A s \in Sockets : Up(s)' <=> Up(s)
    BY <1>1 DEF Quiet, Up
  <1>5. ASSUME RoomsTyped', FormOf(call'[k]), WorkFits(k)',
               \A j \in Calls \ {k} :
                 /\ call'[j] = call[j] /\ scope'[j] = scope[j] /\ losers'[j] = losers[j]
                 /\ todo'[j] = todo[j] /\ turn'[j] = turn[j]
        PROVE  TypesInv'
    BY <1>2, <1>5, OneCall
  <1>6. CASE EvictStart(k)
    <2>1. PICK S : S = SocketsOf(call[k].who)
      OBVIOUS
    <2>2. /\ call[k].phase = "evict"
          /\ todo' = [todo EXCEPT ![k] = S]
          /\ scope' = [scope EXCEPT ![k] = {p \in Projects : Live(p)}]
          /\ IF S = {} THEN call' = [call EXCEPT ![k] = Idle]
                       ELSE call' = [call EXCEPT ![k].phase = "leave"]
          /\ UNCHANGED <<holds, turn, losers, stray>>
      BY <1>6, <2>1 DEF EvictStart
    <2>3. S \subseteq {s \in Sockets : Up(s)}
      BY <2>1 DEF SocketsOf
    <2>4. RoomsTyped'
      BY <1>0, <1>1, <2>2, <2>3 DEF Quiet, RoomsTyped, Up
    <2>5. /\ \A j \in Calls \ {k} : call'[j] = call[j]
          /\ \/ call'[k] = Idle /\ S = {}
             \/ /\ call'[k].op = call[k].op /\ call'[k].at = call[k].at
                /\ call'[k].who = call[k].who /\ call'[k].arg = call[k].arg /\ call'[k].phase = "leave"
      <3>1. CASE S = {}
        BY <2>2, <3>1 DEF TypesInv, OrgInv, CallsTyped
      <3>2. CASE S # {}
        BY <2>2, <3>2, PhaseOf DEF TypesInv, Phases
      <3> QED BY <3>1, <3>2
    <2>6. call[k].op \in {"remove", "demote"} /\ call[k].at = None
      BY <1>0, <2>2 DEF FormOf
    <2>7. FormOf(call'[k])
      BY <1>0, <2>2, <2>5, <2>6, FormsKept
    <2>8. /\ todo'[k] = S /\ turn'[k] = turn[k] /\ losers'[k] = losers[k]
          /\ turn[k] = {} /\ losers[k] = {}
      BY <1>0, <2>2 DEF RoomsTyped, WorkFits
    <2>9. WorkFits(k)'
      BY <2>5, <2>6, <2>8, IdleIs DEF WorkFits
    <2> QED BY <1>0, <1>5, <2>2, <2>4, <2>5, <2>7, <2>9 DEF RoomsTyped
  <1>7. ASSUME NEW s \in Sockets, LeaveRooms(k, s) PROVE TypesInv'
    <2>1. /\ call[k].phase = "leave"
          /\ s \in todo[k] /\ turn[k] = {}
          /\ \E P : holds' = [holds EXCEPT ![s] = @ \ P]
          /\ stray' \subseteq stray \cup Excess'
          /\ todo' = [todo EXCEPT ![k] = @ \ {s}]
          /\ turn' = [turn EXCEPT ![k] = {<<s, pl>> : pl \in {q \in holds[s] : q[1] = "card"}}]
          /\ UNCHANGED <<call, scope, losers>>
      BY <1>7 DEF LeaveRooms, Leaves, Unfollowed
    <2>2. Up(s) /\ holds[s] \subseteq Places
      BY <1>0, <2>1 DEF RoomsTyped
    <2>3. holds' \in [Sockets -> SUBSET Places] /\ \A t \in Sockets : holds'[t] \subseteq holds[t]
      BY <1>0, <2>1 DEF RoomsTyped
    <2>4. RoomsTyped'
      BY <1>0, <1>1, <1>3, <2>1, <2>2, <2>3 DEF Quiet, RoomsTyped, Up
    <2>5. turn'[k] = {<<s, pl>> : pl \in {q \in holds[s] : q[1] = "card"}}
      BY <1>0, <2>1 DEF RoomsTyped
    <2>6. WorkFits(k)'
      BY <1>0, <2>1, <2>5 DEF WorkFits
    <2> QED BY <1>0, <1>5, <2>1, <2>4, <2>6 DEF RoomsTyped
  <1>8. CASE LeaveCards(k)
    <2>1. /\ call[k].phase = "leave"
          /\ \E s, P : holds' = [holds EXCEPT ![s] = @ \ P]
          /\ stray' \subseteq stray \cup Excess'
          /\ turn' = [turn EXCEPT ![k] = {}]
          /\ UNCHANGED <<call, todo, scope, losers>>
      BY <1>8 DEF LeaveCards, Leaves, Unfollowed
    <2>2. holds' \in [Sockets -> SUBSET Places] /\ \A t \in Sockets : holds'[t] \subseteq holds[t]
      BY <1>0, <2>1 DEF RoomsTyped
    <2>3. RoomsTyped'
      BY <1>0, <1>1, <1>3, <2>1, <2>2 DEF Quiet, RoomsTyped, Up
    <2>4. turn'[k] = {}
      BY <1>0, <2>1 DEF RoomsTyped
    <2>5. WorkFits(k)'
      BY <1>0, <2>1, <2>4 DEF WorkFits
    <2> QED BY <1>0, <1>5, <2>1, <2>3, <2>5 DEF RoomsTyped
  <1>9. CASE EvictNext(k)
    <2>1. /\ call[k].phase = "leave" /\ todo[k] = {} /\ turn[k] = {}
          /\ UNCHANGED <<holds, scope, turn, stray>>
      BY <1>9 DEF EvictNext
    <2>2. CASE losers[k] = {} /\ call' = [call EXCEPT ![k] = Idle] /\ UNCHANGED <<todo, losers>>
      <3>1. RoomsTyped'
        BY <1>0, <1>1, <2>1, <2>2 DEF Quiet, RoomsTyped, Up
      <3>2. call'[k] = Idle /\ \A j \in Calls \ {k} : call'[j] = call[j]
        BY <2>2 DEF TypesInv, OrgInv, CallsTyped
      <3>3. WorkFits(k)'
        BY <2>1, <2>2, <3>2, IdleIs DEF WorkFits
      <3> QED BY <1>5, <2>1, <2>2, <3>1, <3>2, <3>3, IdleIs
    <2>3. ASSUME NEW u \in losers[k], losers' = [losers EXCEPT ![k] = @ \ {u}],
                 todo' = [todo EXCEPT ![k] = SocketsOf(u)], UNCHANGED call
          PROVE  TypesInv'
      <3>1. SocketsOf(u) \subseteq {s \in Sockets : Up(s)}
        BY DEF SocketsOf
      <3>2. RoomsTyped'
        BY <1>0, <1>1, <2>1, <2>3, <3>1 DEF Quiet, RoomsTyped, Up
      <3>3. WorkFits(k)'
        BY <1>0, <2>1, <2>3 DEF WorkFits
      <3> QED BY <1>0, <1>5, <2>1, <2>3, <3>2, <3>3 DEF RoomsTyped
    <2> QED BY <1>9, <2>2, <2>3 DEF EvictNext
  <1>10. CASE ScanStart(k)
    <2>1. /\ call[k].phase = "revalidate"
          /\ call' = [call EXCEPT ![k].phase = "scan"]
          /\ todo' = [todo EXCEPT ![k] = {s \in Sockets : Up(s)}]
          /\ scope' = [scope EXCEPT ![k] = {call[k].at}]
          /\ UNCHANGED <<holds, turn, losers, stray>>
      BY <1>10 DEF ScanStart
    <2>2. call[k].at \in Projects /\ call[k].op \in {"drop", "visibility"}
      BY <1>0, <2>1 DEF FormOf
    <2>3. RoomsTyped'
      BY <1>0, <1>1, <2>1, <2>2 DEF Quiet, RoomsTyped, Up
    <2>4. /\ \A j \in Calls \ {k} : call'[j] = call[j]
          /\ call'[k].op = call[k].op /\ call'[k].at = call[k].at
          /\ call'[k].who = call[k].who /\ call'[k].arg = call[k].arg /\ call'[k].phase = "scan"
      BY <2>1, PhaseOf DEF TypesInv, Phases
    <2>5. FormOf(call'[k])
      BY <1>0, <2>1, <2>2, <2>4, FormsKept
    <2>6. scope'[k] = {call[k].at}
      BY <1>0, <2>1 DEF RoomsTyped
    <2>7. WorkFits(k)'
      BY <1>0, <2>1, <2>4, <2>6 DEF WorkFits
    <2> QED BY <1>0, <1>5, <2>1, <2>3, <2>4, <2>5, <2>7 DEF RoomsTyped
  <1>11. ASSUME NEW s \in Sockets, Scan(k, s) PROVE TypesInv'
    <2>1. /\ call[k].phase = "scan" /\ s \in todo[k]
          /\ todo' = [todo EXCEPT ![k] = @ \ {s}]
          /\ \/ UNCHANGED losers
             \/ losers' = [losers EXCEPT ![k] = @ \cup {SocketUser[s]}]
          /\ UNCHANGED <<call, holds, scope, turn, stray>>
      BY <1>0, <1>11 DEF Scan, RoomsTyped
    <2>2. SocketUser[s] \in Users
      BY RoomsAssumption DEF RoomsAssumption
    <2>3. RoomsTyped'
      BY <1>0, <1>1, <2>1, <2>2 DEF Quiet, RoomsTyped, Up
    <2>4. WorkFits(k)'
      BY <1>0, <2>1 DEF WorkFits
    <2> QED BY <1>0, <1>5, <2>1, <2>3, <2>4 DEF RoomsTyped
  <1>12. CASE ScanEnd(k)
    <2>1. /\ call[k].phase = "scan" /\ todo[k] = {}
          /\ call' = [call EXCEPT ![k].phase = "leave"]
          /\ UNCHANGED <<holds, todo, scope, turn, losers, stray>>
      BY <1>12 DEF ScanEnd, workVars
    <2>2. RoomsTyped'
      BY <1>0, <1>1, <2>1 DEF Quiet, RoomsTyped, Up
    <2>3. /\ \A j \in Calls \ {k} : call'[j] = call[j]
          /\ call'[k].op = call[k].op /\ call'[k].at = call[k].at
          /\ call'[k].who = call[k].who /\ call'[k].arg = call[k].arg /\ call'[k].phase = "leave"
      BY <2>1, PhaseOf DEF TypesInv, Phases
    <2>4. FormOf(call'[k])
      <3>1. call[k].op # "idle"
        BY <1>0, <2>1 DEF FormOf
      <3> QED BY <1>0, <2>1, <2>3, <3>1, FormsKept
    <2>5. WorkFits(k)'
      BY <1>0, <2>1, <2>3 DEF WorkFits
    <2> QED BY <1>5, <2>1, <2>2, <2>3, <2>4, <2>5
  <1>13. CASE Stop(k)
    <2>1. /\ call' = [call EXCEPT ![k] = Idle]
          /\ todo' = [todo EXCEPT ![k] = {}]
          /\ turn' = [turn EXCEPT ![k] = {}]
          /\ losers' = [losers EXCEPT ![k] = {}]
          /\ UNCHANGED <<holds, scope>>
          /\ stray' \subseteq stray \cup Excess'
      BY <1>13 DEF Stop, Unfollowed
    <2>2. RoomsTyped'
      BY <1>0, <1>1, <1>3, <2>1 DEF Quiet, RoomsTyped, Up
    <2>3. call'[k] = Idle /\ \A j \in Calls \ {k} : call'[j] = call[j]
      BY <2>1 DEF TypesInv, OrgInv, CallsTyped
    <2>4. todo'[k] = {} /\ turn'[k] = {} /\ losers'[k] = {}
      BY <1>0, <2>1 DEF RoomsTyped
    <2>5. WorkFits(k)'
      BY <2>3, <2>4, IdleIs DEF WorkFits
    <2> QED BY <1>0, <1>5, <2>1, <2>2, <2>3, <2>5, IdleIs DEF RoomsTyped
  <1> QED BY <1>6, <1>7, <1>8, <1>9, <1>10, <1>11, <1>12, <1>13

LEMMA TypesKeep == TypesInv /\ [Next]_vars => TypesInv'
PROOF
  <1> SUFFICES ASSUME TypesInv, [Next]_vars PROVE TypesInv'
    OBVIOUS
  <1>1. OrgInv'
    BY OrgKeeps DEF TypesInv
  <1>2. CASE UNCHANGED vars
    BY <1>1, <1>2 DEF vars, memberVars, roomVars, workVars, TypesInv, MembersTyped, Live, RoomsTyped, Up, WorkFits
  <1>3. CASE Next
    BY <1>1, <1>3, SocketsTyped, ChecksTyped, GrantedTyped, LostTyped, FollowTyped DEF Next
  <1> QED BY <1>2, <1>3

LEMMA TypesGive == TypesInv => TypeOK
PROOF
  <1> SUFFICES ASSUME TypesInv PROVE TypeOK
    OBVIOUS
  <1>1. MembershipTypeOK
    <2>1. \A k \in Calls : call[k].op = "idle" <=> call[k] = Idle
      BY IdleIs DEF TypesInv, FormOf
    <2> QED BY <2>1 DEF TypesInv, OrgInv, TablesTyped, MembersTyped, MembershipTypeOK, Statuses
  <1>2. \A k \in Calls :
          /\ todo[k] \subseteq {s \in Sockets : Up(s)}
          /\ scope[k] \subseteq Projects
          /\ turn[k] \subseteq {s \in Sockets : Up(s)} \X Places
          /\ losers[k] \subseteq Users
          /\ todo[k] \cup turn[k] \cup losers[k] # {} => call[k].phase \in {"scan", "leave"}
    BY DEF TypesInv, RoomsTyped, WorkFits
  <1> QED BY <1>1, <1>2 DEF TypesInv, RoomsTyped, TypeOK

----------------------------------------------------------------------------
(* Who is in a room.                                                        *)

\* A place on its way was open to its user, or is lost from sight.
ComingSafe ==
    \A s \in Sockets : \A pl \in Coming(s) : May(SocketUser[s], pl) \/ <<s, pl>> \in stray

\* So is a place of a project that is gone: no follow-up finds it.
LiveHeld ==
    \A s \in Sockets : \A pl \in holds[s] \ {Org} : Live(At(pl)) \/ <<s, pl>> \in stray

AccessInv == ComingSafe /\ LiveHeld /\ RoomsFollowAccess

LEMMA PlacesAt ==
    ASSUME NEW P, NEW pl
    PROVE  pl \in PlacesOf(P) <=> pl \in Places /\ pl # Org /\ At(pl) \in P
PROOF
  BY DEF PlacesOf

\* Without a write nobody sees more or less.
LEMMA SameSight ==
    ASSUME UNCHANGED memberVars
    PROVE  /\ \A p : Live(p)' <=> Live(p)
           /\ \A u, pl : May(u, pl)' <=> May(u, pl)
PROOF
  <1>1. \A p : Live(p)' <=> Live(p)
    BY DEF memberVars, Live
  <1>2. \A u : Member(u)' <=> Member(u)
    BY DEF memberVars, Member
  <1>3. \A u, p : CanSee(u, p)' <=> CanSee(u, p)
    BY <1>1, <1>2 DEF memberVars, CanSee
  <1> QED BY <1>1, <1>2, <1>3 DEF May

LEMMA MayLive ==
    ASSUME NEW u, NEW pl, May(u, pl), pl # Org
    PROVE  CanSee(u, At(pl)) /\ Live(At(pl))
PROOF
  BY DEF May, CanSee

\* What is on its way, in two parts.
LEMMA ComingIs ==
    ASSUME NEW s, NEW q
    PROVE  q \in Coming(s) <=> \/ \E a \in asked : a[1] = s /\ q \in Opens(a[2])
                               \/ link[s] = "hello" /\ q \in holds[s]
PROOF
  BY DEF Coming

LEMMA ComingNext ==
    ASSUME NEW s, NEW q
    PROVE  q \in Coming(s)' <=> \/ \E a \in asked' : a[1] = s /\ q \in Opens(a[2])
                                \/ link'[s] = "hello" /\ q \in holds'[s]
PROOF
  BY DEF Coming, Opens

\* A follow-up that has not moved stays due while the rooms it looks for are kept.
LEMMA DueStays ==
    ASSUME TypesInv, NEW k \in Calls, NEW s \in Sockets, NEW pl \in Places, DueIn(k, s, pl),
           call'[k] = call[k], scope'[k] = scope[k], losers'[k] = losers[k],
           todo'[k] = todo[k], turn'[k] = turn[k],
           pl # Org => \A t \in Sockets : Up(t) /\ ProjectRoom(At(pl)) \in holds[t]
                                            => Up(t)' /\ ProjectRoom(At(pl)) \in holds'[t]
    PROVE  DueIn(k, s, pl)'
PROOF
  <1> DEFINE u == SocketUser[s]
  <1>1. CASE call[k].phase = "evict" /\ call[k].who = u
    BY <1>1 DEF DueIn
  <1>2. CASE call[k].phase = "revalidate" /\ pl \in PlacesOf({call[k].at})
              /\ \E t \in Sockets \cap SocketsOf(u) : ProjectRoom(call[k].at) \in holds[t]
    <2>1. At(pl) = call[k].at /\ pl # Org
      BY <1>2, PlacesAt
    <2>2. \E t \in Sockets \cap SocketsOf(u)' : ProjectRoom(call'[k].at) \in holds'[t]
      BY <1>2, <2>1 DEF SocketsOf
    <2>3. pl \in PlacesOf({call'[k].at})
      BY <1>2
    <2> QED BY <1>2, <2>2, <2>3 DEF DueIn, PlacesOf
  <1>3. CASE call[k].phase = "scan" /\ pl \in PlacesOf(scope[k])
    <2>1. scope[k] = {call[k].at}
      BY <1>3, MembershipAssumption DEF TypesInv, FormOf, WorkFits, MembershipAssumption
    <2>2. At(pl) = call[k].at /\ pl # Org
      BY <1>3, <2>1, PlacesAt
    <2>3. CASE u \in losers[k]
      BY <1>3, <2>3 DEF DueIn, PlacesOf
    <2>4. CASE \E t \in todo[k] \cap SocketsOf(u) : ProjectRoom(call[k].at) \in holds[t]
      <3>1. \E t \in todo'[k] \cap SocketsOf(u)' : ProjectRoom(call'[k].at) \in holds'[t]
        BY <2>2, <2>4 DEF SocketsOf
      <3> QED BY <1>3, <3>1 DEF DueIn, PlacesOf
    <2> QED BY <1>3, <2>3, <2>4 DEF DueIn
  <1>4. CASE call[k].phase = "leave" /\ pl \in Taken(k)
              /\ (s \in todo[k] \/ u \in losers[k] \/ <<s, pl>> \in turn[k])
    <2>1. pl \in Taken(k)'
      BY <1>4 DEF Taken, PlacesOf
    <2> QED BY <1>4, <2>1 DEF DueIn
  <1> QED BY <1>1, <1>2, <1>3, <1>4 DEF DueIn

\* What is held on as before is followed up, or is recorded as newly left behind.
LEMMA Newly ==
    ASSUME AccessInv, UNCHANGED memberVars, NEW s \in Sockets, NEW pl \in Places,
           pl \in holds[s], pl \in holds'[s], Up(s)
    PROVE  \/ May(SocketUser[s], pl)' \/ Due(s, pl)'
           \/ <<s, pl>> \in stray \/ <<s, pl>> \in Unfollowed' \ Unfollowed
PROOF
  <1> SUFFICES ASSUME ~May(SocketUser[s], pl)', ~Due(s, pl)', <<s, pl>> \notin stray
               PROVE  <<s, pl>> \in Unfollowed' \ Unfollowed
    OBVIOUS
  <1>1. ~May(SocketUser[s], pl)
    BY SameSight
  <1>2. pl \notin Coming(s) /\ Due(s, pl)
    BY <1>1 DEF AccessInv, ComingSafe, RoomsFollowAccess
  <1>3. <<s, pl>> \notin Unfollowed
    BY <1>2 DEF Unfollowed
  <1>4. <<s, pl>> \in Unfollowed'
    BY DEF Unfollowed, Excess
  <1> QED BY <1>3, <1>4

----------------------------------------------------------------------------
LEMMA AccessStart == Init => AccessInv
PROOF
  BY DEF Init, AccessInv, ComingSafe, LiveHeld, RoomsFollowAccess, Coming, Up

LEMMA HelloKeeps ==
    ASSUME TypesInv, TypesInv', AccessInv, NEW s \in Sockets, Hello(s)
    PROVE  AccessInv'
PROOF
  <1>1. /\ link[s] = "down" /\ link' = [link EXCEPT ![s] = "hello"]
        /\ UNCHANGED <<memberVars, call, asked, workVars, stray>>
        /\ \A t \in Sockets \ {s} : holds'[t] = holds[t]
        /\ link'[s] = "hello" /\ \A t \in Sockets \ {s} : link'[t] = link[t]
    BY DEF Hello, TypesInv, RoomsTyped
  <1>2. \A q \in holds'[s] : May(SocketUser[s], q)' /\ (q # Org => Live(At(q))')
    <2>1. holds'[s] = (UNION {{ProjectRoom(p), Listed(p)} : p \in VisibleProjects(SocketUser[s])})
                        \cup (IF Member(SocketUser[s]) THEN {Org} ELSE {})
      BY DEF Hello, TypesInv, RoomsTyped
    <2> SUFFICES ASSUME NEW q \in holds'[s]
                 PROVE  May(SocketUser[s], q)' /\ (q # Org => Live(At(q))')
      OBVIOUS
    <2>2. CASE \E p \in VisibleProjects(SocketUser[s]) : q \in {ProjectRoom(p), Listed(p)}
      <3>1. PICK p \in VisibleProjects(SocketUser[s]) : q \in {ProjectRoom(p), Listed(p)}
        BY <2>2
      <3>2. p \in Projects /\ CanSee(SocketUser[s], p)
        BY DEF VisibleProjects, CanSee
      <3>3. q # Org /\ At(q) = p
        BY <3>1, <3>2, RoomForms
      <3>4. May(SocketUser[s], q) /\ Live(At(q))
        BY <3>2, <3>3 DEF May, CanSee
      <3> QED BY <1>1, <3>4, SameSight DEF At
    <2>3. CASE q = Org /\ Member(SocketUser[s])
      BY <1>1, <2>3, SameSight DEF May
    <2> QED BY <2>1, <2>2, <2>3
  <1>3. \A t \in Sockets : Up(t)' <=> Up(t)
    BY <1>1 DEF Up
  <1>4. ComingSafe'
    <2> SUFFICES ASSUME NEW t \in Sockets, NEW q \in Coming(t)'
                 PROVE  May(SocketUser[t], q)' \/ <<t, q>> \in stray'
      BY DEF ComingSafe
    <2>1. CASE t = s
      <3>1. \A a \in asked' : a[1] # s
        BY <1>1 DEF TypesInv, RoomsTyped, Up
      <3> QED BY <1>2, <2>1, <3>1, ComingNext
    <2>2. CASE t # s
      <3>1. q \in Coming(t)
        BY <1>1, <2>2, ComingIs, ComingNext
      <3> QED BY <1>1, <3>1, SameSight DEF AccessInv, ComingSafe
    <2> QED BY <2>1, <2>2
  <1>5. LiveHeld'
    <2> SUFFICES ASSUME NEW t \in Sockets, NEW q \in holds'[t], q # Org
                 PROVE  Live(At(q))' \/ <<t, q>> \in stray'
      BY DEF LiveHeld, At
    <2> QED BY <1>1, <1>2, SameSight DEF AccessInv, LiveHeld
  <1>6. RoomsFollowAccess'
    <2> SUFFICES ASSUME NEW t \in Sockets, NEW q \in holds'[t], Up(t)'
                 PROVE  May(SocketUser[t], q)' \/ Due(t, q)' \/ <<t, q>> \in stray'
      BY DEF RoomsFollowAccess
    <2>1. Up(t) /\ q \in holds[t] /\ q \in Places
      BY <1>1, <1>3 DEF Up, TypesInv, RoomsTyped
    <2>2. ASSUME NEW k \in Calls, DueIn(k, t, q) PROVE DueIn(k, t, q)'
      BY <1>1, <1>3, <2>1, <2>2, DueStays DEF workVars, Up
    <2> QED BY <1>1, <2>1, <2>2, SameSight DEF AccessInv, RoomsFollowAccess, Due
  <1> QED BY <1>4, <1>5, <1>6 DEF AccessInv
LEMMA ConnectKeeps ==
    ASSUME TypesInv, AccessInv, NEW s \in Sockets, Connect(s)
    PROVE  AccessInv'
PROOF
  <1>1. /\ link[s] = "hello" /\ link'[s] = "up" /\ \A t \in Sockets \ {s} : link'[t] = link[t]
        /\ UNCHANGED <<memberVars, call, holds, asked, workVars, stray>>
    BY DEF Connect, TypesInv, RoomsTyped
  <1>2. ComingSafe'
    <2> SUFFICES ASSUME NEW t \in Sockets, NEW q \in Coming(t)'
                 PROVE  May(SocketUser[t], q)' \/ <<t, q>> \in stray'
      BY DEF ComingSafe
    <2>1. q \in Coming(t)
      BY <1>1, ComingIs, ComingNext
    <2> QED BY <1>1, <2>1, SameSight DEF AccessInv, ComingSafe
  <1>3. LiveHeld'
    BY <1>1, SameSight DEF AccessInv, LiveHeld, At
  <1>4. RoomsFollowAccess'
    <2> SUFFICES ASSUME NEW t \in Sockets, NEW q \in holds'[t], Up(t)'
                 PROVE  May(SocketUser[t], q)' \/ Due(t, q)' \/ <<t, q>> \in stray'
      BY DEF RoomsFollowAccess
    <2>1. q \in holds[t] /\ q \in Places
      BY <1>1 DEF TypesInv, RoomsTyped
    <2>2. CASE t = s
      <3>1. q \in Coming(s)
        BY <1>1, <2>1, <2>2, ComingIs
      <3> QED BY <1>1, <2>2, <3>1, SameSight DEF AccessInv, ComingSafe
    <2>3. CASE t # s
      <3>1. Up(t)
        BY <1>1, <2>3 DEF Up
      <3>2. ASSUME NEW k \in Calls, DueIn(k, t, q) PROVE DueIn(k, t, q)'
        <4>1. \A r \in Sockets : Up(r) => Up(r)'
          BY <1>1 DEF Up
        <4> QED BY <1>1, <2>1, <3>2, <4>1, DueStays DEF workVars
      <3> QED BY <1>1, <2>1, <3>1, <3>2, SameSight DEF AccessInv, RoomsFollowAccess, Due
    <2> QED BY <2>2, <2>3
  <1> QED BY <1>2, <1>3, <1>4 DEF AccessInv

LEMMA DisconnectKeeps ==
    ASSUME TypesInv, AccessInv, NEW s \in Sockets, Disconnect(s)
    PROVE  AccessInv'
PROOF
  <1>1. /\ link'[s] = "down" /\ \A t \in Sockets \ {s} : link'[t] = link[t]
        /\ holds'[s] = {} /\ \A t \in Sockets \ {s} : holds'[t] = holds[t]
        /\ asked' = {a \in asked : a[1] # s}
        /\ UNCHANGED memberVars
        /\ stray' = {x \in stray : x[1] # s} \cup (Unfollowed' \ Unfollowed)
    BY DEF Disconnect, TypesInv, RoomsTyped
  <1>2. ComingSafe'
    <2> SUFFICES ASSUME NEW t \in Sockets, NEW q \in Coming(t)'
                 PROVE  May(SocketUser[t], q)' \/ <<t, q>> \in stray'
      BY DEF ComingSafe
    <2>1. t # s /\ q \in Coming(t)
      BY <1>1, ComingIs, ComingNext
    <2> QED BY <1>1, <2>1, SameSight DEF AccessInv, ComingSafe
  <1>3. LiveHeld'
    <2> SUFFICES ASSUME NEW t \in Sockets, NEW q \in holds'[t], q # Org
                 PROVE  Live(At(q))' \/ <<t, q>> \in stray'
      BY DEF LiveHeld, At
    <2>1. t # s
      BY <1>1
    <2> QED BY <1>1, <2>1, SameSight DEF AccessInv, LiveHeld
  <1>4. RoomsFollowAccess'
    <2> SUFFICES ASSUME NEW t \in Sockets, NEW q \in holds'[t], Up(t)'
                 PROVE  May(SocketUser[t], q)' \/ Due(t, q)' \/ <<t, q>> \in stray'
      BY DEF RoomsFollowAccess
    <2>1. t # s /\ Up(t) /\ q \in holds[t] /\ q \in Places
      BY <1>1 DEF TypesInv, RoomsTyped, Up
    <2> QED BY <1>1, <2>1, Newly
  <1> QED BY <1>2, <1>3, <1>4 DEF AccessInv

\* A place asked for after its check is on its way.
LEMMA AskKeeps ==
    ASSUME TypesInv, AccessInv, NEW s \in Sockets, NEW pl \in Places, Ask(s, pl)
    PROVE  AccessInv'
PROOF
  <1>1. /\ May(SocketUser[s], pl) /\ asked' = asked \cup {<<s, pl>>}
        /\ UNCHANGED <<memberVars, call, link, holds, workVars, stray>>
    BY DEF Ask
  <1>2. ComingSafe'
    <2> SUFFICES ASSUME NEW t \in Sockets, NEW q \in Coming(t)'
                 PROVE  May(SocketUser[t], q)' \/ <<t, q>> \in stray'
      BY DEF ComingSafe
    <2>1. q \in Coming(t) \/ (t = s /\ q \in Opens(pl))
      BY <1>1, ComingIs, ComingNext
    <2>2. CASE q \in Coming(t)
      BY <1>1, <2>2, SameSight DEF AccessInv, ComingSafe
    <2>3. CASE t = s /\ q \in Opens(pl)
      BY <1>1, <2>3, OpensForms, SameSight
    <2> QED BY <2>1, <2>2, <2>3
  <1>3. LiveHeld'
    BY <1>1, SameSight DEF AccessInv, LiveHeld, At
  <1>4. RoomsFollowAccess'
    <2> SUFFICES ASSUME NEW t \in Sockets, NEW q \in holds'[t], Up(t)'
                 PROVE  May(SocketUser[t], q)' \/ Due(t, q)' \/ <<t, q>> \in stray'
      BY DEF RoomsFollowAccess
    <2>1. Up(t) /\ q \in holds[t] /\ q \in Places
      BY <1>1 DEF Up, TypesInv, RoomsTyped
    <2>2. ASSUME NEW k \in Calls, DueIn(k, t, q) PROVE DueIn(k, t, q)'
      BY <1>1, <2>1, <2>2, DueStays DEF workVars, Up
    <2> QED BY <1>1, <2>1, <2>2, SameSight DEF AccessInv, RoomsFollowAccess, Due
  <1> QED BY <1>2, <1>3, <1>4 DEF AccessInv

LEMMA EnterKeeps ==
    ASSUME TypesInv, AccessInv, NEW s \in Sockets, NEW pl \in Places, Enter(s, pl)
    PROVE  AccessInv'
PROOF
  <1>1. /\ <<s, pl>> \in asked /\ asked' = asked \ {<<s, pl>>}
        /\ holds'[s] = holds[s] \cup Opens(pl) /\ \A t \in Sockets \ {s} : holds'[t] = holds[t]
        /\ UNCHANGED <<memberVars, call, link, workVars, stray>>
    BY DEF Enter, TypesInv, RoomsTyped
  <1>2. link[s] = "up"
    BY <1>1 DEF TypesInv, RoomsTyped, Up
  <1>3. \A q \in Opens(pl) : q \in Coming(s)
    BY <1>1, ComingIs
  <1>4. ComingSafe'
    <2> SUFFICES ASSUME NEW t \in Sockets, NEW q \in Coming(t)'
                 PROVE  May(SocketUser[t], q)' \/ <<t, q>> \in stray'
      BY DEF ComingSafe
    <2>1. q \in Coming(t)
      BY <1>1, <1>2, ComingIs, ComingNext
    <2> QED BY <1>1, <2>1, SameSight DEF AccessInv, ComingSafe
  <1>5. LiveHeld'
    <2> SUFFICES ASSUME NEW t \in Sockets, NEW q \in holds'[t], q # Org
                 PROVE  Live(At(q))' \/ <<t, q>> \in stray'
      BY DEF LiveHeld, At
    <2>1. CASE q \in holds[t]
      BY <1>1, <2>1, SameSight DEF AccessInv, LiveHeld
    <2>2. CASE q \notin holds[t]
      <3>1. t = s /\ q \in Coming(s)
        BY <1>1, <1>3, <2>2
      <3> QED BY <1>1, <3>1, SameSight, MayLive DEF AccessInv, ComingSafe
    <2> QED BY <2>1, <2>2
  <1>6. RoomsFollowAccess'
    <2> SUFFICES ASSUME NEW t \in Sockets, NEW q \in holds'[t], Up(t)'
                 PROVE  May(SocketUser[t], q)' \/ Due(t, q)' \/ <<t, q>> \in stray'
      BY DEF RoomsFollowAccess
    <2>1. Up(t)
      BY <1>1 DEF Up
    <2>2. CASE q \in holds[t]
      <3>1. q \in Places
        BY <2>2 DEF TypesInv, RoomsTyped
      <3>2. ASSUME NEW k \in Calls, DueIn(k, t, q) PROVE DueIn(k, t, q)'
        <4>1. \A r \in Sockets : holds[r] \subseteq holds'[r] /\ (Up(r)' <=> Up(r))
          BY <1>1 DEF Up
        <4> QED BY <1>1, <3>1, <3>2, <4>1, DueStays DEF workVars
      <3> QED BY <1>1, <2>1, <2>2, <3>2, SameSight DEF AccessInv, RoomsFollowAccess, Due
    <2>3. CASE q \notin holds[t]
      <3>1. t = s /\ q \in Coming(s)
        BY <1>1, <1>3, <2>3
      <3> QED BY <1>1, <3>1, SameSight DEF AccessInv, ComingSafe
    <2> QED BY <2>2, <2>3
  <1> QED BY <1>4, <1>5, <1>6 DEF AccessInv

LEMMA LeaveKeeps ==
    ASSUME TypesInv, AccessInv, NEW s \in Sockets, NEW pl \in Places, Leave(s, pl)
    PROVE  AccessInv'
PROOF
  <1>1. /\ link[s] = "up"
        /\ holds'[s] = holds[s] \ {pl} /\ \A t \in Sockets \ {s} : holds'[t] = holds[t]
        /\ UNCHANGED <<memberVars, call, link, asked, workVars>>
        /\ stray' = (stray \ {x \in {<<s, pl>>} : pl \notin Coming(s)})
                      \cup (Unfollowed' \ Unfollowed)
    BY DEF Leave, TypesInv, RoomsTyped, Up
  <1>2. ComingSafe'
    <2> SUFFICES ASSUME NEW t \in Sockets, NEW q \in Coming(t)'
                 PROVE  May(SocketUser[t], q)' \/ <<t, q>> \in stray'
      BY DEF ComingSafe
    <2>1. q \in Coming(t)
      BY <1>1, ComingIs, ComingNext
    <2> QED BY <1>1, <2>1, SameSight DEF AccessInv, ComingSafe
  <1>3. \A t \in Sockets : \A q \in holds'[t] : q \in holds[t] /\ (<<t, q>> \in stray => <<t, q>> \in stray')
    BY <1>1
  <1>4. LiveHeld'
    <2> SUFFICES ASSUME NEW t \in Sockets, NEW q \in holds'[t], q # Org
                 PROVE  Live(At(q))' \/ <<t, q>> \in stray'
      BY DEF LiveHeld, At
    <2> QED BY <1>1, <1>3, SameSight DEF AccessInv, LiveHeld
  <1>5. RoomsFollowAccess'
    <2> SUFFICES ASSUME NEW t \in Sockets, NEW q \in holds'[t], Up(t)'
                 PROVE  May(SocketUser[t], q)' \/ Due(t, q)' \/ <<t, q>> \in stray'
      BY DEF RoomsFollowAccess
    <2>1. Up(t) /\ q \in holds[t] /\ q \in Places
      BY <1>1, <1>3 DEF TypesInv, RoomsTyped, Up
    <2> QED BY <1>1, <1>3, <2>1, Newly
  <1> QED BY <1>2, <1>4, <1>5 DEF AccessInv
----------------------------------------------------------------------------
(* The calls.                                                               *)

\* A call that only begins, or that ends without a write, was due nowhere.
LEMMA CheckingKeeps ==
    ASSUME TypesInv, AccessInv, NEW k \in Calls, Checks(k) \/ Refuse(k), UNCHANGED roomVars
    PROVE  AccessInv'
PROOF
  <1>1. /\ UNCHANGED <<memberVars, link, holds, asked, workVars, stray>>
        /\ call[k].phase \in {"", "write"} /\ \A j \in Calls \ {k} : call'[j] = call[j]
    <2>1. UNCHANGED <<link, holds, asked, workVars, stray>>
      BY DEF roomVars
    <2>2. CASE Refuse(k)
      BY <2>1, <2>2 DEF Refuse, End, TypesInv, OrgInv, CallsTyped
    <2>3. CASE Checks(k)
      <3>1. \E c : Begin(k, c)
        BY <2>3 DEF Checks, InviteCheck, RoleCheck, AcceptCheck, DeclineCheck, CancelCheck,
                    RemoveCheck, CreateCheck, DeleteCheck, AddCheck, DropCheck, VisibilityCheck
      <3> QED BY <2>1, <3>1, IdleIs DEF Begin, TypesInv, OrgInv, CallsTyped
    <2> QED BY <2>2, <2>3
  <1>2. ComingSafe'
    <2> SUFFICES ASSUME NEW t \in Sockets, NEW q \in Coming(t)'
                 PROVE  May(SocketUser[t], q)' \/ <<t, q>> \in stray'
      BY DEF ComingSafe
    <2>1. q \in Coming(t)
      BY <1>1, ComingIs, ComingNext
    <2> QED BY <1>1, <2>1, SameSight DEF AccessInv, ComingSafe
  <1>3. LiveHeld'
    BY <1>1, SameSight DEF AccessInv, LiveHeld, At
  <1>4. RoomsFollowAccess'
    <2> SUFFICES ASSUME NEW t \in Sockets, NEW q \in holds'[t], Up(t)'
                 PROVE  May(SocketUser[t], q)' \/ Due(t, q)' \/ <<t, q>> \in stray'
      BY DEF RoomsFollowAccess
    <2>1. Up(t) /\ q \in holds[t] /\ q \in Places
      BY <1>1 DEF Up, TypesInv, RoomsTyped
    <2>2. ASSUME NEW j \in Calls, DueIn(j, t, q) PROVE DueIn(j, t, q)'
      <3>1. j # k
        BY <1>1, <2>2 DEF DueIn
      <3> QED BY <1>1, <2>1, <2>2, <3>1, DueStays DEF workVars, Up
    <2> QED BY <1>1, <2>1, <2>2, SameSight DEF AccessInv, RoomsFollowAccess, Due
  <1> QED BY <1>2, <1>3, <1>4 DEF AccessInv

\* Of the writes, these leave everybody what they saw.
LEMMA GrantsWiden ==
    ASSUME TypesInv, NEW k \in Calls, Grants(k)
    PROVE  /\ \A p \in Projects : Live(p) => Live(p)'
           /\ \A u \in Users, pl \in Places : May(u, pl) => May(u, pl)'
PROOF
  <1>0. FormOf(call[k])
    BY DEF TypesInv
  <1> SUFFICES /\ \A p \in Projects : Live(p) => Live(p)'
               /\ \A u \in Users : Member(u) => Member(u)'
               /\ \A u \in Users, p \in Projects : CanSee(u, p) => CanSee(u, p)'
    BY PlaceForms DEF May, At
  <1>1. CASE (\E i \in Invitations : InviteWrite(k, i)) \/ DeclineWrite(k) \/ CancelWrite(k)
    <2>1. UNCHANGED <<roles, visibility, owner, explicit>>
      BY <1>1 DEF InviteWrite, DeclineWrite, CancelWrite
    <2> QED BY <2>1 DEF Live, Member, CanSee
  <1>2. CASE AcceptWrite(k)
    <2>1. /\ UNCHANGED <<visibility, owner, explicit>>
          /\ \A u \in Users : roles[u] # "none" => roles'[u] = roles[u]
      BY <1>2 DEF AcceptWrite, TypesInv, OrgInv, TablesTyped
    <2> QED BY <2>1 DEF Live, Member, CanSee
  <1>3. CASE CreateWrite(k)
    <2>1. /\ UNCHANGED <<roles, explicit>> /\ visibility[call[k].at] = "unborn"
          /\ \A p \in Projects \ {call[k].at} : visibility'[p] = visibility[p] /\ owner'[p] = owner[p]
      BY <1>3 DEF CreateWrite, TypesInv, MembersTyped
    <2> QED BY <2>1 DEF Live, Member, CanSee, Visibilities
  <1>4. CASE AddWrite(k)
    <2>1. UNCHANGED <<roles, visibility, owner>> /\ explicit \subseteq explicit'
      BY <1>4 DEF AddWrite
    <2> QED BY <2>1 DEF Live, Member, CanSee
  <1> QED BY <1>1, <1>2, <1>3, <1>4 DEF Grants

LEMMA GrantedKeeps ==
    ASSUME TypesInv, AccessInv, NEW k \in Calls, Granted(k)
    PROVE  AccessInv'
PROOF
  <1>1. /\ UNCHANGED <<link, holds, asked, workVars, stray>>
        /\ call[k].phase = "write" /\ \A j \in Calls \ {k} : call'[j] = call[j]
    BY DEF Granted, Grants, InviteWrite, AcceptWrite, DeclineWrite, CancelWrite, CreateWrite, AddWrite,
           Writing, End, roomVars, TypesInv, OrgInv, CallsTyped
  <1>2. /\ \A p \in Projects : Live(p) => Live(p)'
        /\ \A t \in Sockets, pl \in Places : May(SocketUser[t], pl) => May(SocketUser[t], pl)'
    BY GrantsWiden, RoomsAssumption DEF Granted, RoomsAssumption
  <1>3. \A t \in Sockets : Coming(t) \subseteq Places
    <2> SUFFICES ASSUME NEW t \in Sockets, NEW q \in Coming(t) PROVE q \in Places
      OBVIOUS
    <2> QED BY ComingIs, OpensForms DEF TypesInv, RoomsTyped
  <1>4. ComingSafe'
    <2> SUFFICES ASSUME NEW t \in Sockets, NEW q \in Coming(t)'
                 PROVE  May(SocketUser[t], q)' \/ <<t, q>> \in stray'
      BY DEF ComingSafe
    <2>1. q \in Coming(t)
      BY <1>1, ComingIs, ComingNext
    <2> QED BY <1>1, <1>2, <1>3, <2>1 DEF AccessInv, ComingSafe
  <1>5. LiveHeld'
    <2> SUFFICES ASSUME NEW t \in Sockets, NEW q \in holds'[t], q # Org
                 PROVE  Live(At(q))' \/ <<t, q>> \in stray'
      BY DEF LiveHeld, At
    <2>1. q \in holds[t] /\ At(q) \in Projects
      BY <1>1, PlaceForms DEF TypesInv, RoomsTyped
    <2> QED BY <1>1, <1>2, <2>1 DEF AccessInv, LiveHeld, At
  <1>6. RoomsFollowAccess'
    <2> SUFFICES ASSUME NEW t \in Sockets, NEW q \in holds'[t], Up(t)'
                 PROVE  May(SocketUser[t], q)' \/ Due(t, q)' \/ <<t, q>> \in stray'
      BY DEF RoomsFollowAccess
    <2>1. Up(t) /\ q \in holds[t] /\ q \in Places
      BY <1>1 DEF Up, TypesInv, RoomsTyped
    <2>2. ASSUME NEW j \in Calls, DueIn(j, t, q) PROVE DueIn(j, t, q)'
      <3>1. j # k
        BY <1>1, <2>2 DEF DueIn
      <3> QED BY <1>1, <2>1, <2>2, <3>1, DueStays DEF workVars, Up
    <2> QED BY <1>1, <1>2, <2>1, <2>2 DEF AccessInv, RoomsFollowAccess, Due
  <1> QED BY <1>4, <1>5, <1>6 DEF AccessInv

\* The others: what is lost of whom, and which follow-up is due.
LEMMA LossesOf ==
    ASSUME TypesInv, NEW k \in Calls, Losses(k)
    PROVE  /\ call[k].phase \in {"", "write"} /\ \A j \in Calls \ {k} : call'[j] = call[j]
           /\ call[k].op \notin {"idle", "delete"} => \A p \in Projects : Live(p) => Live(p)'
           /\ \/ call[k].op \in {"idle", "role", "delete"}
              \/ /\ call[k].op \in {"remove", "demote"}
                 /\ call'[k].phase = "evict" /\ call'[k].who = call[k].who
                 /\ \A u \in Users \ {call[k].who}, pl \in Places : May(u, pl) => May(u, pl)'
              \/ /\ call[k].op \in {"drop", "visibility"} /\ call[k].at \in Projects
                 /\ call'[k].phase = "revalidate" /\ call'[k].at = call[k].at
                 /\ \A u \in Users, pl \in Places :
                        May(u, pl) => May(u, pl)' \/ (pl # Org /\ At(pl) = call[k].at)
PROOF
  <1>0. FormOf(call[k]) /\ call[k] \in Work
    BY DEF TypesInv, OrgInv, CallsTyped
  <1>1. CASE RemoveWrite(k) \/ (RoleWrite(k) /\ call[k].op = "demote")
    <2>1. /\ call[k].phase = "write" /\ Follow(k, "evict") /\ call[k].op \in {"remove", "demote"}
          /\ UNCHANGED <<visibility, owner>>
          /\ \A u \in Users \ {call[k].who} : roles'[u] = roles[u]
          /\ \A g \in explicit : g[2] # call[k].who => g \in explicit'
      BY <1>1 DEF RemoveWrite, RoleWrite, Writing, GrantsOf, TypesInv, OrgInv, TablesTyped
    <2>2. /\ \A j \in Calls \ {k} : call'[j] = call[j]
          /\ call'[k].phase = "evict" /\ call'[k].who = call[k].who
      BY <2>1, PhaseOf DEF Follow, TypesInv, Phases
    <2>3. \A p : Live(p) => Live(p)'
      BY <2>1 DEF Live
    <2>4. \A u \in Users \ {call[k].who}, pl \in Places : May(u, pl) => May(u, pl)'
      <3> SUFFICES ASSUME NEW u \in Users \ {call[k].who}, NEW pl \in Places, May(u, pl) PROVE May(u, pl)'
        OBVIOUS
      <3>1. Member(u) => Member(u)'
        BY <2>1 DEF Member
      <3>2. \A p : CanSee(u, p) => CanSee(u, p)'
        BY <2>1, <2>3, <3>1 DEF CanSee
      <3> QED BY <3>1, <3>2 DEF May, At
    <2> QED BY <2>1, <2>2, <2>3, <2>4
  <1>2. CASE RoleWrite(k) /\ call[k].op # "demote"
    <2>1. /\ call[k].phase = "write" /\ call[k].op = "role" /\ End(k) /\ UNCHANGED visibility
      BY <1>2 DEF RoleWrite, Writing
    <2> QED BY <2>1 DEF End, Live, TypesInv, OrgInv, CallsTyped
  <1>3. CASE DropWrite(k) \/ VisibilityWrite(k)
    <2>1. /\ call[k].phase = "write" /\ Follow(k, "revalidate") /\ call[k].op \in {"drop", "visibility"}
          /\ call[k].at \in Projects /\ UNCHANGED <<roles, owner>>
          /\ \A g \in explicit : g[1] # call[k].at => g \in explicit'
          /\ \A p \in Projects \ {call[k].at} : visibility'[p] = visibility[p]
          /\ visibility'[call[k].at] = visibility[call[k].at] \/ visibility'[call[k].at] \in Visibilities
      BY <1>0, <1>3 DEF DropWrite, VisibilityWrite, Writing, FormOf, TypesInv, MembersTyped
    <2>2. /\ \A j \in Calls \ {k} : call'[j] = call[j]
          /\ call'[k].phase = "revalidate" /\ call'[k].at = call[k].at
      BY <2>1, PhaseOf DEF Follow, TypesInv, Phases
    <2>3. \A p \in Projects : Live(p) => Live(p)'
      BY <2>1 DEF Live
    <2>4. \A u \in Users, pl \in Places : May(u, pl) => May(u, pl)' \/ (pl # Org /\ At(pl) = call[k].at)
      <3> SUFFICES ASSUME NEW u \in Users, NEW pl \in Places, May(u, pl),
                          ~(pl # Org /\ At(pl) = call[k].at)
                   PROVE  May(u, pl)'
        OBVIOUS
      <3>1. Member(u) => Member(u)'
        BY <2>1 DEF Member
      <3>2. \A p \in Projects \ {call[k].at} : CanSee(u, p) => CanSee(u, p)'
        BY <2>1, <2>3, <3>1 DEF CanSee
      <3>3. pl # Org => At(pl) \in Projects
        BY PlaceForms
      <3> QED BY <3>1, <3>2, <3>3 DEF May, At
    <2> QED BY <2>1, <2>2, <2>3, <2>4
  <1>4. CASE DeleteWrite(k)
    BY <1>4 DEF DeleteWrite, Writing, End, TypesInv, OrgInv, CallsTyped
  <1>5. CASE DeleteOrganization(k)
    BY <1>5, IdleIs DEF DeleteOrganization
  <1> QED BY <1>1, <1>2, <1>3, <1>4, <1>5 DEF Losses

LEMMA LostKeeps ==
    ASSUME TypesInv, AccessInv, NEW k \in Calls, Lost(k)
    PROVE  AccessInv'
PROOF
  <1>1. /\ UNCHANGED <<link, holds, asked, todo, scope, turn, losers>> /\ Losses(k)
        /\ stray \subseteq stray'
        /\ \A x \in Excess' : Overlooked(k, x) =>
              x \in stray' \/ (x \in Excess /\ call[k].op \notin {"idle", "delete"})
    BY DEF Lost, workVars
  <1>2. ASSUME NEW t \in Sockets, NEW q PROVE q \in Coming(t)' <=> q \in Coming(t)
    BY <1>1, ComingIs, ComingNext
  <1>3. \A t \in Sockets : Up(t)' <=> Up(t)
    BY <1>1 DEF Up
  <1>4. \A t \in Sockets : Coming(t) \cup holds[t] \subseteq Places
    <2> SUFFICES ASSUME NEW t \in Sockets, NEW q \in Coming(t) \cup holds[t] PROVE q \in Places
      OBVIOUS
    <2> QED BY ComingIs, OpensForms DEF TypesInv, RoomsTyped
  <1>5. ASSUME NEW t \in Sockets, NEW q \in Places, q \in holds[t] \cup Coming(t),
               ~May(SocketUser[t], q)', <<t, q>> \notin stray', Overlooked(k, <<t, q>>)
        PROVE  call[k].op \notin {"idle", "delete"} /\ ~May(SocketUser[t], q)
    <2>1. <<t, q>> \in Excess'
      BY <1>1, <1>2, <1>5 DEF Excess
    <2>2. <<t, q>> \in Excess
      BY <1>1, <1>5, <2>1
    <2> QED BY <1>1, <1>5, <2>1, <2>2 DEF Excess
  <1>6. ComingSafe'
    <2> SUFFICES ASSUME NEW t \in Sockets, NEW q \in Coming(t)', ~May(SocketUser[t], q)', <<t, q>> \notin stray'
                 PROVE  FALSE
      BY DEF ComingSafe
    <2>1. q \in Coming(t) /\ q \in Places
      BY <1>2, <1>4
    <2>2. Overlooked(k, <<t, q>>)
      BY <2>1 DEF Overlooked
    <2>3. ~May(SocketUser[t], q)
      BY <1>5, <2>1, <2>2
    <2> QED BY <1>1, <2>1, <2>3 DEF AccessInv, ComingSafe
  <1>7. LiveHeld'
    <2> SUFFICES ASSUME NEW t \in Sockets, NEW q \in holds'[t], q # Org, ~Live(At(q))', <<t, q>> \notin stray'
                 PROVE  FALSE
      BY DEF LiveHeld, At
    <2>1. q \in holds[t] /\ q \in Places /\ At(q) \in Projects
      BY <1>1, <1>4, PlaceForms
    <2>2. Live(At(q))
      BY <1>1, <2>1 DEF AccessInv, LiveHeld
    <2>3. call[k].op \in {"idle", "delete"}
      BY <1>1, <2>1, <2>2, LossesOf DEF At
    <2>4. ~May(SocketUser[t], q)'
      BY DEF May, CanSee
    <2>5. Overlooked(k, <<t, q>>)
      BY <2>3 DEF Overlooked
    <2> QED BY <1>5, <2>1, <2>3, <2>4, <2>5
  <1>8. RoomsFollowAccess'
    <2> SUFFICES ASSUME NEW t \in Sockets, NEW q \in holds'[t], Up(t)',
                        ~May(SocketUser[t], q)', <<t, q>> \notin stray'
                 PROVE  Due(t, q)'
      BY DEF RoomsFollowAccess
    <2>1. q \in holds[t] /\ q \in Places /\ Up(t) /\ SocketUser[t] \in Users
      BY <1>1, <1>3, <1>4, RoomsAssumption DEF RoomsAssumption
    <2>2. CASE ~May(SocketUser[t], q)
      <3>1. PICK j \in Calls : DueIn(j, t, q)
        BY <1>1, <2>1, <2>2 DEF AccessInv, RoomsFollowAccess, Due
      <3>2. j # k
        BY <1>1, <3>1, LossesOf DEF DueIn
      <3>3. call'[j] = call[j]
        BY <1>1, <3>2, LossesOf
      <3>4. DueIn(j, t, q)'
        BY <1>1, <1>3, <2>1, <3>1, <3>3, DueStays
      <3> QED BY <3>4 DEF Due
    <2>3. CASE May(SocketUser[t], q)
      <3>1. ~Overlooked(k, <<t, q>>)
        BY <1>5, <2>1, <2>3
      <3>2. CASE call[k].op \in {"remove", "demote"}
        <4>1. call'[k].phase = "evict" /\ call'[k].who = SocketUser[t]
          BY <1>1, <2>1, <2>3, <3>2, LossesOf
        <4>2. DueIn(k, t, q)'
          BY <4>1 DEF DueIn
        <4> QED BY <4>2 DEF Due
      <3>3. CASE call[k].op \in {"drop", "visibility"}
        <4>1. /\ call'[k].phase = "revalidate" /\ call'[k].at = call[k].at
              /\ q # Org /\ At(q) = call[k].at
          BY <1>1, <2>1, <2>3, <3>3, LossesOf
        <4>2. PICK r \in SocketsOf(SocketUser[t]) : ProjectRoom(call[k].at) \in holds[r]
          BY <3>1, <3>3 DEF Overlooked
        <4>3. r \in Sockets /\ r \in SocketsOf(SocketUser[t])' /\ ProjectRoom(call'[k].at) \in holds'[r]
          BY <1>1, <1>3, <4>1, <4>2 DEF SocketsOf
        <4>4. q \in PlacesOf({call'[k].at})
          BY <2>1, <4>1, PlacesAt
        <4>5. DueIn(k, t, q)'
          BY <4>1, <4>3, <4>4 DEF DueIn, PlacesOf
        <4> QED BY <4>5 DEF Due
      <3>4. call[k].op \notin {"idle", "role", "delete"}
        BY <3>1 DEF Overlooked
      <3> QED BY <1>1, <3>2, <3>3, <3>4, LossesOf
    <2> QED BY <2>2, <2>3
  <1> QED BY <1>6, <1>7, <1>8 DEF AccessInv
----------------------------------------------------------------------------
(* The follow-ups.                                                          *)

\* A step that only takes places away, and lets none out of sight.
LEMMA Shrinking ==
    ASSUME AccessInv, Quiet, \A t \in Sockets : holds'[t] \subseteq holds[t],
           \A t \in Sockets : \A q \in holds'[t] \cup Coming(t) :
               <<t, q>> \in stray => <<t, q>> \in stray',
           \A t \in Sockets : \A q \in holds'[t] :
               Up(t) => May(SocketUser[t], q)' \/ Due(t, q)' \/ <<t, q>> \in stray'
    PROVE  AccessInv'
PROOF
  <1>1. UNCHANGED <<memberVars, link, asked>>
    BY DEF Quiet
  <1>2. ComingSafe'
    <2> SUFFICES ASSUME NEW t \in Sockets, NEW q \in Coming(t)'
                 PROVE  May(SocketUser[t], q)' \/ <<t, q>> \in stray'
      BY DEF ComingSafe
    <2>1. q \in Coming(t)
      BY <1>1, ComingIs, ComingNext
    <2> QED BY <1>1, <2>1, SameSight DEF AccessInv, ComingSafe
  <1>3. LiveHeld'
    <2> SUFFICES ASSUME NEW t \in Sockets, NEW q \in holds'[t], q # Org
                 PROVE  Live(At(q))' \/ <<t, q>> \in stray'
      BY DEF LiveHeld, At
    <2> QED BY <1>1, SameSight DEF AccessInv, LiveHeld
  <1>4. RoomsFollowAccess'
    BY <1>1 DEF RoomsFollowAccess, Up
  <1> QED BY <1>2, <1>3, <1>4 DEF AccessInv

\* One that takes nothing away either: what was due has to stay due, or be lawful.
LEMMA Handing ==
    ASSUME TypesInv, AccessInv, Quiet, UNCHANGED <<holds, stray>>, NEW k \in Calls,
           \A j \in Calls \ {k} :
             /\ call'[j] = call[j] /\ scope'[j] = scope[j] /\ losers'[j] = losers[j]
             /\ todo'[j] = todo[j] /\ turn'[j] = turn[j],
           \A t \in Sockets : \A q \in holds[t] :
               Up(t) /\ q \in Places /\ DueIn(k, t, q) /\ ~May(SocketUser[t], q) /\ <<t, q>> \notin stray
                 => DueIn(k, t, q)'
    PROVE  AccessInv'
PROOF
  <1>1. UNCHANGED <<memberVars, link>>
    BY DEF Quiet
  <1>2. ASSUME NEW t \in Sockets, NEW q \in holds'[t], Up(t)
        PROVE  May(SocketUser[t], q)' \/ Due(t, q)' \/ <<t, q>> \in stray'
    <2>1. q \in holds[t] /\ q \in Places
      BY DEF TypesInv, RoomsTyped
    <2> SUFFICES ASSUME ~May(SocketUser[t], q), <<t, q>> \notin stray PROVE Due(t, q)'
      BY <1>1, SameSight
    <2>2. PICK j \in Calls : DueIn(j, t, q)
      BY <1>2, <2>1 DEF AccessInv, RoomsFollowAccess, Due
    <2>3. DueIn(j, t, q)'
      <3>1. CASE j = k
        BY <1>2, <2>1, <2>2, <3>1
      <3>2. CASE j # k
        BY <1>1, <2>1, <2>2, <3>2, DueStays DEF Up
      <3> QED BY <3>1, <3>2
    <2> QED BY <2>3 DEF Due
  <1> QED BY <1>2, Shrinking

LEMMA EvictStartKeeps ==
    ASSUME TypesInv, AccessInv, NEW k \in Calls, EvictStart(k)
    PROVE  AccessInv'
PROOF
  <1>1. PICK S : S = SocketsOf(call[k].who)
    OBVIOUS
  <1>2. /\ call[k].phase = "evict" /\ Quiet /\ UNCHANGED <<holds, stray>>
        /\ todo'[k] = S /\ scope'[k] = {p \in Projects : Live(p)}
        /\ \A j \in Calls \ {k} :
             /\ call'[j] = call[j] /\ scope'[j] = scope[j] /\ losers'[j] = losers[j]
             /\ todo'[j] = todo[j] /\ turn'[j] = turn[j]
    BY <1>1 DEF EvictStart, TypesInv, RoomsTyped, OrgInv, CallsTyped
  <1>3. call[k].at = None
    BY <1>2 DEF TypesInv, FormOf
  <1>4. S # {} => call'[k].phase = "leave" /\ call'[k].at = None
    BY <1>1, <1>3, PhaseOf DEF EvictStart, TypesInv, Phases
  <1>5. ASSUME NEW t \in Sockets, NEW q \in holds[t], Up(t), q \in Places, DueIn(k, t, q), <<t, q>> \notin stray
        PROVE  DueIn(k, t, q)'
    <2>1. t \in S
      BY <1>1, <1>2, <1>5 DEF DueIn, SocketsOf
    <2>2. q = Org \/ (Live(At(q)) /\ At(q) \in Projects)
      BY <1>5, PlaceForms DEF AccessInv, LiveHeld
    <2>3. q \in Taken(k)'
      BY <1>2, <1>4, <1>5, <2>1, <2>2 DEF Taken, PlacesOf, At
    <2> QED BY <1>2, <1>4, <2>1, <2>3 DEF DueIn
  <1> QED BY <1>2, <1>5, Handing

LEMMA EvictNextKeeps ==
    ASSUME TypesInv, AccessInv, NEW k \in Calls, EvictNext(k)
    PROVE  AccessInv'
PROOF
  <1>1. /\ call[k].phase = "leave" /\ todo[k] = {} /\ turn[k] = {}
        /\ Quiet /\ UNCHANGED <<holds, scope, turn, stray>>
        /\ \A j \in Calls \ {k} :
             call'[j] = call[j] /\ losers'[j] = losers[j] /\ todo'[j] = todo[j]
        /\ \/ losers[k] = {}
           \/ \E u \in losers[k] :
                losers'[k] = losers[k] \ {u} /\ todo'[k] = SocketsOf(u) /\ UNCHANGED call
    BY DEF EvictNext, TypesInv, RoomsTyped, OrgInv, CallsTyped
  <1>2. ASSUME NEW t \in Sockets, NEW q \in holds[t], Up(t), DueIn(k, t, q)
        PROVE  DueIn(k, t, q)'
    <2>1. SocketUser[t] \in losers[k] /\ q \in Taken(k)
      BY <1>1, <1>2 DEF DueIn
    <2>2. UNCHANGED call /\ (SocketUser[t] \in losers'[k] \/ t \in todo'[k])
      BY <1>1, <1>2, <2>1 DEF SocketsOf
    <2>3. q \in Taken(k)'
      BY <1>1, <2>1, <2>2 DEF Taken, PlacesOf
    <2> QED BY <1>1, <2>2, <2>3 DEF DueIn
  <1> QED BY <1>1, <1>2, Handing

LEMMA ScansKeep ==
    ASSUME TypesInv, AccessInv, NEW k \in Calls,
           ScanStart(k) \/ ScanEnd(k) \/ \E s \in Sockets : Scan(k, s)
    PROVE  AccessInv'
PROOF
  <1>0. FormOf(call[k]) /\ WorkFits(k) /\ None \notin Projects
    BY MembershipAssumption DEF MembershipAssumption, TypesInv
  <1>1. CASE ScanStart(k)
    <2>1. /\ call[k].phase = "revalidate" /\ Quiet /\ UNCHANGED <<holds, stray>>
          /\ call' = [call EXCEPT ![k].phase = "scan"]
          /\ todo'[k] = {s \in Sockets : Up(s)} /\ scope'[k] = {call[k].at}
          /\ \A j \in Calls \ {k} :
               /\ call'[j] = call[j] /\ scope'[j] = scope[j] /\ losers'[j] = losers[j]
               /\ todo'[j] = todo[j] /\ turn'[j] = turn[j]
      BY <1>1 DEF ScanStart, TypesInv, RoomsTyped, OrgInv, CallsTyped
    <2>2. call'[k].phase = "scan" /\ call'[k].at = call[k].at
      BY <2>1, PhaseOf DEF TypesInv, Phases
    <2>3. ASSUME NEW t \in Sockets, NEW q \in holds[t], Up(t), DueIn(k, t, q)
          PROVE  DueIn(k, t, q)'
      <3>1. /\ q \in PlacesOf({call[k].at})
            /\ \E r \in Sockets \cap SocketsOf(SocketUser[t]) : ProjectRoom(call[k].at) \in holds[r]
        BY <2>1, <2>3 DEF DueIn
      <3>2. \E r \in todo'[k] \cap SocketsOf(SocketUser[t])' : ProjectRoom(call'[k].at) \in holds'[r]
        BY <2>1, <2>2, <3>1 DEF SocketsOf, Up, Quiet
      <3>3. q \in PlacesOf(scope'[k])
        BY <2>1, <3>1
      <3> QED BY <2>2, <3>2, <3>3 DEF DueIn, PlacesOf
    <2> QED BY <2>1, <2>3, Handing
  <1>2. CASE ScanEnd(k)
    <2>1. /\ call[k].phase = "scan" /\ todo[k] = {} /\ Quiet /\ UNCHANGED <<holds, workVars, stray>>
          /\ call' = [call EXCEPT ![k].phase = "leave"]
          /\ \A j \in Calls \ {k} : call'[j] = call[j]
      BY <1>2 DEF ScanEnd, TypesInv, OrgInv, CallsTyped
    <2>2. call'[k].phase = "leave" /\ call'[k].at = call[k].at
      BY <2>1, PhaseOf DEF TypesInv, Phases
    <2>3. ASSUME NEW t \in Sockets, NEW q \in holds[t], Up(t), DueIn(k, t, q)
          PROVE  DueIn(k, t, q)'
      <3>1. q \in PlacesOf(scope[k]) /\ SocketUser[t] \in losers[k]
        BY <2>1, <2>3 DEF DueIn
      <3>2. q \in Taken(k)'
        BY <2>1, <3>1 DEF Taken, PlacesOf, workVars
      <3> QED BY <2>1, <2>2, <3>1, <3>2 DEF DueIn, workVars
    <2> QED BY <2>1, <2>3, Handing DEF workVars
  <1>3. ASSUME NEW s \in Sockets, Scan(k, s) PROVE AccessInv'
    <2>1. /\ call[k].phase = "scan" /\ s \in todo[k] /\ Quiet /\ UNCHANGED <<call, holds, scope, turn, stray>>
          /\ todo'[k] = todo[k] \ {s}
          /\ losers[k] \subseteq losers'[k]
          /\ ProjectRoom(call[k].at) \in holds[s] /\ ~CanSee(SocketUser[s], call[k].at)
               => SocketUser[s] \in losers'[k]
          /\ \A j \in Calls \ {k} : todo'[j] = todo[j] /\ losers'[j] = losers[j]
      BY <1>3 DEF Scan, TypesInv, RoomsTyped
    <2>2. scope[k] = {call[k].at}
      BY <1>0, <2>1 DEF FormOf, WorkFits
    <2>3. ASSUME NEW t \in Sockets, NEW q \in holds[t], Up(t), DueIn(k, t, q), ~May(SocketUser[t], q)
          PROVE  DueIn(k, t, q)'
      <3>1. /\ q \in PlacesOf(scope[k])
            /\ \/ SocketUser[t] \in losers[k]
               \/ \E r \in todo[k] \cap SocketsOf(SocketUser[t]) : ProjectRoom(call[k].at) \in holds[r]
        BY <2>1, <2>3 DEF DueIn
      <3>2. q \in PlacesOf(scope'[k]) /\ ~CanSee(SocketUser[t], call[k].at)
        BY <2>1, <2>2, <2>3, <3>1, PlacesAt DEF May
      <3>3. \/ SocketUser[t] \in losers'[k]
            \/ \E r \in todo'[k] \cap SocketsOf(SocketUser[t])' : ProjectRoom(call'[k].at) \in holds'[r]
        BY <2>1, <3>1, <3>2 DEF SocketsOf, Up, Quiet
      <3> QED BY <2>1, <3>2, <3>3 DEF DueIn, PlacesOf
    <2> QED BY <2>1, <2>3, Handing
  <1> QED BY <1>1, <1>2, <1>3

\* One socket leaves its rooms: its cards are next, and of another connection what a
\* revalidation does not find any more is recorded.
LEMMA LeaveRoomsKeeps ==
    ASSUME TypesInv, AccessInv, NEW k \in Calls, NEW s \in Sockets, LeaveRooms(k, s)
    PROVE  AccessInv'
PROOF
  <1> DEFINE P == {pl \in Taken(k) : pl[1] # "card"}
  <1>1. /\ call[k].phase = "leave" /\ s \in todo[k] /\ turn[k] = {}
        /\ Quiet /\ UNCHANGED <<memberVars, link, call, scope, losers>>
        /\ \A j \in Calls \ {k} : todo'[j] = todo[j] /\ turn'[j] = turn[j]
        /\ turn'[k] = {<<s, pl>> : pl \in {q \in holds[s] : q[1] = "card"}}
        /\ holds'[s] = holds[s] \ P /\ \A t \in Sockets \ {s} : holds'[t] = holds[t]
        /\ stray' = (stray \ {x \in {s} \X P : x[2] \notin Coming(s)})
                      \cup {x \in Unfollowed' \ Unfollowed : x[1] # s}
    BY DEF LeaveRooms, Leaves, Quiet, TypesInv, RoomsTyped
  <1>2. \A t \in Sockets : holds'[t] \subseteq holds[t]
    BY <1>1
  <1>3. \A t \in Sockets : \A q \in holds'[t] \cup Coming(t) : <<t, q>> \in stray => <<t, q>> \in stray'
    BY <1>1
  <1>4. ASSUME NEW t \in Sockets, NEW q \in holds'[t], Up(t)
        PROVE  May(SocketUser[t], q)' \/ Due(t, q)' \/ <<t, q>> \in stray'
    <2>1. q \in holds[t] /\ q \in Places
      BY <1>2 DEF TypesInv, RoomsTyped
    <2>2. CASE t # s
      BY <1>1, <1>3, <1>4, <2>1, <2>2, Newly
    <2>3. CASE t = s /\ q \in Taken(k)
      <3>1. <<t, q>> \in turn'[k]
        BY <1>1, <2>1, <2>3
      <3>2. q \in Taken(k)'
        BY <1>1, <2>3 DEF Taken, PlacesOf
      <3>3. DueIn(k, t, q)'
        BY <1>1, <3>1, <3>2 DEF DueIn
      <3> QED BY <3>3 DEF Due
    <2>4. CASE t = s /\ q \notin Taken(k)
      <3> SUFFICES ASSUME ~May(SocketUser[t], q), <<t, q>> \notin stray PROVE Due(t, q)'
        BY <1>1, <1>3, SameSight
      <3>1. PICK j \in Calls : DueIn(j, t, q)
        BY <1>4, <2>1 DEF AccessInv, RoomsFollowAccess, Due
      <3>2. j # k
        BY <1>1, <2>4, <3>1 DEF DueIn
      <3>3. q # Org => ProjectRoom(At(q)) \notin P
        <4> SUFFICES ASSUME q # Org, ProjectRoom(At(q)) \in Taken(k) PROVE FALSE
          OBVIOUS
        <4>1. At(q) \in Projects
          BY <2>1, PlaceForms
        <4>2. At(ProjectRoom(At(q))) \in scope[k]
          BY <4>1, RoomForms DEF Taken, PlacesOf
        <4>3. q \in Taken(k)
          BY <2>1, <4>1, <4>2, RoomForms DEF Taken, PlacesOf
        <4> QED BY <2>4, <4>3
      <3>4. q # Org => \A r \in Sockets : Up(r) /\ ProjectRoom(At(q)) \in holds[r]
                                            => Up(r)' /\ ProjectRoom(At(q)) \in holds'[r]
        BY <1>1, <3>3 DEF Up
      <3>5. DueIn(j, t, q)'
        <4> HIDE DEF P
        <4> QED BY <1>1, <2>1, <3>1, <3>2, <3>4, DueStays
      <3> QED BY <3>5 DEF Due
    <2> QED BY <2>2, <2>3, <2>4
  <1> QED BY <1>1, <1>2, <1>3, <1>4, Shrinking

\* Its cards follow; those of a project that is gone are known to be left.
LEMMA LeaveCardsKeeps ==
    ASSUME TypesInv, AccessInv, NEW k \in Calls, LeaveCards(k)
    PROVE  AccessInv'
PROOF
  <1>0. FormOf(call[k]) /\ WorkFits(k) /\ turn[k] \subseteq Sockets \X Places
    BY DEF TypesInv, RoomsTyped
  <1>1. PICK s : s = (CHOOSE x \in turn[k] : TRUE)[1]
    OBVIOUS
  <1>2. PICK P : P = {x[2] : x \in {y \in turn[k] : InScope(k, y[2])}}
    OBVIOUS
  <1>3. turn[k] # {} /\ s \in Sockets /\ \A x \in turn[k] : x[1] = s
    <2>1. turn[k] # {}
      BY DEF LeaveCards
    <2>2. (CHOOSE x \in turn[k] : TRUE) \in turn[k]
      BY <2>1
    <2> QED BY <1>0, <1>1, <2>1, <2>2 DEF WorkFits
  <1>4. Leaves(s, P)
    BY <1>1, <1>2 DEF LeaveCards
  <1>5. /\ call[k].phase = "leave"
        /\ Quiet /\ UNCHANGED <<memberVars, link, call, todo, scope, losers>>
        /\ \A j \in Calls \ {k} : turn'[j] = turn[j]
        /\ holds'[s] = holds[s] \ P /\ \A t \in Sockets \ {s} : holds'[t] = holds[t]
        /\ stray' = (stray \ {x \in {s} \X P : x[2] \notin Coming(s)})
                      \cup {x \in Unfollowed' \ Unfollowed : x[1] # s}
    BY <1>3, <1>4 DEF LeaveCards, Leaves, Quiet, TypesInv, RoomsTyped
  <1>6. \A t \in Sockets : holds'[t] \subseteq holds[t]
    BY <1>5
  <1>7. \A t \in Sockets : \A q \in holds'[t] \cup Coming(t) : <<t, q>> \in stray => <<t, q>> \in stray'
    BY <1>5
  <1>8. ASSUME NEW t \in Sockets, NEW q \in holds'[t], Up(t)
        PROVE  May(SocketUser[t], q)' \/ Due(t, q)' \/ <<t, q>> \in stray'
    <2>1. q \in holds[t] /\ q \in Places
      BY <1>6 DEF TypesInv, RoomsTyped
    <2>2. CASE t # s
      BY <1>5, <1>7, <1>8, <2>1, <2>2, Newly
    <2>3. CASE t = s
      <3> SUFFICES ASSUME ~May(SocketUser[t], q), <<t, q>> \notin stray PROVE Due(t, q)'
        BY <1>5, <1>7, SameSight
      <3>1. PICK j \in Calls : DueIn(j, t, q)
        BY <1>8, <2>1 DEF AccessInv, RoomsFollowAccess, Due
      <3>2. CASE j = k
        <4>1. q \in Taken(k)
          BY <1>5, <3>1, <3>2 DEF DueIn
        <4>2. <<t, q>> \notin turn[k]
          <5> SUFFICES ASSUME <<t, q>> \in turn[k] PROVE FALSE
            OBVIOUS
          <5>1. q \notin P
            BY <1>5, <2>3
          <5>2. ~InScope(k, q)
            BY <1>2, <5>1
          <5>3. q[1] = "card" /\ q # Org
            BY <1>0, PlaceForms DEF WorkFits
          <5>4. Live(At(q))
            BY <2>1, <5>3 DEF AccessInv, LiveHeld
          <5>5. call[k].at # None /\ At(q) # call[k].at
            BY <5>2, <5>4 DEF InScope
          <5>6. scope[k] = {call[k].at}
            BY <1>0, <1>5, <5>5 DEF WorkFits
          <5> QED BY <4>1, <5>3, <5>5, <5>6 DEF Taken, PlacesOf
        <4>3. q \in Taken(k)'
          BY <1>5, <4>1 DEF Taken, PlacesOf
        <4>4. DueIn(k, t, q)'
          BY <1>5, <3>1, <3>2, <4>2, <4>3 DEF DueIn
        <4> QED BY <4>4 DEF Due
      <3>3. CASE j # k
        <4>1. \A x \in P : x[1] = "card"
          BY <1>0, <1>2 DEF WorkFits
        <4>2. q # Org => ProjectRoom(At(q)) \notin P
          BY <2>1, <4>1, PlaceForms, RoomForms
        <4>3. q # Org => \A r \in Sockets : Up(r) /\ ProjectRoom(At(q)) \in holds[r]
                                              => Up(r)' /\ ProjectRoom(At(q)) \in holds'[r]
          BY <1>5, <4>2 DEF Up
        <4>4. DueIn(j, t, q)'
          BY <1>5, <2>1, <3>1, <3>3, <4>3, DueStays
        <4> QED BY <4>4 DEF Due
      <3> QED BY <3>2, <3>3
    <2> QED BY <2>2, <2>3
  <1> QED BY <1>5, <1>6, <1>7, <1>8, Shrinking

LEMMA StopKeeps ==
    ASSUME TypesInv, AccessInv, NEW k \in Calls, Stop(k)
    PROVE  AccessInv'
PROOF
  <1>1. Quiet /\ UNCHANGED <<memberVars, holds>> /\ stray' = stray \cup (Unfollowed' \ Unfollowed)
    BY DEF Stop, Quiet
  <1>2. ASSUME NEW t \in Sockets, NEW q \in holds'[t], Up(t)
        PROVE  May(SocketUser[t], q)' \/ Due(t, q)' \/ <<t, q>> \in stray'
    <2>1. q \in holds[t] /\ q \in Places
      BY <1>1 DEF TypesInv, RoomsTyped
    <2> QED BY <1>1, <1>2, <2>1, Newly
  <1> QED BY <1>1, <1>2, Shrinking

LEMMA AccessKeeps == TypesInv /\ AccessInv /\ [Next]_vars => AccessInv'
PROOF
  <1> SUFFICES ASSUME TypesInv, AccessInv, [Next]_vars PROVE AccessInv'
    OBVIOUS
  <1>1. TypesInv'
    BY TypesKeep
  <1>2. CASE UNCHANGED vars
    <2>1. UNCHANGED <<memberVars, call, link, holds, asked, workVars, stray>>
      BY <1>2 DEF vars, roomVars
    <2>2. \A t \in Sockets : \A q \in holds'[t] :
              Up(t) => May(SocketUser[t], q)' \/ Due(t, q)' \/ <<t, q>> \in stray'
      <3> SUFFICES ASSUME NEW t \in Sockets, NEW q \in holds'[t], Up(t)
                   PROVE  May(SocketUser[t], q)' \/ Due(t, q)' \/ <<t, q>> \in stray'
        OBVIOUS
      <3>1. q \in holds[t] /\ q \in Places
        BY <2>1 DEF TypesInv, RoomsTyped
      <3>2. ASSUME NEW j \in Calls, DueIn(j, t, q) PROVE DueIn(j, t, q)'
        BY <2>1, <3>1, <3>2, DueStays DEF workVars, Up
      <3> QED BY <2>1, <3>1, <3>2, SameSight DEF AccessInv, RoomsFollowAccess, Due
    <2>3. Quiet
      BY <1>2 DEF vars, roomVars, Quiet
    <2> QED BY <2>1, <2>2, <2>3, Shrinking
  <1>3. CASE Next
    BY <1>1, <1>3, HelloKeeps, ConnectKeeps, DisconnectKeeps, AskKeeps, EnterKeeps, LeaveKeeps,
       CheckingKeeps, GrantedKeeps, LostKeeps, StopKeeps, EvictStartKeeps, LeaveCardsKeeps,
       EvictNextKeeps, ScansKeep, LeaveRoomsKeeps DEF Next
  <1> QED BY <1>2, <1>3

\* Every row, call and connection has a value of its type, and a follow-up has work
\* before it only in the phases that do it.
THEOREM TypesCorrect == Spec => []TypeOK
PROOF
  <1>1. TypesInv => TypeOK
    BY TypesGive
  <1> QED BY <1>1, RoomsStart, TypesKeep, PTL DEF Spec

\* A connection is in a room only while its user may see what is said there, or a
\* follow-up at work takes the place away; the exceptions are recorded as they arise.
THEOREM RoomsFollowAccessCorrect == Spec => []RoomsFollowAccess
PROOF
  <1>1. AccessInv => RoomsFollowAccess
    BY DEF AccessInv
  <1>2. Init => TypesInv /\ AccessInv
    BY RoomsStart, AccessStart
  <1>3. TypesInv /\ AccessInv /\ [Next]_vars => (TypesInv /\ AccessInv)'
    BY TypesKeep, AccessKeeps
  <1> QED BY <1>1, <1>2, <1>3, PTL DEF Spec
=============================================================================
