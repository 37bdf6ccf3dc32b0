----------------------------- MODULE Membership -----------------------------
(***************************************************************************)
(* Who belongs to an organisation and who sees which of its projects.      *)
(*                                                                         *)
(* A call first checks and later writes, with awaits and no lock between:  *)
(* any other call may write in the meantime.  What it has checked is kept  *)
(* in call[k], one record for each call at work, and each write is a step  *)
(* of its own.  The database refuses rows whose project is gone, and one   *)
(* transaction is one step.                                                *)
(*                                                                         *)
(* Three writes have a follow-up on the open connections of the users      *)
(* concerned; phase says which is due, and the module Rooms carries it out *)
(* and ends the call.                                                      *)
(***************************************************************************)
EXTENDS Naturals, FiniteSets

CONSTANTS
    Users,
    Founder,     \* owner of the organisation
    Projects,    \* ids a project may get
    Invitations, \* ids an invitation may get
    Calls,       \* calls at work at a time
    None,        \* no user, no project, no invitation
    MaxBegun     \* bound: calls begun and connections opened

ASSUME MembershipAssumption ==
    /\ Founder \in Users
    /\ None \notin Users \cup Projects \cup Invitations
    /\ MaxBegun \in Nat

VARIABLES
    roles,      \* OrganizationMember: by user, a role or "none"
    visibility, \* by project; "unborn" before its creation, "gone" after its end
    owner,      \* by project, who created it
    explicit,   \* ProjectMember: the rows, as pairs of a project and a user
    invites,    \* OrganizationInvitation, by id
    call,       \* the calls at work
    begun,      \* how many calls and connections there were, for the bound alone
    entered,    \* history: how often each invitation was accepted
    crossed,    \* history: invitations declined after they were accepted
    leftover    \* history: rows of explicit written after the membership ended

Roles == {"ADMIN", "MEMBER", "GUEST"}
Visibilities == {"ORG", "TEAM", "PRIVATE"}

memberVars == <<roles, visibility, owner, explicit, invites, entered, crossed, leftover>>

Live(p) == visibility[p] \in Visibilities
Member(u) == roles[u] # "none"
OrgUp == Member(Founder)

Idle == [op |-> "idle", who |-> None, at |-> None, arg |-> "", phase |-> ""]

----------------------------------------------------------------------------
(* The rule of visibility, in the three forms the services have it.        *)

NeedsExplicit(role, v) == role = "GUEST" \/ v = "PRIVATE" \/ (v = "TEAM" /\ role # "ADMIN")

\* checkProjectAccess: one user, one project.
CanSee(u, p) ==
    /\ Live(p)
    /\ Member(u)
    /\ \/ owner[p] = u
       \/ ~NeedsExplicit(roles[u], visibility[p])
       \/ <<p, u>> \in explicit

\* filterVisibleProjects: the projects of one member.  Those that need a row are
\* looked up in one query.
VisibleProjects(u) ==
    LET candidates == {p \in Projects : Live(p) /\ owner[p] # u
                                        /\ NeedsExplicit(roles[u], visibility[p])}
        found == {p \in candidates : <<p, u>> \in explicit}
    IN  IF Member(u) THEN ({p \in Projects : Live(p)} \ candidates) \cup found ELSE {}

\* Those the project was shared with are told, members or not.
MutantAudience(p) ==
    IF Live(p)
    THEN {u \in Users : \/ u = owner[p]
                        \/ Member(u) /\ ~NeedsExplicit(roles[u], visibility[p])
                        \/ <<p, u>> \in explicit}
    ELSE {}

\* getProjectAudience: the members who see one project.
Audience(p) ==
    IF Live(p)
    THEN {u \in Users : /\ Member(u)
                        /\ \/ u = owner[p]
                           \/ ~NeedsExplicit(roles[u], visibility[p])
                           \/ <<p, u>> \in explicit}
    ELSE {}

\* assertCanManageProjectAccess, after checkProjectAccess.
CanManage(u, p) == CanSee(u, p) /\ (owner[p] = u \/ roles[u] = "ADMIN")

----------------------------------------------------------------------------
(* A call that has passed its checks, and one that ends.                   *)

Begin(k, c) ==
    /\ call[k] = Idle
    /\ begun < MaxBegun
    /\ begun' = begun + 1
    /\ call' = [call EXCEPT ![k] = c]
    /\ UNCHANGED memberVars

Request(op, u, p, a) == [op |-> op, who |-> u, at |-> p, arg |-> a, phase |-> "write"]

Writing(k, op) == call[k].op = op /\ call[k].phase = "write"

End(k) == call' = [call EXCEPT ![k] = Idle] /\ UNCHANGED begun

\* The follow-up of a write.
Follow(k, phase) == call' = [call EXCEPT ![k].phase = phase] /\ UNCHANGED begun

----------------------------------------------------------------------------
(* Invitations.                                                            *)

Pending(i) == invites[i].status = "PENDING"

InviteCheck(k, a, u, r) ==
    /\ roles[a] = "ADMIN"
    /\ ~Member(u)
    /\ ~\E i \in Invitations : Pending(i) /\ invites[i].who = u
    /\ Begin(k, Request("invite", u, None, r))

InviteWrite(k, i) ==
    /\ Writing(k, "invite")
    /\ OrgUp
    /\ invites[i].status = "free"
    /\ invites' = [invites EXCEPT ![i] =
                     [status |-> "PENDING", who |-> call[k].who, role |-> call[k].arg]]
    /\ End(k)
    /\ UNCHANGED <<roles, visibility, owner, explicit, entered, crossed, leftover>>

\* The invited user answers, or an admin takes the invitation back.
AcceptCheck(k, i) == Pending(i) /\ Begin(k, Request("accept", invites[i].who, i, ""))
DeclineCheck(k, i) == Pending(i) /\ Begin(k, Request("decline", invites[i].who, i, ""))
CancelCheck(k, a, i) ==
    /\ roles[a] = "ADMIN"
    /\ Pending(i)
    /\ Begin(k, Request("cancel", invites[i].who, i, ""))

\* The row as it was read is taken for the row as it is.
MutantAcceptable(i) == invites[i].status \in {"PENDING", "ACCEPTED", "DECLINED"}

\* The update names the status: the transaction fails on an answered invitation.
Acceptable(i) == Pending(i)

AcceptWrite(k) ==
    /\ Writing(k, "accept")
    /\ LET i == call[k].at
           u == call[k].who
       IN  /\ Acceptable(i)
           /\ invites' = [invites EXCEPT ![i].status = "ACCEPTED"]
           /\ roles' = [roles EXCEPT ![u] = IF @ = "none" THEN invites[i].role ELSE @]
           /\ entered' = [entered EXCEPT ![i] = @ + 1]
    /\ End(k)
    /\ UNCHANGED <<visibility, owner, explicit, crossed, leftover>>

\* The update names the id alone, whatever the status is by now.
DeclineWrite(k) ==
    /\ Writing(k, "decline")
    /\ LET i == call[k].at IN
           /\ invites[i].status \in {"PENDING", "ACCEPTED", "DECLINED"}
           /\ invites' = [invites EXCEPT ![i].status = "DECLINED"]
           /\ crossed' = IF invites[i].status = "ACCEPTED" THEN crossed \cup {i} ELSE crossed
    /\ End(k)
    /\ UNCHANGED <<roles, visibility, owner, explicit, entered, leftover>>

CancelWrite(k) ==
    /\ Writing(k, "cancel")
    /\ invites[call[k].at].status \in {"PENDING", "ACCEPTED", "DECLINED"}
    /\ invites' = [invites EXCEPT ![call[k].at].status = "gone"]
    /\ End(k)
    /\ UNCHANGED <<roles, visibility, owner, explicit, entered, crossed, leftover>>

----------------------------------------------------------------------------
(* Members.                                                                *)

RemoveCheck(k, a, u) ==
    /\ roles[a] = "ADMIN"
    /\ u # Founder
    /\ Member(u)
    /\ Begin(k, Request("remove", u, None, ""))

\* The membership alone goes.
MutantGrantsOf(u) == {}

\* What of explicit goes along with the membership.
GrantsOf(u) == {g \in explicit : g[2] = u}

\* One transaction: it fails when the member is gone by now.
RemoveWrite(k) ==
    /\ Writing(k, "remove")
    /\ LET u == call[k].who IN
           /\ Member(u)
           /\ roles' = [roles EXCEPT ![u] = "none"]
           /\ explicit' = explicit \ GrantsOf(u)
           /\ leftover' = leftover \ GrantsOf(u)
           /\ invites' = [i \in Invitations |->
                            IF Pending(i) /\ invites[i].who = u
                            THEN [invites[i] EXCEPT !.status = "gone"] ELSE invites[i]]
    /\ Follow(k, "evict")
    /\ UNCHANGED <<visibility, owner, entered, crossed>>

\* The role read now decides whether the call will evict: a demotion to guest.
RoleCheck(k, a, u, r) ==
    /\ roles[a] = "ADMIN"
    /\ u # Founder
    /\ Member(u)
    /\ Begin(k, Request(IF roles[u] # "GUEST" /\ r = "GUEST" THEN "demote" ELSE "role",
                        u, None, r))

RoleWrite(k) ==
    /\ Writing(k, "role") \/ Writing(k, "demote")
    /\ Member(call[k].who)
    /\ roles' = [roles EXCEPT ![call[k].who] = call[k].arg]
    /\ IF call[k].op = "demote" THEN Follow(k, "evict") ELSE End(k)
    /\ UNCHANGED <<visibility, owner, explicit, invites, entered, crossed, leftover>>

----------------------------------------------------------------------------
(* Projects.                                                               *)

CreateCheck(k, a, p) ==
    /\ roles[a] = "ADMIN"
    /\ visibility[p] = "unborn"
    /\ Begin(k, Request("create", a, p, ""))

CreateWrite(k) ==
    /\ Writing(k, "create")
    /\ OrgUp
    /\ visibility[call[k].at] = "unborn"
    /\ visibility' = [visibility EXCEPT ![call[k].at] = "ORG"]
    /\ owner' = [owner EXCEPT ![call[k].at] = call[k].who]
    /\ End(k)
    /\ UNCHANGED <<roles, explicit, invites, entered, crossed, leftover>>

AddCheck(k, a, u, p) ==
    CanManage(a, p) /\ Member(u) /\ Begin(k, Request("add", u, p, ""))

\* upsert: the membership of the user is not looked at again.
AddWrite(k) ==
    /\ Writing(k, "add")
    /\ Live(call[k].at)
    /\ LET row == <<call[k].at, call[k].who>> IN
           /\ explicit' = explicit \cup {row}
           /\ leftover' = IF Member(call[k].who) THEN leftover ELSE leftover \cup {row}
    /\ End(k)
    /\ UNCHANGED <<roles, visibility, owner, invites, entered, crossed>>

DropCheck(k, a, u, p) == CanManage(a, p) /\ Begin(k, Request("drop", u, p, ""))

DropWrite(k) ==
    /\ Writing(k, "drop")
    /\ explicit' = explicit \ {<<call[k].at, call[k].who>>}
    /\ leftover' = leftover \ {<<call[k].at, call[k].who>>}
    /\ Follow(k, "revalidate")
    /\ UNCHANGED <<roles, visibility, owner, invites, entered, crossed>>

VisibilityCheck(k, a, p, v) == CanManage(a, p) /\ Begin(k, Request("visibility", a, p, v))

\* Nobody looks at the room of the project afterwards.
MutantVisibilityWrite(k) ==
    /\ Writing(k, "visibility")
    /\ Live(call[k].at)
    /\ visibility' = [visibility EXCEPT ![call[k].at] = call[k].arg]
    /\ End(k)
    /\ UNCHANGED <<roles, owner, explicit, invites, entered, crossed, leftover>>

VisibilityWrite(k) ==
    /\ Writing(k, "visibility")
    /\ Live(call[k].at)
    /\ visibility' = [visibility EXCEPT ![call[k].at] = call[k].arg]
    /\ Follow(k, "revalidate")
    /\ UNCHANGED <<roles, owner, explicit, invites, entered, crossed, leftover>>

DeleteCheck(k, a, p) == CanManage(a, p) /\ Begin(k, Request("delete", a, p, ""))

\* The rows of a project that is deleted stay.
MutantRowsOf(P) == {}

\* onDelete: Cascade.
RowsOf(P) == {g \in explicit : g[1] \in P}

DeleteWrite(k) ==
    /\ Writing(k, "delete")
    /\ Live(call[k].at)
    /\ visibility' = [visibility EXCEPT ![call[k].at] = "gone"]
    /\ explicit' = explicit \ RowsOf({call[k].at})
    /\ leftover' = leftover \ RowsOf({call[k].at})
    /\ End(k)
    /\ UNCHANGED <<roles, owner, invites, entered, crossed>>

\* deleteOrganization: the founder never changes, so its check can be part of it.
DeleteOrganization(k) ==
    /\ call[k] = Idle
    /\ begun < MaxBegun
    /\ OrgUp
    /\ begun' = begun + 1
    /\ roles' = [u \in Users |-> "none"]
    /\ visibility' = [p \in Projects |-> "gone"]
    /\ explicit' = {}
    /\ leftover' = {}
    /\ invites' = [i \in Invitations |-> [invites[i] EXCEPT !.status = "gone"]]
    /\ UNCHANGED <<owner, call, entered, crossed>>

----------------------------------------------------------------------------
\* The checks that calls begin with.
Checks(k) ==
    \/ \E a, u \in Users, r \in Roles : InviteCheck(k, a, u, r) \/ RoleCheck(k, a, u, r)
    \/ \E i \in Invitations : AcceptCheck(k, i) \/ DeclineCheck(k, i)
    \/ \E a \in Users, i \in Invitations : CancelCheck(k, a, i)
    \/ \E a, u \in Users : RemoveCheck(k, a, u)
    \/ \E a \in Users, p \in Projects : CreateCheck(k, a, p) \/ DeleteCheck(k, a, p)
    \/ \E a, u \in Users, p \in Projects : AddCheck(k, a, u, p) \/ DropCheck(k, a, u, p)
    \/ \E a \in Users, p \in Projects, v \in Visibilities : VisibilityCheck(k, a, p, v)

\* The writes that cannot take a room from anyone.
Grants(k) ==
    \/ \E i \in Invitations : InviteWrite(k, i)
    \/ AcceptWrite(k) \/ DeclineWrite(k) \/ CancelWrite(k)
    \/ CreateWrite(k) \/ AddWrite(k)

\* The writes that can.
Losses(k) ==
    \/ RemoveWrite(k) \/ RoleWrite(k) \/ DropWrite(k) \/ VisibilityWrite(k)
    \/ DeleteWrite(k) \/ DeleteOrganization(k)

\* A call is refused by the database, fails or dies with the process: no write.
Refuse(k) == call[k].phase = "write" /\ End(k) /\ UNCHANGED memberVars

\* An organisation at any time: its founder, maybe others, maybe an invitation
\* not answered yet; projects of the founder, and rows for members.
MembershipInit ==
    /\ roles \in [Users -> Roles \cup {"none"}] /\ roles[Founder] = "ADMIN"
    /\ visibility \in [Projects -> Visibilities \cup {"unborn"}]
    /\ owner = [p \in Projects |-> Founder]
    /\ explicit \in SUBSET {g \in Projects \X (Users \ {Founder}) : Live(g[1]) /\ Member(g[2])}
    /\ invites \in [Invitations ->
            {[status |-> "free", who |-> None, role |-> "MEMBER"]} \cup
            [status: {"PENDING"}, who: {u \in Users : ~Member(u)}, role: Roles]]
    /\ call = [k \in Calls |-> Idle]
    /\ begun = 0
    /\ entered = [i \in Invitations |-> 0]
    /\ crossed = {} /\ leftover = {}

----------------------------------------------------------------------------
(* Types, with the references the database keeps.                          *)
MembershipTypeOK ==
    /\ roles \in [Users -> Roles \cup {"none"}]
    /\ visibility \in [Projects -> Visibilities \cup {"unborn", "gone"}]
    /\ owner \in [Projects -> Users]
    /\ explicit \subseteq {g \in Projects \X Users : Live(g[1])}
    /\ leftover \subseteq explicit
    /\ \A i \in Invitations :
        /\ invites[i].status \in {"free", "PENDING", "ACCEPTED", "DECLINED", "gone"}
        /\ invites[i].who \in Users \cup {None}
        /\ invites[i].role \in Roles
    /\ \A k \in Calls : call[k].op = "idle" <=> call[k] = Idle
    /\ begun \in 0 .. MaxBegun
    /\ entered \in [Invitations -> Nat] /\ crossed \subseteq Invitations

(* An invitation brings its user in at most once, and its status says so,   *)
(* except when a refusal overwrote the acceptance it had not seen: two      *)
(* answers to one invitation cross in acceptInvitation and declineInvitation. *)
AnsweredOnce ==
    \A i \in Invitations :
        /\ entered[i] <= 1
        /\ invites[i].status = "ACCEPTED" => entered[i] = 1
        /\ invites[i].status \in {"PENDING", "DECLINED"} /\ i \notin crossed => entered[i] = 0

(* Nobody outside of the organisation keeps a grant to one of its projects, *)
(* which would come back to life with a later invitation, unless the grant  *)
(* was written by a call that had checked the membership before its end.    *)
NoLeftoverGrants ==
    \A g \in explicit : Member(g[2]) \/ g \in leftover

(* The access check of one project, the list of the projects of one member  *)
(* and the audience of one project follow one rule, whatever sequence of    *)
(* role changes, grants and visibilities led here.                          *)
OneRule ==
    \A u \in Users, p \in Projects :
        /\ p \in VisibleProjects(u) <=> CanSee(u, p)
        /\ u \in Audience(p) <=> CanSee(u, p)
=============================================================================
