------------------------------ MODULE Notices ------------------------------
(***************************************************************************)
(* Notifications about one card: comments with their mentions, watchers,    *)
(* the end of a blocker, and the nightly scan, which must not repeat itself *)
(* while its last notification is unread.                                   *)
(***************************************************************************)
EXTENDS Naturals, FiniteSets

CONSTANTS
    People,     \* users
    Creator,    \* of the card, and owner of its project
    Nobody,     \* no root: the comment is one
    Wordings,   \* what a message says: a card's title; a project's and a column's name, a limit
    Comments,   \* ids of comments
    Talks,      \* requests of users under way at a time
    Scans,      \* runs of the scan under way at a time
    MaxScans,   \* bound: runs of the scan
    MaxUnread   \* bound: unread notifications of a type to one user

ASSUME NoticesAssumption ==
    /\ Creator \in People /\ Nobody \notin People \cup Comments \cup {"deleted"}
    /\ MaxScans \in Nat /\ Wordings # {}

ScanTypes == {"STALE_CARD", "WIP_EXCEEDED"}
NoticeTypes == ScanTypes \cup {"MENTIONED", "WATCHED_CARD_ACTIVITY", "BLOCKER_RESOLVED"}

VARIABLES
    members,    \* of the organisation
    muted,      \* by user, types turned off
    assignees,  \* of the card
    unread,     \* by user, type and wording, unread notifications about the card or its column
    wording,    \* by type of the scan, what its message would say now
    watchers,   \* of the card
    comments,   \* by id, author and root, or the id is unused or its comment deleted
    talk,       \* requests under way
    flagged,    \* types the scan has a reason for: an idle card, a full column
    strand,     \* by run and type, what the scan has yet to tell, to whom and in which words
    scans,      \* runs so far
    doubled     \* history: user and type two scans were about to tell at once

noticeVars ==
    <<members, muted, assignees, unread, wording, watchers, comments, talk, flagged, strand, scans, doubled>>

Quiet == [kind |-> "quiet"]
Unwritten == [author |-> Nobody, root |-> Nobody]
Gone == [author |-> Nobody, root |-> "deleted"]

NewComments == {x \in Comments : comments[x] = Unwritten}
Written(x) == comments[x] \notin {Unwritten, Gone}
Targets == IF assignees = {} THEN {Creator} ELSE assignees
Hears(u, type) == type \notin muted[u]

\* createNotification, for each of some users; who has muted the type gets none.
Notify(users, type, text) ==
    unread' = [u \in People |->
                 IF u \in users /\ Hears(u, type)
                 THEN [unread[u] EXCEPT ![type][text] = @ + 1] ELSE unread[u]]

\* Only the scan looks for its own words again.
SomeWords == CHOOSE w \in Wordings : TRUE
NothingNew == [type \in NoticeTypes |-> [w \in Wordings |-> 0]]

----------------------------------------------------------------------------
(* Comments.                                                               *)

\* Mutant: a reply to a reply stays there.
MutantRoot(x) == x

\* A reply to a reply goes to the root.
Root(x) == IF comments[x].root = Nobody THEN x ELSE comments[x].root

\* createComment up to its insert; the answered comment is read.
BeginComment(k, u, to) ==
    /\ talk[k] = Quiet /\ u \in members
    /\ to # Nobody => Written(to)
    /\ talk' = [talk EXCEPT ![k] =
            [kind |-> "insert", author |-> u,
             root |-> IF to = Nobody THEN Nobody ELSE Root(to)]]
    /\ UNCHANGED <<members, muted, assignees, unread, wording, watchers, comments, flagged, strand, scans, doubled>>

\* A root deleted since makes the insert fail.
InsertComment(k) ==
    /\ talk[k].kind = "insert"
    /\ NewComments # {}
    /\ IF talk[k].root # Nobody => Written(talk[k].root)
       THEN /\ comments' = [comments EXCEPT ![CHOOSE x \in NewComments : TRUE] =
                    [author |-> talk[k].author, root |-> talk[k].root]]
            /\ talk' = [talk EXCEPT ![k].kind = "mention"]
       ELSE talk' = [talk EXCEPT ![k] = Quiet] /\ UNCHANGED comments
    /\ UNCHANGED <<members, muted, assignees, unread, wording, watchers, flagged, strand, scans, doubled>>

\* The members the text names, but for its author.
Mention(k, named) ==
    /\ talk[k].kind = "mention"
    /\ Notify((named \cap members) \ {talk[k].author}, "MENTIONED", SomeWords)
    /\ talk' = [talk EXCEPT ![k].kind = "tell"]
    /\ UNCHANGED <<members, muted, assignees, wording, watchers, comments, flagged, strand, scans, doubled>>

\* notifyWatchers: those who are members still, but for the author.
TellWatchers(k) ==
    /\ talk[k].kind = "tell"
    /\ Notify((watchers \cap members) \ {talk[k].author}, "WATCHED_CARD_ACTIVITY", SomeWords)
    /\ talk' = [talk EXCEPT ![k].kind = "watch"]
    /\ UNCHANGED <<members, muted, assignees, wording, watchers, comments, flagged, strand, scans, doubled>>

AutoWatch(k) ==
    /\ talk[k].kind = "watch"
    /\ watchers' = watchers \cup {talk[k].author}
    /\ talk' = [talk EXCEPT ![k] = Quiet]
    /\ UNCHANGED <<members, muted, assignees, unread, wording, comments, flagged, strand, scans, doubled>>

\* Replies go with their root.
DeleteComment(x) ==
    /\ Written(x) /\ comments[x].author \in members
    /\ comments' = [y \in Comments |->
            IF y = x \/ comments[y].root = x THEN Gone ELSE comments[y]]
    /\ UNCHANGED <<members, muted, assignees, unread, wording, watchers, talk, flagged, strand, scans, doubled>>

----------------------------------------------------------------------------
(* Members, watchers, preferences.                                         *)

Watch(u) ==
    /\ u \in members
    /\ watchers' \in {watchers \cup {u}, watchers \ {u}}
    /\ UNCHANGED <<members, muted, assignees, unread, wording, comments, talk, flagged, strand, scans, doubled>>

SetPref(u, type) ==
    /\ muted' = [muted EXCEPT ![u] = IF type \in @ THEN @ \ {type} ELSE @ \cup {type}]
    /\ UNCHANGED <<members, assignees, unread, wording, watchers, comments, talk, flagged, strand, scans, doubled>>

MarkAsRead(u, type, text) ==
    /\ unread[u][type][text] > 0
    /\ unread' = [unread EXCEPT ![u][type][text] = @ - 1]
    /\ UNCHANGED <<members, muted, assignees, wording, watchers, comments, talk, flagged, strand, scans, doubled>>

MarkAllAsRead(u) ==
    /\ unread' = [unread EXCEPT ![u] = NothingNew]
    /\ UNCHANGED <<members, muted, assignees, wording, watchers, comments, talk, flagged, strand, scans, doubled>>

\* Watching and assignments outlive the membership.
ComeAndGo(u) ==
    /\ members' \in {members \cup {u}, members \ {u}}
    /\ UNCHANGED <<muted, assignees, unread, wording, watchers, comments, talk, flagged, strand, scans, doubled>>

Assign(u) ==
    /\ assignees' \in {assignees \cup {u}, assignees \ {u}}
    /\ UNCHANGED <<members, muted, unread, wording, watchers, comments, talk, flagged, strand, scans, doubled>>

\* notifyBlockerResolved, for the card that was blocked.
BlockerResolved ==
    /\ Notify(Targets, "BLOCKER_RESOLVED", SomeWords)
    /\ UNCHANGED <<members, muted, assignees, wording, watchers, comments, talk, flagged, strand, scans, doubled>>

----------------------------------------------------------------------------
(* The nightly scan.                                                       *)

Resting == [phase |-> "rest", todo |-> {}, user |-> Nobody, text |-> SomeWords]

\* The card or the column changes, and the reason with it.
Change(type) ==
    /\ flagged' \in {flagged \cup {type}, flagged \ {type}}
    /\ UNCHANGED <<members, muted, assignees, unread, wording, watchers, comments, talk, strand, scans, doubled>>

\* updateCard, updateProject, updateColumn: another title, name or limit.
Reword(type, text) ==
    /\ wording' = [wording EXCEPT ![type] = text]
    /\ UNCHANGED <<members, muted, assignees, unread, watchers, comments, talk, flagged, strand, scans, doubled>>

\* runNightlyScan: the searches run at once.
StartScan(r) ==
    /\ \A type \in ScanTypes : strand[r][type] = Resting
    /\ scans < MaxScans
    /\ scans' = scans + 1
    /\ strand' = [strand EXCEPT ![r] = [type \in ScanTypes |-> [Resting EXCEPT !.phase = "search"]]]
    /\ UNCHANGED <<members, muted, assignees, unread, wording, watchers, comments, talk, flagged, doubled>>

\* scanStaleCards and scanDeadlineRisk tell the assignees, scanWipExceeded the
\* owner of the project.
Audience(type) == IF type = "WIP_EXCEEDED" THEN {Creator} ELSE Targets

SearchCards(r, type) ==
    /\ strand[r][type].phase = "search"
    /\ strand' = [strand EXCEPT ![r][type] =
            IF type \in flagged
            THEN [phase |-> "next", todo |-> Audience(type), user |-> Nobody, text |-> wording[type]]
            ELSE Resting]
    /\ UNCHANGED <<members, muted, assignees, unread, wording, watchers, comments, talk, flagged, scans, doubled>>

Rest(r, type) ==
    IF strand[r][type].todo = {} THEN Resting ELSE [strand[r][type] EXCEPT !.phase = "next"]

\* A notification about a card is known by the card, whatever it says; one about a
\* column names no card and is known by what it says.
SameMatter(type, text, other) == type = "WIP_EXCEEDED" => text = other

\* Mutant: what is about a card is known by its message too.
MutantKnown(u, type, text) == unread[u][type][text] > 0

\* notifyOnce looks for an unread notification of this type about this matter.
Known(u, type, text) ==
    \E other \in Wordings : SameMatter(type, text, other) /\ unread[u][type][other] > 0

Telling(r, type, u, text) ==
    /\ strand[r][type].phase = "tell" /\ strand[r][type].user = u
    /\ SameMatter(type, text, strand[r][type].text)

Look(r, type, u) ==
    /\ strand[r][type].phase = "next" /\ u \in strand[r][type].todo
    /\ LET left == [strand[r][type] EXCEPT !.todo = @ \ {u}]
       IN IF Known(u, type, left.text)
          THEN /\ strand' = [strand EXCEPT ![r][type] = IF left.todo = {} THEN Resting ELSE left]
               /\ UNCHANGED doubled
          ELSE /\ strand' = [strand EXCEPT ![r][type] = [left EXCEPT !.phase = "tell", !.user = u]]
               /\ doubled' = IF \E q \in Scans : Telling(q, type, u, left.text)
                             THEN doubled \cup {<<u, type>>} ELSE doubled
    /\ UNCHANGED <<members, muted, assignees, unread, wording, watchers, comments, talk, flagged, scans>>

\* The message says what the search had read.
Tell(r, type) ==
    /\ strand[r][type].phase = "tell"
    /\ Notify({strand[r][type].user}, type, strand[r][type].text)
    /\ strand' = [strand EXCEPT ![r][type] = Rest(r, type)]
    /\ UNCHANGED <<members, muted, assignees, wording, watchers, comments, talk, flagged, scans, doubled>>

----------------------------------------------------------------------------
NoticesInit ==
    /\ members = People
    /\ muted = [u \in People |-> {}]
    /\ assignees = {} /\ watchers = {} /\ flagged = {} /\ doubled = {}
    /\ unread = [u \in People |-> NothingNew]
    /\ wording = [type \in ScanTypes |-> SomeWords]
    /\ comments = [x \in Comments |-> Unwritten]
    /\ talk = [k \in Talks |-> Quiet]
    /\ strand = [r \in Scans |-> [type \in ScanTypes |-> Resting]]
    /\ scans = 0

Room(type) == \A u \in People : unread[u][type][SomeWords] < MaxUnread

TalkNext ==
    \/ \E k \in Talks :
        \/ \E u \in People, to \in Comments \cup {Nobody} : BeginComment(k, u, to)
        \/ InsertComment(k) \/ AutoWatch(k)
        \/ Room("MENTIONED") /\ \E named \in SUBSET People : Mention(k, named)
        \/ Room("WATCHED_CARD_ACTIVITY") /\ TellWatchers(k)
    \/ \E x \in Comments : DeleteComment(x)
    \/ \E u \in People \ {Creator} :
        \/ Watch(u) \/ ComeAndGo(u) \/ SetPref(u, "WATCHED_CARD_ACTIVITY")
    \/ \E u \in People : MarkAllAsRead(u)
    \/ Room("BLOCKER_RESOLVED") /\ BlockerResolved

\* The scan, while the reason for one type of notification comes and goes.
ScanNext(type) ==
    \/ \E r \in Scans :
        \/ StartScan(r)
        \/ \E t \in ScanTypes :
            \/ SearchCards(r, t) \/ Tell(r, t)
            \/ \E u \in People : Look(r, t, u)
    \/ Change(type)
    \/ \E text \in Wordings :
        \/ Reword(type, text)
        \/ \E u \in People : MarkAsRead(u, type, text)
    \/ \E u \in People \ {Creator} : Assign(u) \/ SetPref(u, type)

----------------------------------------------------------------------------
(* Properties.                                                             *)

\* Types; a thread has one level: what a reply answers is a comment that is
\* there and is no reply (schema.prisma:777).
NoticesTypeOK ==
    /\ members \cup watchers \cup assignees \subseteq People
    /\ muted \in [People -> SUBSET NoticeTypes]
    /\ unread \in [People -> [NoticeTypes -> [Wordings -> Nat]]]
    /\ wording \in [ScanTypes -> Wordings]
    /\ \A x \in Comments : Written(x) =>
         /\ comments[x].author \in People
         /\ comments[x].root # Nobody =>
              Written(comments[x].root) /\ comments[comments[x].root].root = Nobody
    /\ flagged \subseteq ScanTypes
    /\ \A r \in Scans : strand[r] \in
         [ScanTypes -> [phase : {"rest", "search", "next", "tell"}, todo : SUBSET People,
                        user : People \cup {Nobody}, text : Wordings]]
    /\ scans \in 0..MaxScans
    /\ doubled \subseteq People \X ScanTypes

\* scan.service ("aksi halde her gece ayni sey icin spam atariz"): a user has
\* one unread notification at most of the scan about one card, whatever its
\* title was when it was told, and one of each wording about a column, however
\* many nights they go unread, unless two scans were about to write one at once.
NotifiedOnce ==
    \A u \in People : \A type \in ScanTypes : <<u, type>> \notin doubled =>
        \A s, t \in Wordings :
            SameMatter(type, s, t) /\ unread[u][type][s] > 0 /\ unread[u][type][t] > 0
                => s = t /\ unread[u][type][s] = 1
=============================================================================
