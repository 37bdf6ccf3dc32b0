------------------------------ MODULE Presence ------------------------------
(***************************************************************************)
(* The early warning of git conflicts.  An editor reports the file and the *)
(* card its user works on; two users on one file for two different cards   *)
(* are in conflict, and the boards show a badge until they are told that   *)
(* the conflict is over.  All of it is in the memory of one process: a map *)
(* from files to users to entries, and the last file of each socket.       *)
(*                                                                         *)
(* Handlers run to completion except at an await: the report of a file     *)
(* awaits the access check of the card, and everything else may happen     *)
(* before it goes on.  Files are the keys of the map, the paths within one *)
(* organisation.                                                           *)
(***************************************************************************)
EXTENDS Naturals, FiniteSets

CONSTANTS
    Files,      \* keys of presenceByFile: the paths of one organisation
    Users,
    Sockets,    \* socket ids; an id is never used again
    SocketUser, \* the user a socket belongs to
    Cards,
    None,       \* no entry, no file
    TTL,        \* PRESENCE_TTL_MS, in ticks
    MaxReports  \* bound: files reported

ASSUME PresenceAssumption ==
    /\ SocketUser \in [Sockets -> Users]
    /\ None \notin Files
    /\ None \notin [card: Cards, socket: Sockets, age: 0 .. TTL]
    /\ TTL \in Nat /\ MaxReports \in Nat

VARIABLES
    presence,  \* presenceByFile: by file and user, an entry or None
    lastFile,  \* lastFileBySocket
    socket,    \* "up" from the start (idle until it reports), or "gone"
    waiting,   \* by socket, the reports whose access check is awaited
    badges,    \* external: the conflicts the boards show, from the events sent
    reported,  \* how many files were reported, for the bound alone
    late,      \* history: sockets a report of which went on after they were gone
    missed,    \* history: badges whose conflict ended without an event
    taken      \* history: badges taken back although the conflict lasts

vars == <<presence, lastFile, socket, waiting, badges, reported, late, missed, taken>>

Entry == [card: Cards, socket: Sockets, age: 0 .. TTL]
Report == [card: Cards, file: Files]
Badge(f, c, d) == [file |-> f, cards |-> {c, d}]

\* isFresh: the age counts the ticks since the last report.
Fresh(e) == e.age < TTL

\* The users with an entry on file f in map P.
On(P, f) == {u \in Users : P[f][u] # None}
Stale(P, f) == {u \in On(P, f) : ~Fresh(P[f][u])}

----------------------------------------------------------------------------
(* removePresence for the users U on file f, as steps of a handler: what    *)
(* map, last files and badges are afterwards.                              *)

Without(P, f, U) == [P EXCEPT ![f] = [u \in Users |-> IF u \in U THEN None ELSE P[f][u]]]

Forget(L, P, f, U) ==
    [s \in Sockets |->
        IF \E u \in U \cap On(P, f) : P[f][u].socket = s THEN None ELSE L[s]]

\* The events depend on the one leaving being fresh instead.
MutantResolved(P, f, U) ==
    {Badge(f, P[f][pair[1]].card, P[f][pair[2]].card) : pair \in
        {p \in (U \cap On(P, f)) \X (On(P, f) \ U) :
            /\ Fresh(P[f][p[1]])
            /\ P[f][p[1]].card # P[f][p[2]].card}}

\* conflict:resolved goes out for each one leaving and each fresh one staying,
\* if they are there for different cards.
Resolved(P, f, U) ==
    {Badge(f, P[f][pair[1]].card, P[f][pair[2]].card) : pair \in
        {p \in (U \cap On(P, f)) \X (On(P, f) \ U) :
            /\ Fresh(P[f][p[2]])
            /\ P[f][p[1]].card # P[f][p[2]].card}}

\* The conflicts there are in map P, stale entries included.
Conflicts(P) ==
    UNION {{Badge(f, P[f][pair[1]].card, P[f][pair[2]].card) : pair \in
        {p \in On(P, f) \X On(P, f) : P[f][p[1]].card # P[f][p[2]].card}} : f \in Files}

\* The badges no event is sent for: the one staying is stale too.
Unsaid(P, f, U) ==
    {Badge(f, P[f][pair[1]].card, P[f][pair[2]].card) : pair \in
        {p \in (U \cap On(P, f)) \X Stale(P, f) : P[f][p[1]].card # P[f][p[2]].card}}

\* A handler leaves map P; the boards drop and add badges.
Update(P, dropped, added, unsaid) ==
    /\ presence' = P
    /\ badges' = (badges \ dropped) \cup added
    /\ missed' = (missed \cup unsaid) \cap badges'
    /\ taken' = ((taken \cup dropped) \cap Conflicts(P)) \ badges'

----------------------------------------------------------------------------
\* presence:file arrives; its handler awaits the access check.
ReportFile(s, m) ==
    /\ socket[s] = "up"
    /\ reported < MaxReports
    /\ reported' = reported + 1
    /\ waiting' = [waiting EXCEPT ![s] = @ \cup {m}]
    /\ UNCHANGED <<presence, lastFile, socket, badges, late, missed, taken>>

\* The check fails, or the card is gone.
Denied(s, m) ==
    /\ m \in waiting[s]
    /\ waiting' = [waiting EXCEPT ![s] = @ \ {m}]
    /\ UNCHANGED <<presence, lastFile, socket, badges, reported, late, missed, taken>>

\* clearPresence: what the user of a socket has on the last file of that socket
\* is removed, whichever socket of that user wrote the entry.
MutantCleared(s) == {}

Cleared(s) == IF lastFile[s] = None THEN {} ELSE {SocketUser[s]}

\* The file cleared; any file will do when the socket has none: Cleared is empty.
FileOf(s) == IF lastFile[s] = None THEN CHOOSE f \in Files : TRUE ELSE lastFile[s]

\* The badges detected when user u reports card c on file f: one for each other
\* user there with another card.
MutantDetected(P, f, u, c) ==
    {Badge(f, c, P[f][v].card) :
        v \in {w \in On(P, f) \ {u} : P[f][w].card # c /\ P[f][u] = None}}

Detected(P, f, u, c) ==
    {Badge(f, c, P[f][v].card) :
        v \in {w \in On(P, f) \ {u} : P[f][w].card # c}}

\* The entry written replaces one that another socket of the user left there.
\* Nobody is told that the conflicts of that one are over.
Replaced(P, f, u, c) ==
    IF P[f][u] # None /\ P[f][u].card # c
    THEN {Badge(f, P[f][u].card, P[f][v].card) :
            v \in {w \in On(P, f) \ {u} : P[f][w].card # P[f][u].card}}
    ELSE {}

\* The rest of presence:file, in one go: clear the last file, drop the stale
\* entries of the new one, write the entry, tell the boards.  The socket may be
\* gone by now.
Handle(s, m) ==
    /\ m \in waiting[s]
    /\ LET f == m.file
           u == SocketUser[s]
           cleared == Without(presence, FileOf(s), Cleared(s))
           pruned == Without(cleared, f, Stale(cleared, f))
           entry == [card |-> m.card, socket |-> s, age |-> 0]
           gone == Resolved(presence, FileOf(s), Cleared(s))
                     \cup Resolved(cleared, f, Stale(cleared, f))
           L == Forget(Forget([lastFile EXCEPT ![s] = None],
                              presence, FileOf(s), Cleared(s)),
                       cleared, f, Stale(cleared, f))
           unsaid == Unsaid(presence, FileOf(s), Cleared(s))
                       \cup Unsaid(cleared, f, Stale(cleared, f))
                       \cup Replaced(pruned, f, u, m.card)
       IN /\ Update([pruned EXCEPT ![f][u] = entry], gone,
                    Detected(pruned, f, u, m.card), unsaid)
          /\ lastFile' = [L EXCEPT ![s] = f]
    /\ waiting' = [waiting EXCEPT ![s] = @ \ {m}]
    /\ late' = IF socket[s] = "gone" THEN late \cup {s} ELSE late
    /\ UNCHANGED <<socket, reported>>

\* clearPresence, from presence:clear and from disconnect.
Clear(s) ==
    /\ lastFile' = Forget([lastFile EXCEPT ![s] = None],
                          presence, FileOf(s), Cleared(s))
    /\ Update(Without(presence, FileOf(s), Cleared(s)),
              Resolved(presence, FileOf(s), Cleared(s)), {},
              Unsaid(presence, FileOf(s), Cleared(s)))

StopWorking(s) ==
    /\ socket[s] = "up"
    /\ lastFile[s] # None
    /\ Clear(s)
    /\ UNCHANGED <<socket, waiting, reported, late>>

MutantDisconnect(s) ==
    /\ socket[s] = "up"
    /\ socket' = [socket EXCEPT ![s] = "gone"]
    /\ UNCHANGED <<presence, lastFile, waiting, badges, reported, late, missed, taken>>

Disconnect(s) ==
    /\ socket[s] = "up"
    /\ socket' = [socket EXCEPT ![s] = "gone"]
    /\ Clear(s)
    /\ UNCHANGED <<waiting, reported, late>>

----------------------------------------------------------------------------
\* Time passes for every entry alike.
Tick ==
    /\ \E f \in Files : \E u \in On(presence, f) : Fresh(presence[f][u])
    /\ presence' = [f \in Files |-> [u \in Users |->
            IF presence[f][u] # None /\ Fresh(presence[f][u])
            THEN [presence[f][u] EXCEPT !.age = @ + 1]
            ELSE presence[f][u]]]
    /\ UNCHANGED <<lastFile, socket, waiting, badges, reported, late, missed, taken>>

\* sweepStalePresence, every PRESENCE_SWEEP_MS: all files in one go.
MutantSwept(P) == [f \in Files |-> {u \in Stale(P, f) : socket[P[f][u].socket] = "up"}]

Swept(P) == [f \in Files |-> Stale(P, f)]

Sweep ==
    /\ \E f \in Files : Swept(presence)[f] # {}
    /\ Update([f \in Files |-> Without(presence, f, Swept(presence)[f])[f]],
              UNION {Resolved(presence, f, Swept(presence)[f]) : f \in Files}, {},
              UNION {Unsaid(presence, f, Swept(presence)[f]) : f \in Files})
    /\ lastFile' = [s \in Sockets |->
            IF \E f \in Files : \E u \in Swept(presence)[f] : presence[f][u].socket = s
            THEN None ELSE lastFile[s]]
    /\ UNCHANGED <<socket, waiting, reported, late>>

----------------------------------------------------------------------------
Init ==
    /\ presence = [f \in Files |-> [u \in Users |-> None]]
    /\ lastFile = [s \in Sockets |-> None]
    /\ socket = [s \in Sockets |-> "up"]
    /\ waiting = [s \in Sockets |-> {}]
    /\ badges = {}
    /\ reported = 0
    /\ late = {} /\ missed = {} /\ taken = {}

Next ==
    \/ \E s \in Sockets :
        \/ StopWorking(s)
        \/ Disconnect(s)
        \/ \E m \in Report : ReportFile(s, m) \/ Denied(s, m) \/ Handle(s, m)
    \/ Tick
    \/ Sweep

Spec == Init /\ [][Next]_vars

\* Time goes on, and setInterval keeps sweeping.
FairSpec == Spec /\ WF_vars(Tick) /\ WF_vars(Sweep)

----------------------------------------------------------------------------
(* Properties.                                                             *)

\* Types, and with them that the two maps agree: every entry is where the last
\* file of its socket says, and bears the user of that socket.
TypeOK ==
    /\ presence \in [Files -> [Users -> Entry \cup {None}]]
    /\ lastFile \in [Sockets -> Files \cup {None}]
    /\ socket \in [Sockets -> {"up", "gone"}]
    /\ waiting \in [Sockets -> SUBSET Report]
    /\ badges \subseteq [file: Files, cards: SUBSET Cards]
    /\ reported \in Nat
    /\ late \subseteq Sockets
    /\ missed \subseteq badges
    /\ taken \subseteq [file: Files, cards: SUBSET Cards]
    /\ \A f \in Files : \A u \in On(presence, f) :
        LET s == presence[f][u].socket
        IN lastFile[s] = f /\ SocketUser[s] = u

\* A socket that is gone leaves no entry behind, unless a report of it was
\* still awaiting its access check.
NoGhosts ==
    \A f \in Files : \A u \in On(presence, f) :
        socket[presence[f][u].socket] = "gone" => presence[f][u].socket \in late

\* Two users at work on one file for two cards have a badge on the boards, unless
\* a third one there for one of the two cards took it along when leaving.
ConflictsShown ==
    \A f \in Files : \A u, v \in On(presence, f) :
        presence[f][u].card # presence[f][v].card =>
            Badge(f, presence[f][u].card, presence[f][v].card) \in badges \cup taken

\* A badge stands for a conflict in the map, unless the conflict ended between
\* two stale entries or under another socket of the same user.
BadgesBacked == badges \ missed \subseteq Conflicts(presence)

\* README.md: whoever walks away from an open editor does not stay in the map.
StaleEntriesGo ==
    \A f \in Files, u \in Users :
        presence[f][u] # None /\ ~Fresh(presence[f][u])
        ~> presence[f][u] = None \/ Fresh(presence[f][u])

\* README.md: the badge goes when one of the two moves on, closes the editor or
\* sends no signal for PRESENCE_TTL_MS.
BadgesAlwaysBacked == badges \subseteq Conflicts(presence)
=============================================================================
