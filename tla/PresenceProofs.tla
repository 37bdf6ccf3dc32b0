--------------------------- MODULE PresenceProofs ---------------------------
(***************************************************************************)
(* What the map of open files and the badges on the boards say of each      *)
(* other, for any number of files, users, sockets and cards, and whatever   *)
(* the TTL.                                                                 *)
(*                                                                          *)
(* The four invariants are inductive together.  All handlers are made of    *)
(* two pieces, a removal from the map and the writing of an entry; of each  *)
(* piece one lemma says which conflicts begin and which end, and another    *)
(* (UpdateShows) says that the boards follow.                               *)
(***************************************************************************)
EXTENDS Presence, TLAPS

Maps == [Files -> [Users -> Entry \cup {None}]]
Badges == [file: Files, cards: SUBSET Cards]

\* The map and the last files of the sockets agree.
Agree(P, L) ==
    \A f \in Files : \A u \in On(P, f) :
        L[P[f][u].socket] = f /\ SocketUser[P[f][u].socket] = u

\* Badge b is for the conflict of two users on a file.
Between(P, f, u, v, b) ==
    /\ u \in On(P, f) /\ v \in On(P, f) /\ P[f][u].card # P[f][v].card
    /\ b = Badge(f, P[f][u].card, P[f][v].card)

PresenceInv == TypeOK /\ NoGhosts /\ ConflictsShown /\ BadgesBacked

LEMMA EntryOf ==
    ASSUME NEW P \in Maps, NEW f \in Files, NEW u \in On(P, f)
    PROVE  /\ u \in Users /\ P[f][u] \in Entry
           /\ P[f][u].card \in Cards /\ P[f][u].socket \in Sockets /\ P[f][u].age \in 0 .. TTL
PROOF
  BY DEF Maps, On, Entry

LEMMA ConflictsAre ==
    ASSUME NEW P, NEW b
    PROVE  b \in Conflicts(P) <=> \E f \in Files : \E u, v \in Users : Between(P, f, u, v, b)
PROOF
  <1>1. ASSUME NEW f \in Files, NEW u \in Users, NEW v \in Users, Between(P, f, u, v, b)
        PROVE  b \in Conflicts(P)
    <2>1. <<u, v>> \in {p \in On(P, f) \X On(P, f) : P[f][p[1]].card # P[f][p[2]].card}
      BY <1>1 DEF Between
    <2>2. b = Badge(f, P[f][<<u, v>>[1]].card, P[f][<<u, v>>[2]].card)
      BY <1>1 DEF Between
    <2> QED BY <2>1, <2>2 DEF Conflicts
  <1>2. ASSUME b \in Conflicts(P)
        PROVE  \E f \in Files : \E u, v \in Users : Between(P, f, u, v, b)
    <2>1. PICK f \in Files :
            b \in {Badge(f, P[f][pair[1]].card, P[f][pair[2]].card) : pair \in
                    {p \in On(P, f) \X On(P, f) : P[f][p[1]].card # P[f][p[2]].card}}
      BY <1>2 DEF Conflicts
    <2>2. PICK p \in On(P, f) \X On(P, f) :
            /\ P[f][p[1]].card # P[f][p[2]].card
            /\ b = Badge(f, P[f][p[1]].card, P[f][p[2]].card)
      BY <2>1
    <2>3. Between(P, f, p[1], p[2], b) /\ p[1] \in Users /\ p[2] \in Users
      BY <2>2 DEF Between, On
    <2> QED BY <2>3
  <1> QED BY <1>1, <1>2

LEMMA BadgeSymmetric == ASSUME NEW f, NEW c, NEW d PROVE Badge(f, c, d) = Badge(f, d, c)
PROOF
  BY DEF Badge

LEMMA ResolvedAre ==
    ASSUME NEW P, NEW f, NEW U, NEW u \in U \cap On(P, f), NEW v \in On(P, f) \ U,
           P[f][u].card # P[f][v].card
    PROVE  Badge(f, P[f][u].card, P[f][v].card) \in Resolved(P, f, U) \cup Unsaid(P, f, U)
PROOF
  <1> DEFINE pair == <<u, v>>
  <1>1. pair[1] = u /\ pair[2] = v
    OBVIOUS
  <1>2. CASE Fresh(P[f][v])
    <2>1. pair \in {p \in (U \cap On(P, f)) \X (On(P, f) \ U) :
                     Fresh(P[f][p[2]]) /\ P[f][p[1]].card # P[f][p[2]].card}
      BY <1>1, <1>2
    <2> QED BY <1>1, <2>1 DEF Resolved
  <1>3. CASE ~Fresh(P[f][v])
    <2>1. pair \in {p \in (U \cap On(P, f)) \X Stale(P, f) : P[f][p[1]].card # P[f][p[2]].card}
      BY <1>1, <1>3 DEF Stale
    <2> QED BY <1>1, <2>1 DEF Unsaid
  <1> QED BY <1>2, <1>3

LEMMA UnsaidAre ==
    ASSUME NEW P, NEW f, NEW U, NEW u \in U \cap On(P, f), NEW v \in Stale(P, f),
           P[f][u].card # P[f][v].card
    PROVE  Badge(f, P[f][u].card, P[f][v].card) \in Unsaid(P, f, U)
PROOF
  <1> DEFINE pair == <<u, v>>
  <1>1. pair[1] = u /\ pair[2] = v
    OBVIOUS
  <1>2. pair \in {p \in (U \cap On(P, f)) \X Stale(P, f) : P[f][p[1]].card # P[f][p[2]].card}
    BY <1>1
  <1> QED BY <1>1, <1>2 DEF Unsaid

\* Conflicts are badges.
LEMMA ConflictsTyped == ASSUME NEW P \in Maps PROVE Conflicts(P) \subseteq Badges
PROOF
  <1> SUFFICES ASSUME NEW b \in Conflicts(P) PROVE b \in Badges
    OBVIOUS
  <1>1. PICK f \in Files, u \in Users, v \in Users : Between(P, f, u, v, b)
    BY ConflictsAre
  <1>2. P[f][u].card \in Cards /\ P[f][v].card \in Cards
    BY <1>1, EntryOf DEF Between
  <1> QED BY <1>1, <1>2 DEF Between, Badge, Badges

----------------------------------------------------------------------------
(* A removal.                                                               *)

LEMMA WithoutIs ==
    ASSUME NEW P \in Maps, NEW f, NEW U, f \in Files \/ U = {}
    PROVE  /\ Without(P, f, U) \in Maps
           /\ \A g \in Files, u \in Users :
                Without(P, f, U)[g][u] = IF g = f /\ u \in U THEN None ELSE P[g][u]
PROOF
  <1>1. [u \in Users |-> IF u \in U THEN None ELSE P[f][u]] \in [Users -> Entry \cup {None}]
        \/ f \notin Files
    BY DEF Maps
  <1> QED BY <1>1 DEF Without, Maps

\* Who stays on file f, where users U leave: what is gone of the conflicts there is
\* resolved or unsaid.  Of two that leave at once both are stale.
LEMMA OneFileLess ==
    ASSUME NEW P \in Maps, NEW Q \in Maps, NEW f \in Files, NEW U,
           \A u \in Users : Q[f][u] = IF u \in U THEN None ELSE P[f][u],
           U \subseteq Stale(P, f) \/ \E w : U \subseteq {w},
           NEW b, NEW u \in Users, NEW v \in Users, Between(P, f, u, v, b)
    PROVE  \/ Between(Q, f, u, v, b)
           \/ b \in Resolved(P, f, U) \cup Unsaid(P, f, U)
PROOF
  <1>1. /\ u \in On(P, f) /\ v \in On(P, f) /\ P[f][u].card # P[f][v].card
        /\ b = Badge(f, P[f][u].card, P[f][v].card)
        /\ b = Badge(f, P[f][v].card, P[f][u].card)
    BY BadgeSymmetric DEF Between
  <1>2. CASE u \notin U /\ v \notin U
    BY <1>1, <1>2 DEF Between, On
  <1>3. CASE u \in U /\ v \notin U
    <2>1. u \in U \cap On(P, f) /\ v \in On(P, f) \ U
      BY <1>1, <1>3
    <2>2. Badge(f, P[f][u].card, P[f][v].card) \in Resolved(P, f, U) \cup Unsaid(P, f, U)
      BY <1>1, <2>1, ResolvedAre
    <2> QED BY <1>1, <2>2
  <1>4. CASE u \notin U /\ v \in U
    BY <1>1, <1>4, ResolvedAre
  <1>5. CASE u \in U /\ v \in U
    <2>1. u # v
      BY <1>1
    <2>2. v \in Stale(P, f)
      BY <1>5, <2>1
    <2> QED BY <1>1, <1>5, <2>2, UnsaidAre
  <1> QED BY <1>2, <1>3, <1>4, <1>5

\* Nobody comes where somebody leaves.
LEMMA NoneComes ==
    ASSUME NEW P \in Maps, NEW Q \in Maps,
           \A g \in Files, u \in Users : Q[g][u] \in {P[g][u], None}
    PROVE  Conflicts(Q) \subseteq Conflicts(P)
PROOF
  <1> SUFFICES ASSUME NEW b \in Conflicts(Q) PROVE b \in Conflicts(P)
    OBVIOUS
  <1>1. PICK f \in Files, u \in Users, v \in Users : Between(Q, f, u, v, b)
    BY ConflictsAre
  <1>2. Q[f][u] = P[f][u] /\ Q[f][v] = P[f][v]
    BY <1>1 DEF Between, On
  <1>3. Between(P, f, u, v, b)
    BY <1>1, <1>2 DEF Between, On
  <1> QED BY <1>3, ConflictsAre

LEMMA WithoutConflicts ==
    ASSUME NEW P \in Maps, NEW f, NEW U, f \in Files \/ U = {},
           U \subseteq Stale(P, f) \/ \E w : U \subseteq {w}
    PROVE  /\ Conflicts(Without(P, f, U)) \subseteq Conflicts(P)
           /\ Conflicts(P) \subseteq
                Conflicts(Without(P, f, U)) \cup Resolved(P, f, U) \cup Unsaid(P, f, U)
PROOF
  <1>0. PICK Q : Q = Without(P, f, U)
    OBVIOUS
  <1>1. /\ Q \in Maps
        /\ \A g \in Files, u \in Users : Q[g][u] = IF g = f /\ u \in U THEN None ELSE P[g][u]
    BY <1>0, WithoutIs
  <1>2. Conflicts(Q) \subseteq Conflicts(P)
    BY <1>1, NoneComes
  <1>3. ASSUME NEW b \in Conflicts(P)
        PROVE  b \in Conflicts(Q) \cup Resolved(P, f, U) \cup Unsaid(P, f, U)
    <2>1. PICK g \in Files, u \in Users, v \in Users : Between(P, g, u, v, b)
      BY <1>3, ConflictsAre
    <2>2. CASE g = f
      BY <1>1, <2>1, <2>2, OneFileLess, ConflictsAre
    <2>3. CASE g # f
      <3>1. Between(Q, g, u, v, b)
        BY <1>1, <2>1, <2>3 DEF Between, On
      <3> QED BY <3>1, ConflictsAre
    <2> QED BY <2>2, <2>3
  <1> QED BY <1>0, <1>2, <1>3

\* Those who leave take the last file of their sockets along.
LEMMA ForgetAgrees ==
    ASSUME NEW P \in Maps, NEW L \in [Sockets -> Files \cup {None}], Agree(P, L),
           NEW f, NEW U, f \in Files \/ U = {}
    PROVE  /\ Forget(L, P, f, U) \in [Sockets -> Files \cup {None}]
           /\ Agree(Without(P, f, U), Forget(L, P, f, U))
           /\ \A s \in Sockets : Forget(L, P, f, U)[s] \in {L[s], None}
PROOF
  <1>0. PICK Q : Q = Without(P, f, U)
    OBVIOUS
  <1>1. /\ Q \in Maps
        /\ \A g \in Files, u \in Users : Q[g][u] = IF g = f /\ u \in U THEN None ELSE P[g][u]
    BY <1>0, WithoutIs
  <1>2. ASSUME NEW g \in Files, NEW u \in On(Q, g)
        PROVE  /\ Forget(L, P, f, U)[Q[g][u].socket] = g
               /\ SocketUser[Q[g][u].socket] = u
    <2>1. u \in Users /\ Q[g][u] = P[g][u] /\ u \in On(P, g) /\ ~(g = f /\ u \in U)
      BY <1>1, <1>2 DEF On
    <2>2. PICK s \in Sockets : s = P[g][u].socket
      BY <2>1, EntryOf
    <2>3. L[s] = g /\ SocketUser[s] = u
      BY <2>1, <2>2 DEF Agree
    <2>4. ASSUME NEW w \in U \cap On(P, f), P[f][w].socket = s PROVE FALSE
      <3>1. f \in Files
        BY <2>4
      <3>2. L[s] = f /\ SocketUser[s] = w
        BY <2>4, <3>1 DEF Agree
      <3> QED BY <2>1, <2>3, <2>4, <3>2
    <2> QED BY <2>1, <2>2, <2>3, <2>4 DEF Forget
  <1>3. Agree(Q, Forget(L, P, f, U))
    BY <1>2 DEF Agree
  <1> QED BY <1>0, <1>3 DEF Forget

----------------------------------------------------------------------------
(* What a handler tells the boards.                                         *)

\* The boards follow the map, when the handler adds what begins and drops, or leaves
\* unsaid, what ends.
LEMMA UpdateShows ==
    ASSUME TypeOK, Conflicts(presence) \subseteq badges \cup taken,
           badges \ missed \subseteq Conflicts(presence),
           NEW P \in Maps, NEW D, NEW A, NEW N, Update(P, D, A, N),
           A \subseteq Conflicts(P), Conflicts(P) \subseteq Conflicts(presence) \cup A,
           Conflicts(presence) \subseteq Conflicts(P) \cup D \cup N
    PROVE  /\ presence' = P
           /\ badges' \subseteq Badges /\ missed' \subseteq badges' /\ taken' \subseteq Badges
           /\ Conflicts(P) \subseteq badges' \cup taken'
           /\ badges' \ missed' \subseteq Conflicts(P)
PROOF
  <1>1. /\ presence' = P
        /\ badges' = (badges \ D) \cup A
        /\ missed' = (missed \cup N) \cap badges'
        /\ taken' = ((taken \cup D) \cap Conflicts(P)) \ badges'
    BY DEF Update
  <1>2. Conflicts(P) \subseteq Badges /\ badges \subseteq Badges
    BY ConflictsTyped DEF TypeOK, Badges
  <1> QED BY <1>1, <1>2

LEMMA ConflictsShownIs == ConflictsShown <=> Conflicts(presence) \subseteq badges \cup taken
PROOF
  <1>1. ASSUME ConflictsShown, NEW b \in Conflicts(presence) PROVE b \in badges \cup taken
    <2>1. PICK f \in Files, u \in Users, v \in Users : Between(presence, f, u, v, b)
      BY <1>1, ConflictsAre
    <2> QED BY <1>1, <2>1 DEF ConflictsShown, Between
  <1>2. ASSUME Conflicts(presence) \subseteq badges \cup taken PROVE ConflictsShown
    <2> SUFFICES ASSUME NEW f \in Files, NEW u \in On(presence, f), NEW v \in On(presence, f),
                        presence[f][u].card # presence[f][v].card
                 PROVE  Badge(f, presence[f][u].card, presence[f][v].card) \in badges \cup taken
      BY DEF ConflictsShown
    <2>1. Between(presence, f, u, v, Badge(f, presence[f][u].card, presence[f][v].card))
      BY DEF Between
    <2>2. u \in Users /\ v \in Users
      BY DEF On
    <2> QED BY <1>2, <2>1, <2>2, ConflictsAre
  <1> QED BY <1>1, <1>2


----------------------------------------------------------------------------
(* The steps.                                                               *)

\* What is cleared is of one user, on a file unless it is nothing.
LEMMA ClearedIs ==
    ASSUME TypeOK, NEW s \in Sockets
    PROVE  /\ FileOf(s) \in Files \/ Cleared(s) = {}
           /\ \E w : Cleared(s) \subseteq {w}
PROOF
  BY DEF TypeOK, FileOf, Cleared

LEMMA InvTypes ==
    ASSUME PresenceInv
    PROVE  /\ TypeOK /\ presence \in Maps
           /\ lastFile \in [Sockets -> Files \cup {None}]
           /\ Agree(presence, lastFile)
           /\ Conflicts(presence) \subseteq badges \cup taken
           /\ badges \ missed \subseteq Conflicts(presence)
PROOF
  BY ConflictsShownIs DEF PresenceInv, TypeOK, Maps, Agree, BadgesBacked

\* What is left to show of a step.
LEMMA InvNext ==
    ASSUME presence' \in Maps, lastFile' \in [Sockets -> Files \cup {None}],
           socket' \in [Sockets -> {"up", "gone"}], waiting' \in [Sockets -> SUBSET Report],
           reported' \in Nat, late' \subseteq Sockets,
           Agree(presence', lastFile'),
           badges' \subseteq Badges, missed' \subseteq badges', taken' \subseteq Badges,
           NoGhosts',
           Conflicts(presence') \subseteq badges' \cup taken',
           badges' \ missed' \subseteq Conflicts(presence')
    PROVE  PresenceInv'
PROOF
  <1>1. TypeOK'
    BY DEF TypeOK, Maps, Agree, Badges, On
  <1>2. Conflicts(presence)' = Conflicts(presence')
    BY DEF Conflicts, On
  <1>3. (ConflictsShown <=> Conflicts(presence) \subseteq badges \cup taken)'
    BY ConflictsShownIs, PTL
  <1> QED BY <1>1, <1>2, <1>3 DEF PresenceInv, BadgesBacked

\* Where nobody comes and no socket goes, nobody becomes a ghost.
LEMMA NoNewGhost ==
    ASSUME PresenceInv, presence' \in Maps, late \subseteq late',
           \A g \in Files, u \in Users : presence'[g][u] \in {presence[g][u], None},
           \A g \in Files : \A u \in On(presence', g) :
             socket'[presence[g][u].socket] = socket[presence[g][u].socket]
    PROVE  NoGhosts'
PROOF
  <1> SUFFICES ASSUME NEW f \in Files, NEW u \in On(presence', f),
                      socket'[presence'[f][u].socket] = "gone"
               PROVE  presence'[f][u].socket \in late'
    BY DEF NoGhosts, On
  <1>1. u \in Users /\ u \in On(presence, f) /\ presence'[f][u] = presence[f][u]
    BY DEF On
  <1> QED BY <1>1 DEF PresenceInv, NoGhosts

\* What clearPresence leaves of the two maps: nothing of the socket.
LEMMA ClearedAgrees ==
    ASSUME PresenceInv, NEW s \in Sockets,
           NEW P, P = Without(presence, FileOf(s), Cleared(s)),
           NEW L, L = Forget([lastFile EXCEPT ![s] = None], presence, FileOf(s), Cleared(s))
    PROVE  /\ P \in Maps /\ L \in [Sockets -> Files \cup {None}]
           /\ Agree(P, L) /\ L[s] = None
           /\ \A g \in Files, u \in Users : P[g][u] \in {presence[g][u], None}
           /\ \A g \in Files : \A u \in On(P, g) : presence[g][u].socket # s
           /\ Conflicts(P) \subseteq Conflicts(presence)
           /\ Conflicts(presence) \subseteq
                Conflicts(P) \cup Resolved(presence, FileOf(s), Cleared(s))
                             \cup Unsaid(presence, FileOf(s), Cleared(s))
PROOF
  <1>t. /\ TypeOK /\ presence \in Maps
        /\ lastFile \in [Sockets -> Files \cup {None}]
        /\ Agree(presence, lastFile)
    BY InvTypes
  <1>1. PICK f, U : f = FileOf(s) /\ U = Cleared(s)
    OBVIOUS
  <1>2. (f \in Files \/ U = {}) /\ \E w : U \subseteq {w}
    BY <1>1, <1>t, ClearedIs
  <1>3. P = Without(presence, f, U)
    BY <1>1
  <1>4. /\ P \in Maps
        /\ \A g \in Files, u \in Users : P[g][u] = IF g = f /\ u \in U THEN None ELSE presence[g][u]
    BY <1>t, <1>2, <1>3, WithoutIs
  <1>5. /\ Conflicts(P) \subseteq Conflicts(presence)
        /\ Conflicts(presence) \subseteq
             Conflicts(P) \cup Resolved(presence, f, U) \cup Unsaid(presence, f, U)
    BY <1>t, <1>2, <1>3, WithoutConflicts
  <1>8. \A g \in Files : \A u \in On(P, g) : presence[g][u].socket # s
    <2> SUFFICES ASSUME NEW g \in Files, NEW u \in On(P, g), presence[g][u].socket = s
                 PROVE  FALSE
      OBVIOUS
    <2>1. u \in Users /\ u \in On(presence, g) /\ ~(g = f /\ u \in U)
      BY <1>4 DEF On
    <2>2. lastFile[s] = g /\ SocketUser[s] = u
      BY <1>t, <2>1 DEF Agree
    <2>3. g # None
      BY PresenceAssumption DEF PresenceAssumption
    <2> QED BY <1>1, <2>1, <2>2, <2>3 DEF FileOf, Cleared
  <1>9. /\ L \in [Sockets -> Files \cup {None}] /\ L[s] = None
        /\ Agree(P, L)
    <2>2. PICK M : M = Forget(lastFile, presence, f, U)
      OBVIOUS
    <2>3. M \in [Sockets -> Files \cup {None}] /\ Agree(P, M)
      BY <1>t, <1>2, <1>3, <2>2, ForgetAgrees
    <2>4. L = [M EXCEPT ![s] = None]
      BY <1>t, <1>1, <2>2 DEF Forget
    <2>5. \A g \in Files : \A u \in On(P, g) : P[g][u] = presence[g][u]
      BY <1>4 DEF On
    <2>6. \A t \in Sockets : L[t] = IF t = s THEN None ELSE M[t]
      BY <2>3, <2>4
    <2>7. \A g \in Files : \A u \in On(P, g) : P[g][u].socket \in Sockets
      BY <1>4, EntryOf
    <2>8. Agree(P, L)
      <3> SUFFICES ASSUME NEW g \in Files, NEW u \in On(P, g)
                   PROVE  L[P[g][u].socket] = g /\ SocketUser[P[g][u].socket] = u
        BY DEF Agree
      <3>1. PICK t \in Sockets : t = P[g][u].socket /\ t # s
        BY <1>8, <2>5, <2>7
      <3>2. M[t] = g /\ SocketUser[t] = u
        BY <2>3, <3>1 DEF Agree
      <3> QED BY <2>6, <3>1, <3>2
    <2> QED BY <2>3, <2>4, <2>8
  <1> QED BY <1>1, <1>4, <1>5, <1>8, <1>9

LEMMA ClearKeeps ==
    ASSUME PresenceInv, NEW s \in Sockets, Clear(s)
    PROVE  /\ presence' \in Maps /\ lastFile' \in [Sockets -> Files \cup {None}]
           /\ Agree(presence', lastFile')
           /\ badges' \subseteq Badges /\ missed' \subseteq badges' /\ taken' \subseteq Badges
           /\ Conflicts(presence') \subseteq badges' \cup taken'
           /\ badges' \ missed' \subseteq Conflicts(presence')
           /\ \A g \in Files, u \in Users : presence'[g][u] \in {presence[g][u], None}
           /\ \A g \in Files : \A u \in On(presence', g) : presence[g][u].socket # s
PROOF
  <1>1. PICK D, N : /\ D = Resolved(presence, FileOf(s), Cleared(s))
                    /\ N = Unsaid(presence, FileOf(s), Cleared(s))
    OBVIOUS
  <1>2. PICK P : P = Without(presence, FileOf(s), Cleared(s))
    OBVIOUS
  <1>3. Update(P, D, {}, N)
    BY <1>1, <1>2 DEF Clear
  <1>4. PICK L : L = Forget([lastFile EXCEPT ![s] = None], presence, FileOf(s), Cleared(s))
    OBVIOUS
  <1>5. lastFile' = L
    BY <1>4 DEF Clear
  <1>6. /\ P \in Maps /\ L \in [Sockets -> Files \cup {None}]
        /\ Agree(P, L)
        /\ \A g \in Files, u \in Users : P[g][u] \in {presence[g][u], None}
        /\ \A g \in Files : \A u \in On(P, g) : presence[g][u].socket # s
        /\ Conflicts(P) \subseteq Conflicts(presence)
        /\ Conflicts(presence) \subseteq Conflicts(P) \cup D \cup N
    BY <1>1, <1>2, <1>4, ClearedAgrees
  <1>7. {} \subseteq Conflicts(P) /\ Conflicts(P) \subseteq Conflicts(presence) \cup {}
    BY <1>6
  <1>8. /\ presence' = P
        /\ badges' \subseteq Badges /\ missed' \subseteq badges' /\ taken' \subseteq Badges
        /\ Conflicts(P) \subseteq badges' \cup taken'
        /\ badges' \ missed' \subseteq Conflicts(P)
    BY <1>3, <1>6, <1>7, UpdateShows, InvTypes
  <1> QED BY <1>5, <1>6, <1>8

LEMMA StopKeeps == ASSUME PresenceInv, NEW s \in Sockets, StopWorking(s) PROVE PresenceInv'
PROOF
  <1>1. Clear(s) /\ UNCHANGED <<socket, waiting, reported, late>>
    BY DEF StopWorking
  <1>2. /\ presence' \in Maps /\ lastFile' \in [Sockets -> Files \cup {None}]
        /\ Agree(presence', lastFile')
        /\ badges' \subseteq Badges /\ missed' \subseteq badges' /\ taken' \subseteq Badges
        /\ Conflicts(presence') \subseteq badges' \cup taken'
        /\ badges' \ missed' \subseteq Conflicts(presence')
        /\ \A g \in Files, u \in Users : presence'[g][u] \in {presence[g][u], None}
    BY <1>1, ClearKeeps
  <1>3. NoGhosts'
    BY <1>1, <1>2, NoNewGhost
  <1> QED BY <1>1, <1>2, <1>3, InvTypes, InvNext DEF TypeOK

LEMMA DisconnectKeeps == ASSUME PresenceInv, NEW s \in Sockets, Disconnect(s) PROVE PresenceInv'
PROOF
  <1>1. Clear(s) /\ socket' = [socket EXCEPT ![s] = "gone"] /\ UNCHANGED <<waiting, reported, late>>
    BY DEF Disconnect
  <1>2. /\ presence' \in Maps /\ lastFile' \in [Sockets -> Files \cup {None}]
        /\ Agree(presence', lastFile')
        /\ badges' \subseteq Badges /\ missed' \subseteq badges' /\ taken' \subseteq Badges
        /\ Conflicts(presence') \subseteq badges' \cup taken'
        /\ badges' \ missed' \subseteq Conflicts(presence')
        /\ \A g \in Files, u \in Users : presence'[g][u] \in {presence[g][u], None}
        /\ \A g \in Files : \A u \in On(presence', g) : presence[g][u].socket # s
    BY <1>1, ClearKeeps
  <1>3. \A t \in Sockets : t # s => socket'[t] = socket[t]
    BY <1>1, InvTypes DEF TypeOK
  <1>4. \A g \in Files : \A u \in On(presence', g) : presence[g][u].socket \in Sockets
    <2> SUFFICES ASSUME NEW g \in Files, NEW u \in On(presence', g)
                 PROVE  presence[g][u].socket \in Sockets
      OBVIOUS
    <2>1. u \in On(presence, g)
      BY <1>2 DEF On
    <2> QED BY <2>1, InvTypes, EntryOf
  <1>5. NoGhosts'
    BY <1>1, <1>2, <1>3, <1>4, NoNewGhost
  <1> QED BY <1>1, <1>2, <1>5, InvTypes, InvNext DEF TypeOK

LEMMA ReportKeeps ==
    ASSUME PresenceInv, NEW s \in Sockets, NEW m \in Report, ReportFile(s, m) \/ Denied(s, m)
    PROVE  PresenceInv'
PROOF
  <1>1. /\ UNCHANGED <<presence, lastFile, socket, badges, late, missed, taken>>
        /\ waiting' \in [Sockets -> SUBSET Report] /\ reported' \in Nat
    BY InvTypes DEF ReportFile, Denied, TypeOK
  <1>2. NoGhosts'
    BY <1>1 DEF PresenceInv, NoGhosts, On
  <1> QED BY <1>1, <1>2, InvTypes, InvNext DEF TypeOK, Badges

\* An entry is written: its conflicts begin, and those of the one it replaces end.
LEMMA EntryConflicts ==
    ASSUME NEW P \in Maps, NEW f \in Files, NEW u \in Users, NEW e \in Entry,
           NEW R \in Maps,
           \A g \in Files, w \in Users : R[g][w] = IF g = f /\ w = u THEN e ELSE P[g][w]
    PROVE  /\ Detected(P, f, u, e.card) \subseteq Conflicts(R)
           /\ Conflicts(R) \subseteq Conflicts(P) \cup Detected(P, f, u, e.card)
           /\ Conflicts(P) \subseteq Conflicts(R) \cup Replaced(P, f, u, e.card)
PROOF
  <1>0. e # None
    BY PresenceAssumption DEF PresenceAssumption, Entry
  <1>1. \A g \in Files, w \in Users : R[g][w] = IF g = f /\ w = u THEN e ELSE P[g][w]
    OBVIOUS
  <1>2. \A g \in Files, w \in Users : w \in On(R, g) <=> w \in On(P, g) \/ (g = f /\ w = u)
    BY <1>0, <1>1 DEF On
  <1>3. ASSUME NEW b \in Detected(P, f, u, e.card) PROVE b \in Conflicts(R)
    <2>1. PICK v \in On(P, f) \ {u} : P[f][v].card # e.card /\ b = Badge(f, e.card, P[f][v].card)
      BY <1>3 DEF Detected
    <2>2. v \in Users /\ Between(R, f, u, v, b)
      BY <1>1, <1>2, <2>1 DEF Between, On
    <2> QED BY <2>2, ConflictsAre
  <1>4. ASSUME NEW b \in Conflicts(R) PROVE b \in Conflicts(P) \cup Detected(P, f, u, e.card)
    <2>1. PICK g \in Files, v \in Users, w \in Users : Between(R, g, v, w, b)
      BY <1>4, ConflictsAre
    <2>2. /\ v \in On(R, g) /\ w \in On(R, g) /\ R[g][v].card # R[g][w].card
          /\ b = Badge(g, R[g][v].card, R[g][w].card) /\ b = Badge(g, R[g][w].card, R[g][v].card)
      BY <2>1, BadgeSymmetric DEF Between
    <2>3. CASE g = f /\ (v = u \/ w = u)
      <3>1. PICK x \in Users : /\ x # u /\ x \in On(R, f) /\ R[f][x].card # e.card
                               /\ b = Badge(f, e.card, R[f][x].card)
        BY <1>1, <2>1, <2>2, <2>3
      <3>2. x \in On(P, f) \ {u} /\ R[f][x] = P[f][x]
        BY <1>1, <1>2, <3>1
      <3> QED BY <3>1, <3>2 DEF Detected
    <2>5. CASE ~(g = f /\ v = u) /\ ~(g = f /\ w = u)
      <3>1. /\ R[g][v] = P[g][v] /\ R[g][w] = P[g][w]
            /\ v \in On(P, g) /\ w \in On(P, g)
        BY <1>1, <1>2, <2>2, <2>5
      <3>2. Between(P, g, v, w, b)
        BY <2>2, <3>1 DEF Between
      <3> QED BY <3>2, ConflictsAre
    <2> QED BY <2>3, <2>5
  <1>5. ASSUME NEW b \in Conflicts(P) PROVE b \in Conflicts(R) \cup Replaced(P, f, u, e.card)
    <2>1. PICK g \in Files, v \in Users, w \in Users : Between(P, g, v, w, b)
      BY <1>5, ConflictsAre
    <2>2. /\ v \in On(P, g) /\ w \in On(P, g) /\ P[g][v].card # P[g][w].card
          /\ b = Badge(g, P[g][v].card, P[g][w].card) /\ b = Badge(g, P[g][w].card, P[g][v].card)
      BY <2>1, BadgeSymmetric DEF Between
    <2>3. CASE (g = f /\ (v = u \/ w = u)) => P[f][u].card = e.card
      <3>1. R[g][v].card = P[g][v].card /\ R[g][w].card = P[g][w].card
        BY <1>1, <2>3
      <3>2. Between(R, g, v, w, b)
        BY <1>2, <2>2, <3>1 DEF Between
      <3> QED BY <3>2, ConflictsAre
    <2>4. CASE g = f /\ (v = u \/ w = u) /\ P[f][u].card # e.card
      <3>1. PICK x : x \in On(P, f) \ {u} /\ P[f][x].card # P[f][u].card
                     /\ b = Badge(f, P[f][u].card, P[f][x].card)
        BY <2>2, <2>4
      <3>2. P[f][u] # None
        BY <2>2, <2>4 DEF On
      <3> QED BY <2>4, <3>1, <3>2 DEF Replaced
    <2> QED BY <2>3, <2>4
  <1> QED BY <1>3, <1>4, <1>5

LEMMA HandleKeeps ==
    ASSUME PresenceInv, NEW s \in Sockets, NEW m \in Report, Handle(s, m)
    PROVE  PresenceInv'
PROOF
  <1>t. /\ TypeOK /\ presence \in Maps
        /\ Conflicts(presence) \subseteq badges \cup taken
        /\ badges \ missed \subseteq Conflicts(presence)
        /\ SocketUser \in [Sockets -> Users]
        /\ TTL \in Nat
    BY InvTypes, PresenceAssumption DEF PresenceAssumption
  <1>1. PICK f, u : f = m.file /\ u = SocketUser[s]
    OBVIOUS
  <1>2. f \in Files /\ u \in Users /\ m.card \in Cards /\ f # None
    BY <1>1, <1>t, PresenceAssumption DEF Report, PresenceAssumption
  <1>3. PICK e : e = [card |-> m.card, socket |-> s, age |-> 0]
    OBVIOUS
  <1>4. e \in Entry /\ e.card = m.card /\ e.socket = s
    BY <1>2, <1>3, <1>t DEF Entry
  <1>5. PICK P : P = Without(presence, FileOf(s), Cleared(s))
    OBVIOUS
  <1>6. PICK L : L = Forget([lastFile EXCEPT ![s] = None], presence, FileOf(s), Cleared(s))
    OBVIOUS
  <1>7. PICK D, N : /\ D = Resolved(presence, FileOf(s), Cleared(s))
                    /\ N = Unsaid(presence, FileOf(s), Cleared(s))
    OBVIOUS
  <1>8. /\ P \in Maps /\ L \in [Sockets -> Files \cup {None}]
        /\ Agree(P, L) /\ L[s] = None
        /\ \A g \in Files, w \in Users : P[g][w] \in {presence[g][w], None}
        /\ Conflicts(P) \subseteq Conflicts(presence)
        /\ Conflicts(presence) \subseteq Conflicts(P) \cup D \cup N
    BY <1>5, <1>6, <1>7, ClearedAgrees
  <1>9. PICK U : U = Stale(P, f)
    OBVIOUS
  <1>10. PICK Q : Q = Without(P, f, U)
    OBVIOUS
  <1>11. PICK M : M = Forget(L, P, f, U)
    OBVIOUS
  <1>12. /\ Q \in Maps /\ M \in [Sockets -> Files \cup {None}]
         /\ Agree(Q, M)
         /\ \A g \in Files, w \in Users : Q[g][w] \in {P[g][w], None}
         /\ M[s] \in {L[s], None}
    BY <1>2, <1>8, <1>10, <1>11, WithoutIs, ForgetAgrees
  <1>13. /\ Conflicts(Q) \subseteq Conflicts(P)
         /\ Conflicts(P) \subseteq Conflicts(Q) \cup Resolved(P, f, U) \cup Unsaid(P, f, U)
    <2>1. U \subseteq Stale(P, f)
      BY <1>9
    <2> QED BY <2>1, <1>2, <1>8, <1>10, WithoutConflicts
  <1>14. PICK R : R = [Q EXCEPT ![f][u] = e]
    OBVIOUS
  <1>15. /\ R \in Maps
         /\ \A g \in Files, w \in Users : R[g][w] = IF g = f /\ w = u THEN e ELSE Q[g][w]
         /\ Detected(Q, f, u, e.card) \subseteq Conflicts(R)
         /\ Conflicts(R) \subseteq Conflicts(Q) \cup Detected(Q, f, u, e.card)
         /\ Conflicts(Q) \subseteq Conflicts(R) \cup Replaced(Q, f, u, e.card)
    <2>1. f \in Files /\ u \in Users /\ e \in Entry /\ Q \in Maps
      BY <1>2, <1>4, <1>12
    <2>2. /\ R \in Maps
          /\ \A g \in Files, w \in Users : R[g][w] = IF g = f /\ w = u THEN e ELSE Q[g][w]
      BY <2>1, <1>14 DEF Maps
    <2> QED BY <2>1, <2>2, EntryConflicts
  <1>16. /\ Update(R, D \cup Resolved(P, f, U), Detected(Q, f, u, e.card),
                   N \cup Unsaid(P, f, U) \cup Replaced(Q, f, u, e.card))
         /\ lastFile' = [M EXCEPT ![s] = f]
         /\ waiting' = [waiting EXCEPT ![s] = @ \ {m}]
         /\ late' = IF socket[s] = "gone" THEN late \cup {s} ELSE late
         /\ UNCHANGED <<socket, reported>>
    BY <1>1, <1>3, <1>4, <1>5, <1>6, <1>7, <1>9, <1>10, <1>11, <1>14 DEF Handle
  <1>17. /\ presence' = R
         /\ badges' \subseteq Badges /\ missed' \subseteq badges' /\ taken' \subseteq Badges
         /\ Conflicts(R) \subseteq badges' \cup taken'
         /\ badges' \ missed' \subseteq Conflicts(R)
    <2>1. Conflicts(R) \subseteq Conflicts(presence) \cup Detected(Q, f, u, e.card)
      BY <1>8, <1>13, <1>15
    <2>2. Conflicts(presence) \subseteq
            Conflicts(R) \cup (D \cup Resolved(P, f, U))
                         \cup (N \cup Unsaid(P, f, U) \cup Replaced(Q, f, u, e.card))
      BY <1>8, <1>13, <1>15
    <2> QED BY <1>t, <1>15, <1>16, <2>1, <2>2, UpdateShows
  <1>18. \A g \in Files : \A w \in On(R, g) :
            \/ g = f /\ w = u /\ R[g][w] = e
            \/ /\ w \in On(Q, g) /\ R[g][w] = Q[g][w]
               /\ w \in On(presence, g) /\ R[g][w] = presence[g][w]
               /\ Q[g][w].socket # s
    <2> SUFFICES ASSUME NEW g \in Files, NEW w \in On(R, g), ~(g = f /\ w = u)
                 PROVE  /\ w \in On(Q, g) /\ R[g][w] = Q[g][w]
                        /\ w \in On(presence, g) /\ R[g][w] = presence[g][w]
                        /\ Q[g][w].socket # s
      BY <1>15 DEF On
    <2>1. w \in On(Q, g) /\ R[g][w] = Q[g][w] /\ w \in On(presence, g) /\ R[g][w] = presence[g][w]
      BY <1>8, <1>12, <1>15 DEF On
    <2>2. M[Q[g][w].socket] = g
      BY <1>12, <2>1 DEF Agree
    <2>3. g # None /\ M[s] = None
      BY <1>8, <1>12, PresenceAssumption DEF PresenceAssumption
    <2> QED BY <2>1, <2>2, <2>3
  <1>19. lastFile' \in [Sockets -> Files \cup {None}] /\ Agree(R, lastFile')
    <2>1. \A t \in Sockets : lastFile'[t] = IF t = s THEN f ELSE M[t]
      BY <1>12, <1>16
    <2>2. \A g \in Files : \A w \in On(R, g) : R[g][w].socket \in Sockets
      BY <1>15, EntryOf
    <2> QED BY <1>1, <1>2, <1>4, <1>12, <1>16, <1>18, <2>1, <2>2 DEF Agree
  <1>20. NoGhosts'
    <2> SUFFICES ASSUME NEW g \in Files, NEW w \in On(R, g), socket[R[g][w].socket] = "gone"
                 PROVE  R[g][w].socket \in late'
      BY <1>16, <1>17 DEF NoGhosts, On
    <2>1. CASE g = f /\ w = u /\ R[g][w] = e
      BY <1>4, <1>16, <2>1
    <2>2. CASE w \in On(presence, g) /\ R[g][w] = presence[g][w]
      BY <1>16, <2>2 DEF PresenceInv, NoGhosts
    <2> QED BY <1>18, <2>1, <2>2
  <1>21. waiting' \in [Sockets -> SUBSET Report] /\ late' \subseteq Sockets
    BY <1>t, <1>16 DEF TypeOK
  <1> QED BY <1>t, <1>15, <1>16, <1>17, <1>19, <1>20, <1>21, InvNext DEF TypeOK

\* The entries age; who is there, and for which card, stays.
LEMMA TickKeeps == ASSUME PresenceInv, Tick PROVE PresenceInv'
PROOF
  <1>t. /\ TypeOK /\ presence \in Maps /\ Agree(presence, lastFile)
        /\ Conflicts(presence) \subseteq badges \cup taken
        /\ badges \ missed \subseteq Conflicts(presence)
    BY InvTypes
  <1>1. /\ presence' = [f \in Files |-> [u \in Users |->
             IF presence[f][u] # None /\ Fresh(presence[f][u])
             THEN [presence[f][u] EXCEPT !.age = @ + 1]
             ELSE presence[f][u]]]
        /\ UNCHANGED <<lastFile, socket, waiting, badges, reported, late, missed, taken>>
    BY DEF Tick
  <1>2. PICK P : P = presence'
    OBVIOUS
  <1>3. ASSUME NEW e \in Entry, Fresh(e)
        PROVE  /\ [e EXCEPT !.age = @ + 1] \in Entry
               /\ [e EXCEPT !.age = @ + 1].card = e.card
               /\ [e EXCEPT !.age = @ + 1].socket = e.socket
    BY <1>3, PresenceAssumption DEF PresenceAssumption, Entry, Fresh
  <1>4. None \notin Entry
    BY PresenceAssumption DEF PresenceAssumption, Entry
  <1>5. ASSUME NEW f \in Files, NEW u \in Users
        PROVE  /\ P[f][u] \in Entry \cup {None}
               /\ P[f][u] = None <=> presence[f][u] = None
               /\ P[f][u] # None => /\ P[f][u].card = presence[f][u].card
                                    /\ P[f][u].socket = presence[f][u].socket
    <2>1. presence[f][u] \in Entry \cup {None}
      BY <1>t DEF Maps
    <2>2. PICK e : e = presence[f][u]
      OBVIOUS
    <2>3. P[f][u] = IF e # None /\ Fresh(e) THEN [e EXCEPT !.age = @ + 1] ELSE e
      BY <1>1, <1>2, <2>2
    <2> QED BY <1>3, <1>4, <2>1, <2>2, <2>3
  <1>6. P \in Maps
    BY <1>1, <1>2, <1>5 DEF Maps
  <1>7. \A f \in Files : On(P, f) = On(presence, f)
    BY <1>5 DEF On
  <1>8. \A f \in Files, u, v \in Users : \A b : Between(P, f, u, v, b) <=> Between(presence, f, u, v, b)
    BY <1>5, <1>7 DEF Between, On
  <1>9. Conflicts(P) = Conflicts(presence)
    BY <1>8, ConflictsAre
  <1>10. Agree(P, lastFile)
    BY <1>t, <1>5, <1>7 DEF Agree, On
  <1>11. NoGhosts'
    BY <1>1, <1>2, <1>5, <1>7 DEF PresenceInv, NoGhosts, On
  <1> QED BY <1>t, <1>1, <1>2, <1>6, <1>9, <1>10, <1>11, InvNext DEF TypeOK, Badges

\* The sweep removes the stale entries of all files at once.
LEMMA SweepKeeps == ASSUME PresenceInv, Sweep PROVE PresenceInv'
PROOF
  <1>t. /\ TypeOK /\ presence \in Maps /\ lastFile \in [Sockets -> Files \cup {None}]
        /\ Agree(presence, lastFile)
        /\ Conflicts(presence) \subseteq badges \cup taken
        /\ badges \ missed \subseteq Conflicts(presence)
    BY InvTypes
  <1>1. PICK P : P = [f \in Files |-> Without(presence, f, Swept(presence)[f])[f]]
    OBVIOUS
  <1>2. PICK D : D = UNION {Resolved(presence, f, Swept(presence)[f]) : f \in Files}
    OBVIOUS
  <1>3. PICK N : N = UNION {Unsaid(presence, f, Swept(presence)[f]) : f \in Files}
    OBVIOUS
  <1>4. Update(P, D, {}, N) /\ UNCHANGED <<socket, waiting, reported, late>>
    BY <1>1, <1>2, <1>3 DEF Sweep
  <1>5. lastFile' = [s \in Sockets |->
            IF \E f \in Files : \E u \in Swept(presence)[f] : presence[f][u].socket = s
            THEN None ELSE lastFile[s]]
    BY DEF Sweep
  <1>6. \A f \in Files : Swept(presence)[f] = Stale(presence, f)
    BY DEF Swept
  <1>7. ASSUME NEW f \in Files
        PROVE  /\ P[f] \in [Users -> Entry \cup {None}]
               /\ \A u \in Users : P[f][u] = IF u \in Stale(presence, f) THEN None ELSE presence[f][u]
    <2>1. PICK Q : Q = Without(presence, f, Stale(presence, f))
      OBVIOUS
    <2>2. Q \in Maps /\ \A u \in Users : Q[f][u] = IF u \in Stale(presence, f) THEN None ELSE presence[f][u]
      BY <1>t, <2>1, WithoutIs
    <2>3. P[f] = Q[f]
      BY <1>1, <1>6, <2>1
    <2> QED BY <2>2, <2>3 DEF Maps
  <1>8. P \in Maps
    BY <1>1, <1>7 DEF Maps
  <1>9. \A g \in Files, u \in Users : P[g][u] \in {presence[g][u], None}
    BY <1>7
  <1>10. Conflicts(P) \subseteq Conflicts(presence)
    BY <1>t, <1>8, <1>9, NoneComes
  <1>11. Conflicts(presence) \subseteq Conflicts(P) \cup D \cup N
    <2> SUFFICES ASSUME NEW b \in Conflicts(presence) PROVE b \in Conflicts(P) \cup D \cup N
      OBVIOUS
    <2>1. PICK f \in Files, u \in Users, v \in Users : Between(presence, f, u, v, b)
      BY ConflictsAre
    <2>2. PICK U : U = Stale(presence, f)
      OBVIOUS
    <2>3. \A w \in Users : P[f][w] = IF w \in U THEN None ELSE presence[f][w]
      BY <1>7, <2>2
    <2>4. U \subseteq Stale(presence, f)
      BY <2>2
    <2>5. \/ Between(P, f, u, v, b)
          \/ b \in Resolved(presence, f, U) \cup Unsaid(presence, f, U)
      BY <1>t, <1>8, <2>1, <2>3, <2>4, OneFileLess
    <2>6. CASE Between(P, f, u, v, b)
      BY <2>6, ConflictsAre
    <2>7. CASE b \in Resolved(presence, f, U)
      BY <1>2, <1>6, <2>2, <2>7
    <2>8. CASE b \in Unsaid(presence, f, U)
      BY <1>3, <1>6, <2>2, <2>8
    <2> QED BY <2>5, <2>6, <2>7, <2>8
  <1>12. /\ presence' = P
         /\ badges' \subseteq Badges /\ missed' \subseteq badges' /\ taken' \subseteq Badges
         /\ Conflicts(P) \subseteq badges' \cup taken'
         /\ badges' \ missed' \subseteq Conflicts(P)
    <2>1. {} \subseteq Conflicts(P) /\ Conflicts(P) \subseteq Conflicts(presence) \cup {}
      BY <1>10
    <2> QED BY <1>t, <1>4, <1>8, <1>11, <2>1, UpdateShows
  <1>13. lastFile' \in [Sockets -> Files \cup {None}]
    BY <1>t, <1>5
  <1>14. Agree(P, lastFile')
    <2> SUFFICES ASSUME NEW g \in Files, NEW u \in On(P, g)
                 PROVE  lastFile'[P[g][u].socket] = g /\ SocketUser[P[g][u].socket] = u
      BY DEF Agree
    <2>1. u \in Users /\ P[g][u] = presence[g][u] /\ u \in On(presence, g) /\ u \notin Stale(presence, g)
      BY <1>7 DEF On
    <2>2. PICK s \in Sockets : s = presence[g][u].socket
      BY <1>t, <2>1, EntryOf
    <2>3. lastFile[s] = g /\ SocketUser[s] = u
      BY <1>t, <2>1, <2>2 DEF Agree
    <2>4. ASSUME NEW f \in Files, NEW w \in Swept(presence)[f], presence[f][w].socket = s
          PROVE  FALSE
      <3>1. w \in Stale(presence, f) /\ w \in On(presence, f)
        BY <1>6 DEF Stale
      <3>2. lastFile[s] = f /\ SocketUser[s] = w
        BY <1>t, <2>4, <3>1 DEF Agree
      <3> QED BY <2>1, <2>3, <3>1, <3>2
    <2> QED BY <1>5, <2>1, <2>2, <2>3, <2>4
  <1>15. NoGhosts'
    BY <1>4, <1>8, <1>9, <1>12, NoNewGhost
  <1> QED BY <1>t, <1>4, <1>8, <1>12, <1>13, <1>14, <1>15, InvNext DEF TypeOK

LEMMA PresenceInvariance == Spec => []PresenceInv
PROOF
  <1>1. Init => PresenceInv
    <2> SUFFICES ASSUME Init PROVE PresenceInv
      OBVIOUS
    <2>1. \A f \in Files : On(presence, f) = {}
      BY DEF Init, On
    <2>2. Conflicts(presence) = {}
      BY <2>1, ConflictsAre DEF Between
    <2>3. TypeOK
      BY <2>1 DEF Init, TypeOK
    <2> QED BY <2>1, <2>2, <2>3 DEF Init, PresenceInv, NoGhosts, ConflictsShown, BadgesBacked
  <1>2. PresenceInv /\ [Next]_vars => PresenceInv'
    <2> SUFFICES ASSUME PresenceInv, [Next]_vars PROVE PresenceInv'
      OBVIOUS
    <2>1. CASE UNCHANGED vars
      BY <2>1 DEF vars, PresenceInv, TypeOK, NoGhosts, ConflictsShown, BadgesBacked, On, Conflicts
    <2> QED BY <2>1, StopKeeps, DisconnectKeeps, ReportKeeps, HandleKeeps, TickKeeps, SweepKeeps DEF Next
  <1> QED BY <1>1, <1>2, PTL DEF Spec

\* The two maps of the process agree: an entry is where the last file of its socket
\* says, and bears the user of that socket (presenceByFile, lastFileBySocket).
THEOREM TypesCorrect == Spec => []TypeOK
PROOF
  BY PresenceInvariance, PTL DEF PresenceInv

\* A socket that is gone leaves no entry behind, unless a report of it was still
\* awaiting its access check when it went (disconnect, presence:file).
THEOREM NoGhostsCorrect == Spec => []NoGhosts
PROOF
  BY PresenceInvariance, PTL DEF PresenceInv

\* Two users at work on one file for two cards have a badge on the boards, unless a
\* third one took it along when leaving (conflict:detected, conflict:resolved).
THEOREM ConflictsShownCorrect == Spec => []ConflictsShown
PROOF
  BY PresenceInvariance, PTL DEF PresenceInv

\* A badge stands for a conflict in the map, unless the conflict ended between two
\* stale entries or under another socket of the same user.
THEOREM BadgesBackedCorrect == Spec => []BadgesBacked
PROOF
  BY PresenceInvariance, PTL DEF PresenceInv
=============================================================================
