---------------------------- MODULE DigestProofs ----------------------------
(***************************************************************************)
(* One digest a day, for any number of users and of runs that overlap, days *)
(* of any length and any time.                                              *)
(***************************************************************************)
EXTENDS Digest, TLAPS

\* A run that began before time t, and read marks that were there by then.
FitsAt(run, t) ==
    /\ run.phase # "idle" => run.now < t
    /\ \A u \in Users : run.read[u] < t \/ run.read[u] = 0
    /\ run.phase \in {"claimed", "failed"} => run.user \in Users
    /\ run.phase \notin {"claimed", "failed"} => run.user = None

Past == \A r \in Runs : FitsAt(runs[r], time)

\* The day of user u has been dealt with by some run.
Settled(u, D) == <<u, D>> \in settled

\* While a run holds a user: the mark has not fallen behind the run, nobody else has
\* settled its day, and what was settled before is no later than the mark it replaced.
HolderFits(r, u) ==
    /\ runs[r].now <= mark[u]
    /\ runs[r].found < DayStart(runs[r].now)
    /\ ~Settled(u, Day(runs[r].now))
    /\ \A D \in Days : Settled(u, D) => D <= Day(runs[r].found) \/ Day(runs[r].now) <= D

\* Of two runs that hold a user, one claimed it from the mark of the other or later.
HoldersApart(q, r, u) ==
    \/ runs[q].now <= runs[r].found
    \/ runs[r].now <= runs[q].found

Holding ==
    \A u \in Users \ stale :
        /\ \A D \in Days : Settled(u, D) => D <= Day(mark[u])
        /\ \A r \in Runs : Claimed(r, u) => HolderFits(r, u)
        /\ \A q, r \in Runs : q # r /\ Claimed(q, u) /\ Claimed(r, u) => HoldersApart(q, r, u)

\* What MarkedIsServed says of one user.
ServedOrHeld(u) ==
    Served(u, mark[u]) \/ \E r \in Runs : Claimed(r, u) /\ runs[r].now = mark[u]

\* What went out was settled, or the run that sent it believes it failed.
Sent == \A d \in Users \X Days : mails[d] > 0 => d \in settled \cup doubtful

DigestInv == DigestTypeOK /\ Past /\ Holding /\ Sent /\ OncePerDay /\ MarkedIsServed

----------------------------------------------------------------------------
(* Days.                                                                    *)

LEMMA DivIs ==
    ASSUME NEW n \in Nat \ {0}, NEW t \in Nat
    PROVE  t \div n \in Nat /\ (t \div n) * n <= t /\ t < (t \div n) * n + n
PROOF
  BY Z3

LEMMA TimesLess ==
    ASSUME NEW n \in Nat \ {0}, NEW a \in Nat, NEW b \in Nat, a * n < b * n
    PROVE  a < b
PROOF
  <1> SUFFICES ASSUME b <= a PROVE FALSE
    OBVIOUS
  <1>1. b * n <= a * n
    BY Z3
  <1> QED BY <1>1, Z3

\* A day begins before its times, and after the times of earlier days; the days of
\* later times are not earlier.
LEMMA DayIs ==
    ASSUME NEW t \in Nat
    PROVE  Day(t) \in Nat /\ DayStart(t) \in Nat /\ DayStart(t) <= t
PROOF
  BY DigestAssumption, DivIs DEF Day, DayStart

LEMMA DayBefore ==
    ASSUME NEW s \in Nat, NEW t \in Nat, s < DayStart(t)
    PROVE  Day(s) < Day(t)
PROOF
  <1>1. DayLength \in Nat \ {0}
    BY DigestAssumption
  <1>2. Day(s) \in Nat /\ Day(t) \in Nat /\ Day(s) * DayLength <= s
    BY <1>1, DivIs DEF Day
  <1>3. Day(s) * DayLength < Day(t) * DayLength
    BY <1>1, <1>2, Z3 DEF DayStart
  <1> QED BY <1>1, <1>2, <1>3, TimesLess

LEMMA DayMonotonic ==
    ASSUME NEW s \in Nat, NEW t \in Nat, s <= t
    PROVE  Day(s) <= Day(t)
PROOF
  <1>1. DayLength \in Nat \ {0}
    BY DigestAssumption
  <1>2. /\ Day(s) \in Nat /\ Day(t) \in Nat
        /\ Day(s) * DayLength <= s /\ t < Day(t) * DayLength + DayLength
    BY <1>1, DivIs DEF Day
  <1>3. Day(s) * DayLength < (Day(t) + 1) * DayLength
    BY <1>1, <1>2, Z3
  <1>4. Day(s) < Day(t) + 1
    BY <1>1, <1>2, <1>3, TimesLess
  <1> QED BY <1>2, <1>4

LEMMA DayListed == ASSUME NEW t \in Times PROVE Day(t) \in Days
PROOF
  BY DEF Days

----------------------------------------------------------------------------
LEMMA DigestStarts == DigestInit => DigestInv
PROOF
  <1> SUFFICES ASSUME DigestInit PROVE DigestInv
    OBVIOUS
  <1>1. DayLength \in Times /\ 0 \in Times
    BY DigestAssumption DEF Times
  <1>2. \A r \in Runs : runs[r] = NoRun
    BY DEF DigestInit
  <1>3. NoRun \in Run
    BY <1>1 DEF NoRun, Run, RunPhases
  <1>4. DigestTypeOK
    BY <1>1, <1>3 DEF DigestInit, DigestTypeOK
  <1>5. Past
    BY <1>2 DEF Past, FitsAt, NoRun
  <1>6. Holding /\ MarkedIsServed
    BY <1>2 DEF DigestInit, Holding, Settled, Claimed, NoRun, MarkedIsServed, Served
  <1>7. Sent /\ OncePerDay
    BY DEF DigestInit, Sent, OncePerDay
  <1> QED BY <1>4, <1>5, <1>6, <1>7 DEF DigestInv

\* Steps that change neither marks nor what is settled, and let no run claim.
LEMMA HoldingKept ==
    ASSUME Holding, UNCHANGED <<mark, settled, stale>>,
           \A r \in Runs, u \in Users : Claimed(r, u)' =>
               /\ Claimed(r, u)
               /\ runs'[r].now = runs[r].now /\ runs'[r].found = runs[r].found
    PROVE  Holding'
PROOF
  BY DEF Holding, HolderFits, HoldersApart, Settled

\* Steps that mail nothing, of runs that hold nobody or go on holding.
LEMMA SilentKept ==
    ASSUME DigestInv, UNCHANGED <<mark, mails, settled, doubtful, dropped, stale>>,
           \A r \in Runs, u \in Users : Claimed(r, u)' <=> Claimed(r, u),
           \A r \in Runs, u \in Users : Claimed(r, u) =>
               runs'[r].now = runs[r].now /\ runs'[r].found = runs[r].found
    PROVE  Holding' /\ Sent' /\ OncePerDay' /\ MarkedIsServed'
PROOF
  <1>1. Holding'
    BY HoldingKept DEF DigestInv
  <1>2. Sent' /\ OncePerDay'
    BY DEF DigestInv, Sent, OncePerDay
  <1>3. MarkedIsServed'
    BY DEF DigestInv, MarkedIsServed, Served
  <1> QED BY <1>1, <1>2, <1>3

LEMMA RunIs ==
    ASSUME DigestTypeOK, NEW r \in Runs
    PROVE  /\ runs[r] \in Run
           /\ runs[r].now \in Nat /\ runs[r].found \in Nat
           /\ \A u \in Users : runs[r].read[u] \in Nat
PROOF
  <1>1. runs[r] \in Run
    BY DEF DigestTypeOK
  <1> QED BY <1>1 DEF Run, Times

LEMMA FitsLater ==
    ASSUME NEW run \in Run, NEW s \in Nat, NEW t \in Nat, s <= t, FitsAt(run, s)
    PROVE  FitsAt(run, t)
PROOF
  <1>1. run.now \in Nat /\ \A u \in Users : run.read[u] \in Nat
    BY DEF Run, Times
  <1>2. run.phase # "idle" => run.now < t
    BY <1>1 DEF FitsAt
  <1>3. \A u \in Users : run.read[u] < t \/ run.read[u] = 0
    <2> SUFFICES ASSUME NEW u \in Users, run.read[u] # 0
                 PROVE  run.read[u] < t
      OBVIOUS
    <2>1. run.read[u] \in Nat /\ run.read[u] < s
      BY <1>1 DEF FitsAt
    <2> QED BY <2>1
  <1> QED BY <1>2, <1>3 DEF FitsAt

LEMMA StartKeeps ==
    ASSUME DigestInv, NEW r \in Runs, StartRun(r)
    PROVE  DigestInv'
PROOF
  <1>1. /\ runs[r].phase = "idle" /\ time < LastTick /\ time' = time + 1
        /\ runs' = [runs EXCEPT ![r].phase = "started", ![r].now = time]
        /\ UNCHANGED <<mark, mails, settled, doubtful, dropped, stale>>
    BY DEF StartRun
  <1>2. /\ runs'[r] = [runs[r] EXCEPT !.phase = "started", !.now = time]
        /\ \A q \in Runs : q # r => runs'[q] = runs[q]
    BY <1>1 DEF DigestInv, DigestTypeOK
  <1>3. runs[r] \in Run /\ time \in Nat
    BY DEF DigestInv, DigestTypeOK, Times
  <1>4. runs'[r] \in Run
    BY <1>2, <1>3 DEF DigestInv, DigestTypeOK, Run, RunPhases
  <1>5. DigestTypeOK'
    BY <1>1, <1>2, <1>4, DigestAssumption DEF DigestInv, DigestTypeOK, Times
  <1>6. Past'
    <2>1. time \in Nat /\ time' \in Nat /\ time < time'
      BY <1>1, <1>3
    <2>2. /\ runs'[r].phase = "started" /\ runs'[r].now = time
          /\ runs'[r].read = runs[r].read /\ runs'[r].user = runs[r].user
      BY <1>2, <1>3 DEF Run
    <2>3. FitsAt(runs'[r], time')
      <3>1. \A u \in Users : runs[r].read[u] \in Nat
        BY RunIs DEF DigestInv
      <3>2. FitsAt(runs[r], time)
        BY DEF DigestInv, Past
      <3>3. \A u \in Users : runs'[r].read[u] < time' \/ runs'[r].read[u] = 0
        BY <2>1, <2>2, <3>1, <3>2 DEF FitsAt
      <3> QED BY <1>1, <2>1, <2>2, <3>2, <3>3 DEF FitsAt
    <2>4. ASSUME NEW q \in Runs, q # r PROVE FitsAt(runs'[q], time')
      <3>1. FitsAt(runs[q], time) /\ runs'[q] = runs[q] /\ runs[q] \in Run
        BY <1>2, <2>4 DEF DigestInv, Past, DigestTypeOK
      <3> QED BY <2>1, <3>1, FitsLater
    <2> QED BY <2>3, <2>4 DEF Past
  <1>7. /\ \A q \in Runs, u \in Users : Claimed(q, u)' <=> Claimed(q, u)
        /\ \A q \in Runs, u \in Users : Claimed(q, u) => runs'[q] = runs[q]
    <2>1. runs'[r].phase = "started"
      BY <1>2, <1>3 DEF Run
    <2> QED BY <1>1, <1>2, <2>1 DEF Claimed
  <1> QED BY <1>1, <1>5, <1>6, <1>7, SilentKept DEF DigestInv

LEMMA ListKeeps ==
    ASSUME DigestInv, NEW r \in Runs, List(r)
    PROVE  DigestInv'
PROOF
  <1>1. /\ runs[r].phase = "started"
        /\ runs' = [runs EXCEPT ![r].phase = "loop", ![r].todo = Users, ![r].read = mark]
        /\ UNCHANGED <<time, mark, mails, settled, doubtful, dropped, stale>>
    BY DEF List
  <1>2. /\ runs'[r] = [runs[r] EXCEPT !.phase = "loop", !.todo = Users, !.read = mark]
        /\ \A q \in Runs : q # r => runs'[q] = runs[q]
        /\ runs[r] \in Run
    BY <1>1 DEF DigestInv, DigestTypeOK
  <1>3. runs'[r] \in Run
    BY <1>2 DEF DigestInv, DigestTypeOK, Run, RunPhases
  <1>4. DigestTypeOK'
    BY <1>1, <1>2, <1>3 DEF DigestInv, DigestTypeOK
  <1>5. Past'
    BY <1>1, <1>2 DEF DigestInv, Past, FitsAt, DigestTypeOK, Run
  <1>6. /\ \A q \in Runs, u \in Users : Claimed(q, u)' <=> Claimed(q, u)
        /\ \A q \in Runs, u \in Users : Claimed(q, u) => runs'[q] = runs[q]
    <2>1. runs'[r].phase = "loop"
      BY <1>2 DEF Run
    <2> QED BY <1>1, <1>2, <2>1 DEF Claimed
  <1> QED BY <1>1, <1>4, <1>5, <1>6, SilentKept DEF DigestInv

LEMMA SkipKeeps ==
    ASSUME DigestInv, NEW r \in Runs, NEW u \in Users, Skip(r, u)
    PROVE  DigestInv'
PROOF
  <1>1. /\ runs[r].phase = "loop"
        /\ runs' = [runs EXCEPT ![r].todo = @ \ {u}]
        /\ UNCHANGED <<time, mark, mails, settled, doubtful, dropped, stale>>
    BY DEF Skip
  <1>2. /\ runs'[r] = [runs[r] EXCEPT !.todo = @ \ {u}]
        /\ \A q \in Runs : q # r => runs'[q] = runs[q]
        /\ runs[r] \in Run
    BY <1>1 DEF DigestInv, DigestTypeOK
  <1>3. runs'[r] \in Run
    BY <1>2 DEF Run
  <1>4. DigestTypeOK'
    BY <1>1, <1>2, <1>3 DEF DigestInv, DigestTypeOK
  <1>5. Past'
    BY <1>1, <1>2 DEF DigestInv, Past, FitsAt, Run
  <1>6. /\ \A q \in Runs, x \in Users : Claimed(q, x)' <=> Claimed(q, x)
        /\ \A q \in Runs, x \in Users : Claimed(q, x) => runs'[q] = runs[q]
    BY <1>1, <1>2 DEF Claimed, Run
  <1> QED BY <1>1, <1>4, <1>5, <1>6, SilentKept DEF DigestInv

\* Time passes while the runs wait.
LEMMA NightKeeps == DigestInv /\ Night => DigestInv'
PROOF
  <1> SUFFICES ASSUME DigestInv, Night PROVE DigestInv'
    OBVIOUS
  <1>1. /\ DayStart(time) + DayLength <= LastTick /\ time' = DayStart(time) + DayLength
        /\ UNCHANGED <<mark, runs, mails, settled, doubtful, dropped, stale>>
    BY DEF Night
  <1>2. time \in Nat /\ DayLength \in Nat \ {0} /\ LastTick \in Nat
    BY DigestAssumption DEF DigestInv, DigestTypeOK, Times
  <1>3. time' \in Times /\ time < time'
    <2>1. time < (time \div DayLength) * DayLength + DayLength
      BY <1>2, DivIs
    <2> QED BY <1>1, <1>2, <2>1, DayIs DEF DayStart, Day, Times
  <1>4. DigestTypeOK'
    BY <1>1, <1>2, <1>3 DEF DigestInv, DigestTypeOK, Times
  <1>5. Past'
    <2>1. time' \in Nat
      BY <1>3 DEF Times
    <2>2. ASSUME NEW q \in Runs PROVE FitsAt(runs'[q], time')
      <3>1. FitsAt(runs[q], time) /\ runs'[q] = runs[q] /\ runs[q] \in Run
        BY <1>1 DEF DigestInv, Past, DigestTypeOK
      <3> QED BY <1>2, <1>3, <2>1, <3>1, FitsLater
    <2> QED BY <2>2 DEF Past
  <1>6. \A q \in Runs, x \in Users : Claimed(q, x)' <=> Claimed(q, x)
    BY <1>1 DEF Claimed
  <1> QED BY <1>1, <1>4, <1>5, <1>6, SilentKept DEF DigestInv

\* Two runs never hold a user for the same day.
LEMMA DaysApart ==
    ASSUME DigestInv, NEW u \in Users \ stale, NEW q \in Runs, NEW r \in Runs, q # r,
           Claimed(q, u), Claimed(r, u)
    PROVE  Day(runs[q].now) # Day(runs[r].now)
PROOF
  <1>1. /\ runs[q].now \in Nat /\ runs[r].now \in Nat
        /\ runs[q].found \in Nat /\ runs[r].found \in Nat
    BY DEF DigestInv, DigestTypeOK, Run, Times
  <1>2. HolderFits(q, u) /\ HolderFits(r, u) /\ HoldersApart(q, r, u)
    BY DEF DigestInv, Holding
  <1>3. ASSUME NEW a \in Nat, NEW f \in Nat, NEW b \in Nat, a <= f, f < DayStart(b)
        PROVE  Day(a) # Day(b)
    <2>1. Day(a) <= Day(f) /\ Day(f) < Day(b)
      BY <1>3, DayMonotonic, DayBefore
    <2> QED BY <2>1, DayIs
  <1> QED BY <1>1, <1>2, <1>3 DEF HolderFits, HoldersApart


\* A claim: the mark of the user becomes the now of the run.
LEMMA ClaimKeeps ==
    ASSUME DigestInv, NEW r \in Runs, NEW u \in Users, Claim(r, u)
    PROVE  DigestInv'
PROOF
  <1>1. /\ runs[r].phase = "loop" /\ u \in runs[r].todo
        /\ mark[u] < DayStart(runs[r].now)
        /\ mark' = [mark EXCEPT ![u] = runs[r].now]
        /\ runs' = [runs EXCEPT ![r].phase = "claimed", ![r].user = u,
                                ![r].todo = @ \ {u}, ![r].found = mark[u]]
        /\ UNCHANGED <<time, mails, settled, doubtful, dropped, stale>>
    BY DEF Claim, Claimable
  <1>2. runs[r] \in Run /\ mark[u] \in Times /\ mark[u] \in Nat /\ runs[r].now \in Times
    BY DEF DigestInv, DigestTypeOK, Run, Times
  <1>3. /\ runs'[r].phase = "claimed" /\ runs'[r].user = u /\ runs'[r].found = mark[u]
        /\ runs'[r].now = runs[r].now /\ runs'[r].read = runs[r].read
        /\ runs'[r].todo = runs[r].todo \ {u} /\ runs'[r] \in Run
    BY <1>1, <1>2 DEF DigestInv, DigestTypeOK, Run, RunPhases
  <1>4. \A q \in Runs : q # r => runs'[q] = runs[q]
    BY <1>1 DEF DigestInv, DigestTypeOK
  <1>5. \A x \in Users : mark'[x] = IF x = u THEN runs[r].now ELSE mark[x]
    BY <1>1 DEF DigestInv, DigestTypeOK
  <1>6. runs[r].now < time /\ runs[r].now \in Nat
    BY <1>1, RunIs DEF DigestInv, Past, FitsAt
  <1>7. DigestTypeOK'
    BY <1>1, <1>2, <1>3, <1>5, <1>6 DEF DigestInv, DigestTypeOK
  <1>8. Past'
    <2>1. FitsAt(runs[r], time)
      BY DEF DigestInv, Past
    <2>2. FitsAt(runs'[r], time')
      BY <1>1, <1>3, <1>6, <2>1 DEF FitsAt
    <2>3. ASSUME NEW q \in Runs, q # r PROVE FitsAt(runs'[q], time')
      BY <1>1, <1>4, <2>3 DEF DigestInv, Past
    <2> QED BY <2>2, <2>3 DEF Past
  <1>9. /\ \A q \in Runs, x \in Users : (q # r \/ x # u) => (Claimed(q, x)' <=> Claimed(q, x))
        /\ \A x \in Users : ~Claimed(r, x)
    BY <1>1, <1>3, <1>4 DEF Claimed
  <1>10. DayStart(runs[r].now) <= runs[r].now /\ mark[u] < runs[r].now
    BY <1>1, <1>2, <1>6, DayIs
  <1>11. Holding'
    <2> SUFFICES ASSUME NEW x \in Users \ stale
                 PROVE  /\ \A D \in Days : Settled(x, D) => D <= Day(mark'[x])
                        /\ \A q \in Runs : Claimed(q, x)' => HolderFits(q, x)'
                        /\ \A p, q \in Runs : p # q /\ Claimed(p, x)' /\ Claimed(q, x)'
                                => HoldersApart(p, q, x)'
      BY <1>1 DEF Holding, Settled
    <2>1. CASE x # u
      <3>1. \A q \in Runs : Claimed(q, x)' => q # r /\ Claimed(q, x) /\ runs'[q] = runs[q]
        BY <2>1, <1>3, <1>4, <1>9 DEF Claimed
      <3>2. mark'[x] = mark[x] /\ \A D : Settled(x, D)' <=> Settled(x, D)
        BY <2>1, <1>1, <1>5 DEF Settled
      <3>3. ASSUME NEW q \in Runs, Claimed(q, x)' PROVE HolderFits(q, x)'
        <4>1. HolderFits(q, x) /\ runs'[q] = runs[q]
          BY <3>1, <3>3 DEF DigestInv, Holding
        <4> QED BY <3>2, <4>1 DEF HolderFits
      <3>4. \A D \in Days : Settled(x, D) => D <= Day(mark'[x])
        BY <3>2 DEF DigestInv, Holding
      <3> QED BY <3>1, <3>3, <3>4 DEF DigestInv, Holding, HoldersApart
    <2>2. CASE x = u
      <3>1. Day(mark[u]) < Day(runs[r].now) /\ Day(mark[u]) \in Nat /\ Day(runs[r].now) \in Nat
        BY <1>1, <1>2, <1>6, DayBefore, DayIs
      <3>2. \A D \in Days : Settled(u, D) => D <= Day(mark[u])
        BY <2>2 DEF DigestInv, Holding
      <3>3. Days \subseteq Nat
        BY DayIs DEF Days, Times
      <3>4. \A D \in Days : Settled(u, D) => D < Day(runs[r].now)
        BY <3>1, <3>2, <3>3
      <3>5. Day(runs[r].now) \in Days
        BY <1>2, DayListed
      <3>6. HolderFits(r, u)'
        <4>1. mark'[u] = runs[r].now /\ \A D : Settled(u, D)' <=> Settled(u, D)
          BY <1>1, <1>5 DEF Settled
        <4>2. ~Settled(u, Day(runs[r].now))
          BY <3>1, <3>4, <3>5
        <4>3. runs'[r].now <= mark'[u] /\ runs'[r].found < DayStart(runs'[r].now)
          BY <1>1, <1>3, <1>6, <4>1
        <4>4. ~Settled(u, Day(runs[r].now))'
          BY <1>3, <4>1, <4>2
        <4>5. \A D \in Days : Settled(u, D)' => D <= Day(runs'[r].found)
          BY <1>3, <3>2, <4>1
        <4> QED BY <4>3, <4>4, <4>5 DEF HolderFits
      <3>7. \A q \in Runs : Claimed(q, u) => runs[q].now <= mark[u] /\ HolderFits(q, u)
        BY <2>2 DEF DigestInv, Holding, HolderFits
      <3>8. \A q \in Runs : q # r /\ Claimed(q, u) => HolderFits(q, u)'
        <4> SUFFICES ASSUME NEW q \in Runs, q # r, Claimed(q, u) PROVE HolderFits(q, u)'
          OBVIOUS
        <4>1. HolderFits(q, u) /\ runs'[q] = runs[q] /\ \A D : Settled(u, D)' <=> Settled(u, D)
          BY <1>1, <1>4, <3>7 DEF Settled
        <4>2. runs[q].now <= mark'[u]
          BY <1>2, <1>5, <1>6, <1>10, <3>7, RunIs DEF DigestInv
        <4> QED BY <4>1, <4>2 DEF HolderFits
      <3>9. \A q \in Runs : q # r /\ Claimed(q, u)' => HoldersApart(q, r, u)' /\ HoldersApart(r, q, u)'
        BY <1>3, <1>4, <1>9, <3>7 DEF HoldersApart
      <3>10. \A p, q \in Runs : p # q /\ p # r /\ q # r /\ Claimed(p, u)' /\ Claimed(q, u)'
                => HoldersApart(p, q, u)'
        BY <2>2, <1>4, <1>9 DEF DigestInv, Holding, HoldersApart
      <3>11. \A q \in Runs : Claimed(q, u)' => HolderFits(q, u)'
        BY <1>9, <3>6, <3>8
      <3>12. \A p, q \in Runs : p # q /\ Claimed(p, u)' /\ Claimed(q, u)' => HoldersApart(p, q, u)'
        BY <3>9, <3>10
      <3>13. \A D \in Days : Settled(u, D) => D <= Day(mark'[u])
        BY <1>5, <3>1, <3>3, <3>4
      <3> QED BY <2>2, <3>11, <3>12, <3>13
    <2> QED BY <2>1, <2>2
  <1>12. Sent' /\ OncePerDay'
    BY <1>1 DEF DigestInv, Sent, OncePerDay
  <1>13. MarkedIsServed'
    <2> SUFFICES ASSUME NEW x \in Users \ (dropped \cup stale)
                 PROVE  ServedOrHeld(x)'
      BY <1>1 DEF MarkedIsServed, ServedOrHeld
    <2>1. CASE x = u
      BY <2>1, <1>3, <1>5 DEF Claimed, ServedOrHeld
    <2>2. CASE x # u
      <3>1. mark'[x] = mark[x] /\ (Served(x, mark[x])' <=> Served(x, mark[x]))
        BY <2>2, <1>1, <1>5 DEF Served
      <3>2. \A q \in Runs : Claimed(q, x) => Claimed(q, x)' /\ runs'[q].now = runs[q].now
        BY <2>2, <1>3, <1>4, <1>9
      <3>3. ServedOrHeld(x)
        BY DEF DigestInv, MarkedIsServed, ServedOrHeld
      <3> QED BY <3>1, <3>2, <3>3 DEF ServedOrHeld, Served
    <2> QED BY <2>1, <2>2
  <1> QED BY <1>7, <1>8, <1>11, <1>12, <1>13 DEF DigestInv

\* A run that is done with its user holds nobody; the others go on.
LEMMA RunProceeds ==
    ASSUME DigestInv, NEW r \in Runs, Proceed(r), time' = time,
           runs[r].phase \in {"claimed", "failed"}
    PROVE  /\ runs' \in [Runs -> Run] /\ Past'
           /\ runs[r].user \in Users /\ Claimed(r, runs[r].user)
           /\ \A x : Claimed(r, x) => x = runs[r].user
           /\ \A x : ~Claimed(r, x)'
           /\ \A q \in Runs : q # r => runs'[q] = runs[q]
PROOF
  <1>1. runs' = [runs EXCEPT ![r].phase = "loop", ![r].user = None]
    BY DEF Proceed
  <1>2. runs \in [Runs -> Run] /\ runs[r] \in Run
    BY DEF DigestInv, DigestTypeOK
  <1>3. /\ runs'[r].phase = "loop" /\ runs'[r].user = None
        /\ runs'[r].now = runs[r].now /\ runs'[r].read = runs[r].read
        /\ runs'[r] \in Run
    BY <1>1, <1>2 DEF Run, RunPhases
  <1>4. \A q \in Runs : q # r => runs'[q] = runs[q]
    BY <1>1, <1>2
  <1>5. runs' \in [Runs -> Run]
    BY <1>1, <1>2, <1>3, <1>4
  <1>6. FitsAt(runs[r], time)
    BY DEF DigestInv, Past
  <1>7. FitsAt(runs'[r], time')
    <2>1. runs[r].phase # "idle"
      OBVIOUS
    <2>2. runs'[r].now < time'
      BY <1>3, <1>6, <2>1 DEF FitsAt
    <2>3. \A x \in Users : runs'[r].read[x] < time' \/ runs'[r].read[x] = 0
      BY <1>3, <1>6 DEF FitsAt
    <2> QED BY <1>3, <2>2, <2>3 DEF FitsAt
  <1>8. Past'
    <2> SUFFICES ASSUME NEW q \in Runs PROVE FitsAt(runs'[q], time')
      BY DEF Past
    <2>1. CASE q = r
      BY <1>7, <2>1
    <2>2. CASE q # r
      BY <1>4, <2>2 DEF DigestInv, Past
    <2> QED BY <2>1, <2>2
  <1>9. runs[r].user \in Users /\ Claimed(r, runs[r].user)
    BY <1>6 DEF FitsAt, Claimed
  <1>10. \A x : (Claimed(r, x) => x = runs[r].user) /\ ~Claimed(r, x)'
    BY <1>3 DEF Claimed
  <1> QED BY <1>4, <1>5, <1>8, <1>9, <1>10

LEMMA SendKeeps ==
    ASSUME DigestInv, NEW r \in Runs, NEW empty \in BOOLEAN, SendDigest(r, empty)
    PROVE  DigestInv'
PROOF
  <1> DEFINE u == runs[r].user
             D0 == Day(runs[r].now)
  <1>1. /\ runs[r].phase = "claimed"
        /\ mails' = IF empty THEN mails ELSE [mails EXCEPT ![<<u, D0>>] = @ + 1]
        /\ settled' = settled \cup {<<u, D0>>}
        /\ Proceed(r)
        /\ UNCHANGED <<time, mark, doubtful, dropped, stale>>
    BY DEF SendDigest, Today
  <1>2. /\ runs' \in [Runs -> Run] /\ Past'
        /\ u \in Users /\ Claimed(r, u)
        /\ \A x : (Claimed(r, x) => x = u) /\ ~Claimed(r, x)'
        /\ \A q \in Runs : q # r => runs'[q] = runs[q]
    BY <1>1, RunProceeds
  <1>3. \A q \in Runs : runs[q].now \in Times /\ runs[q].now \in Nat /\ runs[q].found \in Nat
    BY DEF DigestInv, DigestTypeOK, Run, Times
  <1>4. D0 \in Days /\ D0 \in Nat /\ <<u, D0>> \in Users \X Days
    BY <1>2, <1>3, DayListed, DayIs
  <1>5. DigestTypeOK'
    BY <1>1, <1>2, <1>4 DEF DigestInv, DigestTypeOK
  <1>6. \A q \in Runs, x \in Users : Claimed(q, x)' => q # r /\ Claimed(q, x) /\ runs'[q] = runs[q]
    BY <1>2 DEF Claimed
  <1>7. \A q \in Runs, x \in Users : q # r /\ Claimed(q, x) => Claimed(q, x)' /\ runs'[q] = runs[q]
    BY <1>2 DEF Claimed
  <1>8. Holding'
    <2> SUFFICES ASSUME NEW x \in Users \ stale
                 PROVE  /\ \A D \in Days : Settled(x, D)' => D <= Day(mark[x])
                        /\ \A q \in Runs : Claimed(q, x)' => HolderFits(q, x)'
                        /\ \A p, q \in Runs : p # q /\ Claimed(p, x)' /\ Claimed(q, x)'
                                => HoldersApart(p, q, x)'
      BY <1>1 DEF Holding, Settled
    <2>1. \A p, q \in Runs : p # q /\ Claimed(p, x)' /\ Claimed(q, x)' => HoldersApart(p, q, x)'
      BY <1>6 DEF DigestInv, Holding, HoldersApart
    <2>2. CASE x # u
      <3>1. \A D : Settled(x, D)' <=> Settled(x, D)
        BY <1>1, <2>2 DEF Settled
      <3>2. \A D \in Days : Settled(x, D)' => D <= Day(mark[x])
        BY <3>1 DEF DigestInv, Holding
      <3>3. ASSUME NEW q \in Runs, Claimed(q, x)' PROVE HolderFits(q, x)'
        <4>1. HolderFits(q, x) /\ runs'[q] = runs[q] /\ mark' = mark
          BY <1>1, <1>6, <3>3 DEF DigestInv, Holding
        <4> QED BY <3>1, <4>1 DEF HolderFits
      <3> QED BY <2>1, <3>2, <3>3
    <2>3. CASE x = u
      <3>1. \A D : Settled(x, D)' <=> Settled(x, D) \/ D = D0
        BY <1>1, <2>3 DEF Settled
      <3>2. HolderFits(r, x) /\ mark[x] \in Nat
        BY <1>2, <2>3 DEF DigestInv, Holding, DigestTypeOK, Times
      <3>3. D0 <= Day(mark[x])
        BY <1>3, <3>2, DayMonotonic DEF HolderFits
      <3>4. \A D \in Days : Settled(x, D)' => D <= Day(mark[x])
        BY <2>3, <3>1, <3>3 DEF DigestInv, Holding
      <3>5. ASSUME NEW q \in Runs, Claimed(q, x)' PROVE HolderFits(q, x)'
        <4>1. q # r /\ Claimed(q, x) /\ runs'[q] = runs[q] /\ mark' = mark
          BY <1>1, <1>6, <3>5
        <4>2. HolderFits(q, x) /\ HoldersApart(q, r, x)
          BY <1>2, <2>3, <4>1 DEF DigestInv, Holding
        <4>3. Day(runs[q].now) # D0
          BY <1>2, <2>3, <4>1, DaysApart
        <4>4. D0 <= Day(runs[q].found) \/ Day(runs[q].now) <= D0
          <5>1. CASE runs[r].now <= runs[q].found
            BY <1>3, <5>1, DayMonotonic
          <5>2. CASE runs[q].now <= runs[r].found
            <6>1. DayStart(runs[r].now) \in Nat /\ DayStart(runs[r].now) <= runs[r].now
              BY <1>3, DayIs
            <6>2. runs[q].now <= runs[r].now
              BY <1>3, <3>2, <5>2, <6>1 DEF HolderFits
            <6> QED BY <1>3, <6>2, DayMonotonic
          <5> QED BY <4>2, <5>1, <5>2 DEF HoldersApart
        <4>5. runs[q].now <= mark[x] /\ runs[q].found < DayStart(runs[q].now)
          BY <4>2 DEF HolderFits
        <4>6. ~Settled(x, Day(runs[q].now)) /\ Day(runs[q].now) # D0
          BY <4>2, <4>3 DEF HolderFits
        <4>7. \A D \in Days : Settled(x, D)' => D <= Day(runs[q].found) \/ Day(runs[q].now) <= D
          BY <3>1, <4>2, <4>4 DEF HolderFits
        <4>8. ~Settled(x, Day(runs[q].now))'
          BY <1>1, <2>3, <4>1, <4>6 DEF Settled
        <4> QED BY <4>1, <4>5, <4>7, <4>8 DEF HolderFits
      <3> QED BY <2>1, <2>3, <3>4, <3>5
    <2> QED BY <2>2, <2>3
  <1>9. Sent'
    BY <1>1, <1>4 DEF DigestInv, Sent, DigestTypeOK
  <1>10. OncePerDay'
    <2> SUFFICES ASSUME NEW d \in Users \X Days, d \notin doubtful, d[1] \notin stale
                 PROVE  mails'[d] <= 1
      BY <1>1, <1>5 DEF OncePerDay, DigestTypeOK
    <2>1. mails[d] <= 1 /\ mails[d] \in Nat
      BY DEF DigestInv, OncePerDay, DigestTypeOK
    <2>2. CASE d = <<u, D0>> /\ ~empty
      <3>1. u \in Users \ stale
        BY <1>2, <2>2
      <3>2. ~Settled(u, D0)
        BY <1>2, <3>1 DEF DigestInv, Holding, HolderFits
      <3>3. ~(mails[d] > 0)
        BY <2>2, <3>2 DEF DigestInv, Sent, Settled
      <3>4. mails'[d] = mails[d] + 1
        BY <1>1, <2>2 DEF DigestInv, DigestTypeOK
      <3> QED BY <2>1, <3>3, <3>4
    <2>3. CASE d # <<u, D0>> \/ empty
      BY <1>1, <2>1, <2>3 DEF DigestInv, DigestTypeOK
    <2> QED BY <2>2, <2>3
  <1>11. MarkedIsServed'
    <2> SUFFICES ASSUME NEW x \in Users \ (dropped \cup stale)
                 PROVE  ServedOrHeld(x)'
      BY <1>1 DEF MarkedIsServed, ServedOrHeld
    <2>1. CASE Served(x, mark[x])
      BY <1>1, <2>1 DEF ServedOrHeld, Served
    <2>2. CASE ~Served(x, mark[x])
      <3>1. PICK q \in Runs : Claimed(q, x) /\ runs[q].now = mark[x]
        BY <2>2 DEF DigestInv, MarkedIsServed
      <3>2. CASE q = r
        BY <1>1, <1>2, <3>1, <3>2 DEF ServedOrHeld, Served
      <3>3. CASE q # r
        <4>1. Claimed(q, x)' /\ runs'[q].now = mark'[x]
          BY <1>1, <1>7, <3>1, <3>3
        <4> QED BY <4>1 DEF ServedOrHeld
      <3> QED BY <3>2, <3>3
    <2> QED BY <2>1, <2>2
  <1> QED BY <1>2, <1>5, <1>8, <1>9, <1>10, <1>11 DEF DigestInv

LEMMA FailKeeps ==
    ASSUME DigestInv, NEW r \in Runs, NEW out \in BOOLEAN, SendFails(r, out)
    PROVE  DigestInv'
PROOF
  <1> DEFINE d0 == <<runs[r].user, Day(runs[r].now)>>
  <1>1. /\ runs[r].phase = "claimed"
        /\ mails' = IF out THEN [mails EXCEPT ![d0] = @ + 1] ELSE mails
        /\ doubtful' = IF out THEN doubtful \cup {d0} ELSE doubtful
        /\ runs' = [runs EXCEPT ![r].phase = "failed"]
        /\ UNCHANGED <<time, mark, settled, dropped, stale>>
    BY DEF SendFails, Today
  <1>2. runs[r] \in Run /\ runs[r].now \in Times /\ FitsAt(runs[r], time)
    BY DEF DigestInv, DigestTypeOK, Run, Past
  <1>3. d0 \in Users \X Days
    BY <1>1, <1>2, DayListed DEF FitsAt
  <1>4. /\ runs'[r].phase = "failed" /\ runs'[r].user = runs[r].user
        /\ runs'[r].now = runs[r].now /\ runs'[r].read = runs[r].read
        /\ runs'[r].found = runs[r].found /\ runs'[r] \in Run
    BY <1>1, <1>2 DEF DigestInv, DigestTypeOK, Run, RunPhases
  <1>5. \A q \in Runs : q # r => runs'[q] = runs[q]
    BY <1>1 DEF DigestInv, DigestTypeOK
  <1>6. DigestTypeOK'
    BY <1>1, <1>3, <1>4, <1>5 DEF DigestInv, DigestTypeOK
  <1>7. Past'
    <2>1. FitsAt(runs'[r], time')
      BY <1>1, <1>2, <1>4 DEF FitsAt
    <2>2. ASSUME NEW q \in Runs, q # r PROVE FitsAt(runs'[q], time')
      BY <1>1, <1>5, <2>2 DEF DigestInv, Past
    <2> QED BY <2>1, <2>2 DEF Past
  <1>8. /\ \A q \in Runs, x \in Users : Claimed(q, x)' <=> Claimed(q, x)
        /\ \A q \in Runs : runs'[q].now = runs[q].now /\ runs'[q].found = runs[q].found
    BY <1>1, <1>4, <1>5 DEF Claimed
  <1>9. Holding'
    BY <1>1, <1>8, HoldingKept DEF DigestInv
  <1>10. Sent' /\ OncePerDay'
    BY <1>1, <1>3 DEF DigestInv, Sent, OncePerDay, DigestTypeOK
  <1>11. MarkedIsServed'
    BY <1>1, <1>8 DEF DigestInv, MarkedIsServed, Served
  <1> QED BY <1>6, <1>7, <1>9, <1>10, <1>11 DEF DigestInv

\* The mark is put back: to the one the claim replaced, or the user is stale.
LEMMA RestoreKeeps ==
    ASSUME DigestInv, NEW r \in Runs, Restore(r)
    PROVE  DigestInv'
PROOF
  <1> DEFINE old(x) == runs[r].read[x]
  <1>1. PICK u : u = runs[r].user
    OBVIOUS
  <1>2. /\ runs[r].phase = "failed"
        /\ Proceed(r)
        /\ UNCHANGED <<time, mails, settled, doubtful, dropped>>
    BY DEF Restore
  <1>3. IF mark[u] = runs[r].now
        THEN /\ mark' = [mark EXCEPT ![u] = old(u)]
             /\ stale' = IF old(u) = runs[r].found /\ Served(u, old(u))
                         THEN stale ELSE stale \cup {u}
        ELSE UNCHANGED <<mark, stale>>
    BY <1>1 DEF Restore
  <1>4. /\ runs' \in [Runs -> Run] /\ Past'
        /\ u \in Users /\ Claimed(r, u)
        /\ \A x : (Claimed(r, x) => x = u) /\ ~Claimed(r, x)'
        /\ \A q \in Runs : q # r => runs'[q] = runs[q]
    BY <1>1, <1>2, RunProceeds
  <1>5. \A q \in Runs : runs[q].now \in Nat /\ runs[q].found \in Nat
    BY RunIs DEF DigestInv
  <1>6. old(u) \in Times /\ (old(u) < time \/ old(u) = 0)
    BY <1>4 DEF DigestInv, DigestTypeOK, Run, Past, FitsAt
  <1>7. DigestTypeOK'
    BY <1>2, <1>3, <1>4, <1>6 DEF DigestInv, DigestTypeOK
  <1>8. \A q \in Runs, x \in Users : Claimed(q, x)' => q # r /\ Claimed(q, x) /\ runs'[q] = runs[q]
    BY <1>4 DEF Claimed
  <1>9. \A q \in Runs, x \in Users : q # r /\ Claimed(q, x) => Claimed(q, x)' /\ runs'[q] = runs[q]
    BY <1>4 DEF Claimed
  <1>10. /\ stale \subseteq stale'
         /\ \A x \in Users \ stale' : mark'[x] # mark[x] =>
               x = u /\ mark[u] = runs[r].now /\ mark'[u] = runs[r].found /\ Served(u, mark'[u])
    <2>1. CASE mark[u] = runs[r].now
      <3>1. \A x \in Users : mark'[x] = IF x = u THEN old(u) ELSE mark[x]
        BY <1>3, <2>1 DEF DigestInv, DigestTypeOK
      <3>2. stale \subseteq stale' /\ (u \notin stale' => old(u) = runs[r].found /\ Served(u, old(u)))
        BY <1>3, <2>1
      <3> QED BY <2>1, <3>1, <3>2
    <2>2. CASE mark[u] # runs[r].now
      BY <1>3, <2>2
    <2> QED BY <2>1, <2>2
  <1>11. Holding'
    <2> SUFFICES ASSUME NEW x \in Users \ stale'
                 PROVE  /\ \A D \in Days : Settled(x, D) => D <= Day(mark'[x])
                        /\ \A q \in Runs : Claimed(q, x)' => HolderFits(q, x)'
                        /\ \A p, q \in Runs : p # q /\ Claimed(p, x)' /\ Claimed(q, x)'
                                => HoldersApart(p, q, x)'
      BY <1>2 DEF Holding, Settled
    <2>1. x \in Users \ stale
      BY <1>10
    <2>2. \A p, q \in Runs : p # q /\ Claimed(p, x)' /\ Claimed(q, x)' => HoldersApart(p, q, x)'
      BY <1>8, <2>1 DEF DigestInv, Holding, HoldersApart
    <2>3. ASSUME NEW q \in Runs, Claimed(q, x)', runs[q].now <= mark'[x] PROVE HolderFits(q, x)'
      <3>1. HolderFits(q, x) /\ runs'[q] = runs[q]
        BY <1>8, <2>1, <2>3 DEF DigestInv, Holding
      <3>2. \A D : Settled(x, D)' <=> Settled(x, D)
        BY <1>2 DEF Settled
      <3> QED BY <2>3, <3>1, <3>2 DEF HolderFits
    <2>4. CASE mark'[x] = mark[x]
      <3>1. \A D \in Days : Settled(x, D) => D <= Day(mark'[x])
        BY <2>1, <2>4 DEF DigestInv, Holding
      <3>2. ASSUME NEW q \in Runs, Claimed(q, x)' PROVE HolderFits(q, x)'
        <4>1. HolderFits(q, x)
          BY <1>8, <2>1, <3>2 DEF DigestInv, Holding
        <4>2. runs[q].now <= mark'[x]
          BY <2>4, <4>1 DEF HolderFits
        <4> QED BY <2>3, <3>2, <4>2
      <3> QED BY <2>2, <3>1, <3>2
    <2>5. CASE mark'[x] # mark[x]
      <3>1. x = u /\ mark[x] = runs[r].now /\ mark'[x] = runs[r].found
        BY <1>10, <2>5
      <3>2. HolderFits(r, x)
        BY <1>4, <2>1, <3>1 DEF DigestInv, Holding
      <3>3. Days \subseteq Nat
        BY DayIs DEF Days, Times
      <3>4. \A D \in Days : Settled(x, D) => D <= Day(mark[x])
        BY <2>1 DEF DigestInv, Holding
      <3>5. ASSUME NEW D \in Days, Settled(x, D) PROVE D <= Day(mark'[x])
        <4>1. D # Day(runs[r].now) /\ D <= Day(runs[r].now)
          BY <3>1, <3>2, <3>4, <3>5 DEF HolderFits
        <4>2. Day(runs[r].now) \in Nat /\ D \in Nat
          BY <1>5, <3>3, <3>5, DayIs
        <4>3. D <= Day(runs[r].found) \/ Day(runs[r].now) <= D
          BY <3>2, <3>5 DEF HolderFits
        <4> QED BY <3>1, <4>1, <4>2, <4>3
      <3>6. ASSUME NEW q \in Runs, Claimed(q, x)' PROVE HolderFits(q, x)'
        <4>1. q # r /\ Claimed(q, x)
          BY <1>8, <3>6
        <4>2. HolderFits(q, x) /\ HoldersApart(q, r, x)
          BY <1>4, <2>1, <3>1, <4>1 DEF DigestInv, Holding
        <4>3. DayStart(runs[q].now) <= runs[q].now /\ DayStart(runs[q].now) \in Nat
          BY <1>5, DayIs
        <4>4. ~(runs[r].now <= runs[q].found)
          BY <1>5, <3>1, <4>2, <4>3 DEF HolderFits
        <4>5. runs[q].now <= mark'[x]
          BY <3>1, <4>2, <4>4 DEF HoldersApart
        <4> QED BY <2>3, <3>6, <4>5
      <3> QED BY <2>2, <3>5, <3>6
    <2> QED BY <2>4, <2>5
  <1>12. Sent' /\ OncePerDay'
    BY <1>2, <1>10 DEF DigestInv, Sent, OncePerDay, DigestTypeOK
  <1>13. MarkedIsServed'
    <2> SUFFICES ASSUME NEW x \in Users \ (dropped \cup stale')
                 PROVE  ServedOrHeld(x)'
      BY <1>2 DEF MarkedIsServed, ServedOrHeld
    <2>1. CASE mark'[x] # mark[x]
      BY <1>2, <1>10, <2>1 DEF ServedOrHeld, Served
    <2>2. CASE mark'[x] = mark[x] /\ Served(x, mark[x])
      BY <1>2, <2>2 DEF ServedOrHeld, Served
    <2>3. CASE mark'[x] = mark[x] /\ ~Served(x, mark[x])
      <3>1. PICK q \in Runs : Claimed(q, x) /\ runs[q].now = mark[x]
        BY <1>10, <2>3 DEF DigestInv, MarkedIsServed
      <3>2. q # r
        <4> SUFFICES ASSUME q = r PROVE FALSE
          OBVIOUS
        <4>1. x = u /\ mark[u] = runs[r].now
          BY <1>4, <3>1
        <4>2. mark'[u] = old(u) /\ (u \notin stale' => Served(u, old(u)))
          BY <1>3, <1>4, <4>1 DEF DigestInv, DigestTypeOK
        <4> QED BY <2>3, <4>1, <4>2
      <3>3. Claimed(q, x)' /\ runs'[q].now = mark'[x]
        BY <1>9, <2>3, <3>1, <3>2
      <3> QED BY <3>3 DEF ServedOrHeld
    <2> QED BY <2>1, <2>2, <2>3
  <1> QED BY <1>4, <1>7, <1>11, <1>12, <1>13 DEF DigestInv

\* A run that leaves a claimed user to nobody: the user is dropped.
LEMMA RestoreFailsKeeps ==
    ASSUME DigestInv, NEW r \in Runs, RestoreFails(r)
    PROVE  DigestInv'
PROOF
  <1>1. PICK u : u = runs[r].user
    OBVIOUS
  <1>2. /\ runs[r].phase = "failed" /\ Proceed(r)
        /\ dropped' = dropped \cup {u}
        /\ UNCHANGED <<time, mark, mails, settled, doubtful, stale>>
    BY <1>1 DEF RestoreFails
  <1>3. /\ runs' \in [Runs -> Run] /\ Past'
        /\ u \in Users
        /\ \A x : (Claimed(r, x) => x = u) /\ ~Claimed(r, x)'
        /\ \A q \in Runs : q # r => runs'[q] = runs[q]
    BY <1>1, <1>2, RunProceeds
  <1>4. DigestTypeOK'
    BY <1>2, <1>3 DEF DigestInv, DigestTypeOK
  <1>5. Holding'
    BY <1>2, <1>3, HoldingKept DEF DigestInv, Claimed
  <1>6. Sent' /\ OncePerDay'
    BY <1>2 DEF DigestInv, Sent, OncePerDay
  <1>7. MarkedIsServed'
    BY <1>2, <1>3 DEF DigestInv, MarkedIsServed, Served, Claimed
  <1> QED BY <1>3, <1>4, <1>5, <1>6, <1>7 DEF DigestInv

LEMMA StopKeeps ==
    ASSUME DigestInv, NEW r \in Runs, Stop(r)
    PROVE  DigestInv'
PROOF
  <1>1. /\ runs' = [runs EXCEPT ![r] = NoRun]
        /\ dropped' = IF runs[r].user = None THEN dropped ELSE dropped \cup {runs[r].user}
        /\ UNCHANGED <<time, mark, mails, settled, doubtful, stale>>
    BY DEF Stop
  <1>2. 0 \in Times
    BY DigestAssumption DEF Times
  <1>3. NoRun \in Run /\ NoRun.phase = "idle"
    BY <1>2 DEF NoRun, Run, RunPhases
  <1>4. runs'[r] = NoRun /\ \A q \in Runs : q # r => runs'[q] = runs[q]
    BY <1>1 DEF DigestInv, DigestTypeOK
  <1>5. runs[r].user \in Users \cup {None} /\ FitsAt(runs[r], time)
    BY DEF DigestInv, DigestTypeOK, Run, Past
  <1>6. DigestTypeOK'
    BY <1>1, <1>3, <1>5 DEF DigestInv, DigestTypeOK
  <1>7. Past'
    <2>1. FitsAt(NoRun, time')
      BY DEF FitsAt, NoRun
    <2>2. ASSUME NEW q \in Runs, q # r PROVE FitsAt(runs'[q], time')
      BY <1>1, <1>4, <2>2 DEF DigestInv, Past
    <2> QED BY <1>4, <2>1, <2>2 DEF Past
  <1>8. \A x \in Users : ~Claimed(r, x)' /\ (Claimed(r, x) => x \in dropped')
    BY <1>1, <1>3, <1>4, DigestAssumption DEF Claimed
  <1>9. Holding'
    BY <1>1, <1>4, <1>8, HoldingKept DEF DigestInv, Claimed
  <1>10. Sent' /\ OncePerDay'
    BY <1>1 DEF DigestInv, Sent, OncePerDay
  <1>11. MarkedIsServed'
    BY <1>1, <1>4, <1>8 DEF DigestInv, MarkedIsServed, Served, Claimed
  <1> QED BY <1>6, <1>7, <1>9, <1>10, <1>11 DEF DigestInv

LEMMA DigestKeeps == DigestInv /\ [DigestNext]_digestVars => DigestInv'
PROOF
  <1> SUFFICES ASSUME DigestInv, [DigestNext]_digestVars PROVE DigestInv'
    OBVIOUS
  <1>1. ASSUME NEW r \in Runs, StartRun(r) PROVE DigestInv'
    BY <1>1, StartKeeps
  <1>2. ASSUME NEW r \in Runs, List(r) PROVE DigestInv'
    BY <1>2, ListKeeps
  <1>3. ASSUME NEW r \in Runs, Restore(r) PROVE DigestInv'
    BY <1>3, RestoreKeeps
  <1>4. ASSUME NEW r \in Runs, RestoreFails(r) PROVE DigestInv'
    BY <1>4, RestoreFailsKeeps
  <1>5. ASSUME NEW r \in Runs, Stop(r) PROVE DigestInv'
    BY <1>5, StopKeeps
  <1>6. ASSUME NEW r \in Runs, NEW u \in Users, Claim(r, u) PROVE DigestInv'
    BY <1>6, ClaimKeeps
  <1>7. ASSUME NEW r \in Runs, NEW u \in Users, Skip(r, u) PROVE DigestInv'
    BY <1>7, SkipKeeps
  <1>8. ASSUME NEW r \in Runs, NEW b \in BOOLEAN, SendDigest(r, b) PROVE DigestInv'
    BY <1>8, SendKeeps
  <1>9. ASSUME NEW r \in Runs, NEW b \in BOOLEAN, SendFails(r, b) PROVE DigestInv'
    BY <1>9, FailKeeps
  <1>10. CASE Night
    BY <1>10, NightKeeps
  <1>11. CASE UNCHANGED digestVars
    BY <1>11 DEF digestVars, DigestInv, DigestTypeOK, Past, Holding, Settled, Claimed, HolderFits,
                 HoldersApart, Sent, OncePerDay, MarkedIsServed, Served
  <1> QED
    BY <1>1, <1>2, <1>3, <1>4, <1>5, <1>6, <1>7, <1>8, <1>9, <1>10, <1>11 DEF DigestNext
=============================================================================
