------------------------------- MODULE Digest -------------------------------
(***************************************************************************)
(* The daily digest.  A run lists the users and goes through them: it      *)
(* claims the day for a user with one conditional update of                *)
(* lastDigestSentAt, builds the digest, sends it unless it is empty, and   *)
(* puts the old mark back when that fails.  Two triggers start runs (the   *)
(* cron of the process and a workflow outside), so runs overlap.           *)
(*                                                                         *)
(* Time is a number that every run takes one tick of, so that the "now" of *)
(* two runs differ; a day is DayLength ticks.                              *)
(***************************************************************************)
EXTENDS Naturals

CONSTANTS
    Users,      \* users with the digest enabled and a verified address
    Runs,       \* runs in flight at once
    None,       \* no user
    DayLength,  \* ticks of a day
    LastTick     \* bound: the last tick

ASSUME DigestAssumption ==
    None \notin Users /\ DayLength \in Nat \ {0} /\ LastTick \in Nat /\ DayLength <= LastTick

VARIABLES
    time,     \* the clock
    mark,     \* User.lastDigestSentAt; 0 for null
    runs,     \* the runs in flight
    mails,    \* history: the digests received, by user and day of the run
    settled,  \* history: user and day of the runs that sent or had nothing to send
    doubtful, \* history: user and day of mails that went out though sending failed
    dropped,  \* history: users whose claim was never followed up
    stale     \* history: users whose mark was put back to that of an unfinished run,
              \* or to another than the claim had replaced

digestVars == <<time, mark, runs, mails, settled, doubtful, dropped, stale>>

Times == 0 .. LastTick
Day(t) == t \div DayLength
Days == {Day(t) : t \in Times}

\* gununBaslangiciUTC.
DayStart(t) == Day(t) * DayLength

RunPhases == {"idle", "started", "loop", "claimed", "failed"}
NoRun == [phase |-> "idle", now |-> 0, todo |-> {}, user |-> None,
         read |-> [u \in Users |-> 0], found |-> 0]
Run == [phase: RunPhases, now: Times, todo: SUBSET Users, user: Users \cup {None},
        read: [Users -> Times],  \* the marks as listed
        found: Times]            \* history: the mark the claim replaced

----------------------------------------------------------------------------
\* runDailyDigest: now, then the list of users with their marks.
StartRun(r) ==
    /\ runs[r].phase = "idle"
    /\ time < LastTick
    /\ time' = time + 1
    /\ runs' = [runs EXCEPT ![r].phase = "started", ![r].now = time]
    /\ UNCHANGED <<mark, mails, settled, doubtful, dropped, stale>>

List(r) ==
    /\ runs[r].phase = "started"
    /\ runs' = [runs EXCEPT ![r].phase = "loop", ![r].todo = Users,
                            ![r].read = mark]
    /\ UNCHANGED <<time, mark, mails, settled, doubtful, dropped, stale>>

\* The conditional update: the mark is of an earlier day, or null.
MutantClaimable(r, u) == runs[r].read[u] < DayStart(runs[r].now)

Claimable(r, u) == mark[u] < DayStart(runs[r].now)

Claim(r, u) ==
    /\ runs[r].phase = "loop"
    /\ u \in runs[r].todo
    /\ Claimable(r, u)
    /\ mark' = [mark EXCEPT ![u] = runs[r].now]
    /\ runs' = [runs EXCEPT ![r].phase = "claimed", ![r].user = u,
                            ![r].todo = @ \ {u}, ![r].found = mark[u]]
    /\ UNCHANGED <<time, mails, settled, doubtful, dropped, stale>>

Skip(r, u) ==
    /\ runs[r].phase = "loop"
    /\ u \in runs[r].todo
    /\ ~Claimable(r, u)
    /\ runs' = [runs EXCEPT ![r].todo = @ \ {u}]
    /\ UNCHANGED <<time, mark, mails, settled, doubtful, dropped, stale>>

\* Run r is done with its user, or altogether.
Proceed(r) == runs' = [runs EXCEPT ![r].phase = "loop", ![r].user = None]

Today(r) == <<runs[r].user, Day(runs[r].now)>>

\* buildDigest and sendDailyDigestEmail return: the mail is out, or the digest
\* was empty and there is none.
SendDigest(r, empty) ==
    /\ runs[r].phase = "claimed"
    /\ mails' = IF empty THEN mails ELSE [mails EXCEPT ![Today(r)] = @ + 1]
    /\ settled' = settled \cup {Today(r)}
    /\ Proceed(r)
    /\ UNCHANGED <<time, mark, doubtful, dropped, stale>>

\* One of them throws.  The mail may be out all the same.
SendFails(r, out) ==
    /\ runs[r].phase = "claimed"
    /\ mails' = IF out THEN [mails EXCEPT ![Today(r)] = @ + 1] ELSE mails
    /\ doubtful' = IF out THEN doubtful \cup {Today(r)} ELSE doubtful
    /\ runs' = [runs EXCEPT ![r].phase = "failed"]
    /\ UNCHANGED <<time, mark, settled, dropped, stale>>

\* Nothing is owed to user u for the day of mark t.
Served(u, t) == t = 0 \/ <<u, Day(t)>> \in settled

\* The catch: the mark listed at the start of the run is put back, if the mark
\* is still that of this run.
MutantRestore(r) ==
    /\ runs[r].phase = "failed"
    /\ Proceed(r)
    /\ UNCHANGED <<time, mark, mails, settled, doubtful, dropped, stale>>

Restore(r) ==
    /\ runs[r].phase = "failed"
    /\ LET u   == runs[r].user
           old == runs[r].read[u]
       IN IF mark[u] = runs[r].now
          THEN /\ mark' = [mark EXCEPT ![u] = old]
               /\ stale' = IF old = runs[r].found /\ Served(u, old)
                           THEN stale ELSE stale \cup {u}
          ELSE UNCHANGED <<mark, stale>>
    /\ Proceed(r)
    /\ UNCHANGED <<time, mails, settled, doubtful, dropped>>

\* The list is through, or the process stops; the update of the catch may fail
\* too, and the run goes on.
Stop(r) ==
    /\ runs[r].phase # "idle"
    /\ runs' = [runs EXCEPT ![r] = NoRun]
    /\ dropped' = IF runs[r].user = None THEN dropped ELSE dropped \cup {runs[r].user}
    /\ UNCHANGED <<time, mark, mails, settled, doubtful, stale>>

RestoreFails(r) ==
    /\ runs[r].phase = "failed"
    /\ dropped' = dropped \cup {runs[r].user}
    /\ Proceed(r)
    /\ UNCHANGED <<time, mark, mails, settled, doubtful, stale>>

Night ==
    /\ DayStart(time) + DayLength <= LastTick
    /\ time' = DayStart(time) + DayLength
    /\ UNCHANGED <<mark, runs, mails, settled, doubtful, dropped, stale>>

----------------------------------------------------------------------------
\* The clock starts on day 1: every mark is later than null.
DigestInit ==
    /\ time = DayLength
    /\ mark = [u \in Users |-> 0]
    /\ runs = [r \in Runs |-> NoRun]
    /\ mails = [d \in Users \X Days |-> 0]
    /\ settled = {} /\ doubtful = {} /\ dropped = {} /\ stale = {}

DigestNext ==
    \/ \E r \in Runs :
        \/ StartRun(r) \/ List(r) \/ Restore(r) \/ RestoreFails(r) \/ Stop(r)
        \/ \E u \in Users : Claim(r, u) \/ Skip(r, u)
        \/ \E b \in BOOLEAN : SendDigest(r, b) \/ SendFails(r, b)
    \/ Night

----------------------------------------------------------------------------
(* Properties.                                                             *)

\* Types; no mark comes from the future.
DigestTypeOK ==
    /\ time \in Times
    /\ mark \in [Users -> Times]
    /\ runs \in [Runs -> Run]
    /\ mails \in [Users \X Days -> Nat]
    /\ settled \subseteq Users \X Days
    /\ doubtful \subseteq Users \X Days
    /\ dropped \cup stale \subseteq Users
    /\ \A u \in Users : mark[u] < time \/ mark[u] = 0

\* A user whose day is claimed by a run.
Claimed(r, u) == runs[r].phase \in {"claimed", "failed"} /\ runs[r].user = u

\* digest.service, cron.ts: runs that overlap send no user two digests for one
\* day, unless a mail went out though sending it failed, or a run that failed
\* put back a mark that was out of date.
OncePerDay ==
    \A d \in DOMAIN mails :
        d \notin doubtful /\ d[1] \notin stale => mails[d] <= 1

\* A user marked for a day is being served, or was, or had nothing to be told:
\* a failure leaves the day to the next run.  The exceptions are a run that
\* stopped and a mark put back that another run had only claimed.
MarkedIsServed ==
    \A u \in Users \ (dropped \cup stale) :
        \/ Served(u, mark[u])
        \/ \E r \in Runs : Claimed(r, u) /\ runs[r].now = mark[u]

\* digest.service: when sending fails, the mark is put back and the day is not
\* lost to the user.
FailureKeepsTheDay ==
    \A u \in Users \ dropped :
        Served(u, mark[u]) \/ \E r \in Runs : Claimed(r, u)
=============================================================================
