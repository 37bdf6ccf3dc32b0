------------------------------- MODULE Intake -------------------------------
(***************************************************************************)
(* What a request meets before its service is called, all of it in maps in *)
(* the memory of the process: the counters of the rate limits, the lock of *)
(* an account after failed logins, and the records that keep a request     *)
(* from being worked on twice at the same time.                            *)
(*                                                                         *)
(* Time passes in ticks of ten seconds.  A request that is being worked on *)
(* may take any time.  The sweeps and the delayed deletes are timers: they *)
(* run when their time has come, before anything else of that tick.        *)
(***************************************************************************)
EXTENDS Naturals, FiniteSets

CONSTANTS
    Slots,      \* requests at work at a time
    Keys,       \* idempotency keys: a user, a path and the hash of a body
    Callers,    \* whom the counters of the rate limits belong to
    Absent,     \* no bucket, no record
    Window,     \* AUTH_WINDOW_MS and the other windows, in ticks
    MaxCalls,   \* MAX_ATTEMPTS and the other maxima
    MaxFailures,\* ACCOUNT_MAX_ATTEMPTS
    SweepEvery, \* both the age and the interval of the sweep of records: 30 s
    DoneDelay,  \* how long a record that is done is kept: 10 s
    MaxTime     \* bound: ticks

ASSUME IntakeAssumption ==
    /\ IsFiniteSet(Slots)
    /\ Absent \notin [status: {"processing", "done"}, at: Nat]
    /\ MaxCalls \in Nat \ {0} /\ MaxFailures \in Nat \ {0}
    /\ Window \in Nat \ {0} /\ SweepEvery \in Nat \ {0} /\ DoneDelay \in Nat /\ MaxTime \in Nat

VARIABLES
    now,
    bucket,  \* attempts: by caller, a count and when it starts again
    lock,    \* the bucket of the account: failed logins, counted otherwise
    record,  \* store of the idempotency records, by key
    timers,  \* the delayed deletes under way: a key and a time
    work,    \* by slot, what the request at work there is
    passed,  \* history: by caller, how many calls got through in the current bucket
    overrun  \* history: keys a record of which was swept while its request was at work

intakeVars == <<now, bucket, lock, record, timers, work, passed, overrun>>

Free == [kind |-> "free", key |-> Absent]
Working(key) == {s \in Slots : work[s].kind = "write" /\ work[s].key = key}
LoggingIn == {s \in Slots : work[s].kind = "login"}

\* A bucket counts until its end, the end included.
Counting(b) == b # Absent /\ now <= b.resetAt

----------------------------------------------------------------------------
(* consume: one call of caller c, let through or not.  A bucket that is over *)
(* is replaced by a new one.                                                *)
Count(c) ==
    bucket' = [bucket EXCEPT ![c] = IF Counting(@)
                                    THEN [count |-> @.count + 1, resetAt |-> @.resetAt]
                                    ELSE [count |-> 1, resetAt |-> now + Window]]

LetsThrough(c) == Counting(bucket[c]) => bucket[c].count < MaxCalls

Consume(c) ==
    /\ Count(c)
    /\ passed' = [passed EXCEPT ![c] = IF ~Counting(bucket[c]) THEN 1
                                       ELSE IF LetsThrough(c) THEN @ + 1 ELSE @]

\* Turned away: counted all the same.  The count is capped, it no longer matters.
TurnAway(c) ==
    /\ ~LetsThrough(c)
    /\ bucket[c].count < MaxCalls + 1
    /\ Consume(c)
    /\ UNCHANGED <<now, lock, record, timers, work, overrun>>

----------------------------------------------------------------------------
(* A request with an idempotency key: checkIdempotency, the service, and    *)
(* clearIdempotency or failIdempotency.                                     *)

Begin(s, key, c) ==
    /\ work[s] = Free
    /\ LetsThrough(c) /\ Consume(c)
    /\ record[key] # Absent => record[key].status = "done"
    /\ record' = [record EXCEPT ![key] = [status |-> "processing", at |-> now]]
    /\ work' = [work EXCEPT ![s] = [kind |-> "write", key |-> key]]
    /\ UNCHANGED <<now, lock, timers, overrun>>

\* The service is done: the record of the key, whoever wrote it, no longer blocks.
Finish(s) ==
    /\ work[s].kind = "write"
    /\ LET key == work[s].key IN
        IF record[key] = Absent THEN UNCHANGED <<record, timers>>
        ELSE /\ record' = [record EXCEPT ![key].status = "done"]
             /\ timers' = timers \cup {<<key, now + DoneDelay>>}
    /\ work' = [work EXCEPT ![s] = Free]
    /\ UNCHANGED <<now, bucket, lock, passed, overrun>>

\* The service throws: the record goes.
Throw(s) ==
    /\ work[s].kind = "write"
    /\ record' = [record EXCEPT ![work[s].key] = Absent]
    /\ work' = [work EXCEPT ![s] = Free]
    /\ UNCHANGED <<now, bucket, lock, timers, passed, overrun>>

----------------------------------------------------------------------------
(* A login: the counter of the caller, the lock of the account, and then the *)
(* comparison of the password, which takes its time.                        *)

\* checkAccountRateLimit
Locked == Counting(lock) /\ lock.count >= MaxFailures

Login(s, c) ==
    /\ work[s] = Free
    /\ LetsThrough(c) /\ Consume(c)
    /\ ~Locked
    /\ work' = [work EXCEPT ![s] = [kind |-> "login", key |-> Absent]]
    /\ UNCHANGED <<now, lock, record, timers, overrun>>

\* recordAccountFailure: the window begins with the first failure.
LoginFails(s) ==
    /\ s \in LoggingIn
    /\ lock' = IF Counting(lock) THEN [lock EXCEPT !.count = @ + 1]
               ELSE [count |-> 1, resetAt |-> now + Window]
    /\ work' = [work EXCEPT ![s] = Free]
    /\ UNCHANGED <<now, bucket, record, timers, passed, overrun>>

\* clearAccountFailures
LoginSucceeds(s) ==
    /\ s \in LoggingIn
    /\ lock' = Absent
    /\ work' = [work EXCEPT ![s] = Free]
    /\ UNCHANGED <<now, bucket, record, timers, passed, overrun>>

----------------------------------------------------------------------------
(* The timers.                                                             *)

\* The delayed delete takes any record of its key.
MutantDeletes(key) == TRUE

\* It takes the record only when it is done, not that of a new request.
Deletes(key) == record[key] # Absent /\ record[key].status = "done"

\* Both timers of a moment: deletes that are due, and the sweep of old records.
Due(t) == {key \in Keys : <<key, t>> \in timers /\ Deletes(key)}
Old(t) == IF t % SweepEvery # 0 THEN {}
          ELSE {key \in Keys : record[key] # Absent /\ t - record[key].at > SweepEvery}

\* The sweep of the buckets: what is over is as good as not there.
Kept(b, t) == IF b # Absent /\ t > b.resetAt THEN Absent ELSE b

Tick ==
    /\ now < MaxTime
    /\ now' = now + 1
    /\ LET out == Due(now + 1) \cup Old(now + 1) IN
        /\ record' = [key \in Keys |-> IF key \in out THEN Absent ELSE record[key]]
        /\ overrun' = overrun \cup {key \in Old(now + 1) :
                            record[key].status = "processing" /\ Working(key) # {}}
    /\ timers' = {t \in timers : t[2] > now + 1}
    /\ bucket' = [c \in Callers |-> Kept(bucket[c], now + 1)]
    /\ lock' = Kept(lock, now + 1)
    /\ passed' = [c \in Callers |-> IF Kept(bucket[c], now + 1) = Absent THEN 0 ELSE passed[c]]
    /\ UNCHANGED work

IntakeInit ==
    /\ now = 0
    /\ bucket = [c \in Callers |-> Absent] /\ lock = Absent
    /\ record = [key \in Keys |-> Absent]
    /\ timers = {}
    /\ work = [s \in Slots |-> Free]
    /\ passed = [c \in Callers |-> 0]
    /\ overrun = {}

IntakeNext ==
    \/ Tick
    \/ \E c \in Callers : TurnAway(c)
    \/ \E s \in Slots, c \in Callers : Login(s, c) \/ \E key \in Keys : Begin(s, key, c)
    \/ \E s \in Slots : Finish(s) \/ Throw(s) \/ LoginFails(s) \/ LoginSucceeds(s)

----------------------------------------------------------------------------
Buckets == [count: Nat \ {0}, resetAt: Nat]

(* Types; what got through in one bucket never exceeds the maximum, and      *)
(* failures counted and comparisons running together exceed theirs by at     *)
(* most the logins that had passed the check before.                        *)
IntakeTypeOK ==
    /\ now \in 0 .. MaxTime
    /\ \A c \in Callers : bucket[c] = Absent \/ bucket[c] \in Buckets
    /\ lock = Absent \/ lock \in Buckets
    /\ \A key \in Keys : record[key] = Absent
                         \/ record[key] \in [status: {"processing", "done"}, at: 0 .. now]
    /\ timers \subseteq Keys \X Nat
    /\ work \in [Slots -> [kind: {"free", "write", "login"}, key: Keys \cup {Absent}]]
    /\ passed \in [Callers -> 0 .. MaxCalls]
    /\ overrun \subseteq Keys
    /\ Counting(lock) => lock.count + Cardinality(LoggingIn) < MaxFailures + Cardinality(Slots)

(* Two requests with one idempotency key are not worked on at the same time, *)
(* unless one of them took so long that its record was swept meanwhile; the  *)
(* timer left behind by an earlier request of the key changes nothing.       *)
OneAtATime ==
    \A key \in Keys : Cardinality(Working(key)) <= 1 \/ key \in overrun
=============================================================================
