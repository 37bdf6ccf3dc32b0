---------------------------- MODULE ServerProofs ----------------------------
(***************************************************************************)
(* The parts of the server share no variables, so what is an invariant of   *)
(* the steps of one part is an invariant of the server: first the parts one *)
(* by one, then the server.  For any number of requests, keys, callers,     *)
(* webhooks, events, cards, links and tokens, any size of a batch, any      *)
(* number of rounds and of tries, and whatever the delays of the timers.    *)
(***************************************************************************)
EXTENDS Server, DigestProofs, FiniteSetTheorems

----------------------------------------------------------------------------
(* Requests with one idempotency key.                                       *)

RecordsTyped ==
    /\ record \in [Keys -> {Absent} \cup [status: {"processing", "done"}, at: Nat]]
    /\ work \in [Slots -> [kind: {"free", "write", "login"}, key: Keys \cup {Absent}]]
    /\ \A s \in Slots : work[s].kind = "write" => work[s].key \in Keys
    /\ now \in Nat

Processing(key) == record[key] # Absent /\ record[key].status = "processing"

\* OneAtATime is not inductive: a second request is kept out by the record of the
\* first, which stays as it is until the first ends or a sweep takes it.
Guarded ==
    \A key \in Keys \ overrun :
        /\ Working(key) # {} => Processing(key)
        /\ \A s, t \in Working(key) : s = t

RecordInv == RecordsTyped /\ Guarded

LEMMA RecordsStart == IntakeInit => RecordInv
PROOF
  BY DEF IntakeInit, RecordInv, RecordsTyped, Guarded, Working, Free

\* What touches neither records nor requests that have one.
LEMMA OthersKeep ==
    ASSUME RecordInv, UNCHANGED <<now, record, overrun>>,
           \/ UNCHANGED work
           \/ \E s \in Slots, w \in {Free, [kind |-> "login", key |-> Absent]} :
                /\ work[s].kind # "write"
                /\ work' = [work EXCEPT ![s] = w]
    PROVE  RecordInv'
PROOF
  <1>1. work' \in [Slots -> [kind: {"free", "write", "login"}, key: Keys \cup {Absent}]]
    BY DEF RecordInv, RecordsTyped, Free
  <1>2. \A s \in Slots : work'[s].kind = "write" => work'[s] = work[s]
    BY DEF RecordInv, RecordsTyped, Free
  <1>3. \A key : Working(key)' \subseteq Working(key)
    BY <1>2 DEF Working
  <1> QED
    BY <1>1, <1>2, <1>3 DEF RecordInv, RecordsTyped, Guarded, Processing

\* A request begins on a key nobody is at work on, and marks its record.
LEMMA BeginKeeps ==
    ASSUME RecordInv, NEW s \in Slots, NEW k \in Keys, NEW c \in Callers, Begin(s, k, c)
    PROVE  RecordInv'
PROOF
  <1> DEFINE r == [status |-> "processing", at |-> now]
             w == [kind |-> "write", key |-> k]
  <1>1. /\ record[k] # Absent => record[k].status = "done"
        /\ record' = [record EXCEPT ![k] = r]
        /\ work' = [work EXCEPT ![s] = w]
        /\ UNCHANGED <<now, overrun>>
    BY DEF Begin
  <1>2. RecordsTyped'
    BY <1>1 DEF RecordInv, RecordsTyped
  <1>3. k \notin overrun => Working(k) = {}
    BY <1>1 DEF RecordInv, Guarded, Processing
  <1>4. /\ Working(k)' = Working(k) \cup {s}
        /\ \A key \in Keys : key # k => Working(key)' \subseteq Working(key)
    BY <1>1 DEF RecordInv, RecordsTyped, Working
  <1>5. /\ Processing(k)'
        /\ \A key \in Keys : key # k => (Processing(key) => Processing(key)')
    <2>1. r # Absent
      BY IntakeAssumption DEF IntakeAssumption, RecordInv, RecordsTyped
    <2> QED BY <1>1, <2>1 DEF RecordInv, RecordsTyped, Processing
  <1>6. Guarded'
    BY <1>1, <1>3, <1>4, <1>5 DEF RecordInv, Guarded
  <1> QED BY <1>2, <1>6 DEF RecordInv

\* It ends: the record, done or gone, keeps nobody out, and nobody is at work.
LEMMA EndKeeps ==
    ASSUME RecordInv, NEW s \in Slots, Finish(s) \/ Throw(s)
    PROVE  RecordInv'
PROOF
  <1> DEFINE k == work[s].key
  <1>1. /\ k \in Keys
        /\ work[s].kind = "write"
        /\ work' = [work EXCEPT ![s] = Free]
        /\ UNCHANGED <<now, overrun>>
    BY DEF Finish, Throw, RecordInv, RecordsTyped
  <1>2. \/ UNCHANGED record
        \/ record[k] # Absent /\ record' = [record EXCEPT ![k].status = "done"]
        \/ record' = [record EXCEPT ![k] = Absent]
    BY DEF Finish, Throw
  <1>3. record' \in [Keys -> {Absent} \cup [status: {"processing", "done"}, at: Nat]]
    BY <1>1, <1>2 DEF RecordInv, RecordsTyped
  <1>4. RecordsTyped'
    BY <1>1, <1>3 DEF RecordInv, RecordsTyped, Free
  <1>5. \A key \in Keys : Working(key)' = Working(key) \ {s}
    BY <1>1 DEF RecordInv, RecordsTyped, Working, Free
  <1>6. s \in Working(k)
    BY <1>1 DEF Working
  <1>7. \A key \in Keys : key # k => (Processing(key) => Processing(key)')
    BY <1>2 DEF RecordInv, RecordsTyped, Processing
  <1>8. Guarded'
    BY <1>1, <1>5, <1>6, <1>7 DEF RecordInv, Guarded
  <1> QED BY <1>4, <1>8 DEF RecordInv

\* The timers take the record of a request at work only in the sweep, and then it is
\* noted in overrun.
LEMMA TickKeeps ==
    ASSUME RecordInv, Tick
    PROVE  RecordInv'
PROOF
  <1> DEFINE out == Due(now + 1) \cup Old(now + 1)
  <1>1. /\ record' = [key \in Keys |-> IF key \in out THEN Absent ELSE record[key]]
        /\ overrun' = overrun \cup {key \in Old(now + 1) :
                            record[key].status = "processing" /\ Working(key) # {}}
        /\ now' = now + 1
        /\ UNCHANGED work
    BY DEF Tick
  <1>2. RecordsTyped'
    BY <1>1 DEF RecordInv, RecordsTyped
  <1>3. \A key : Working(key)' = Working(key)
    BY <1>1 DEF Working
  <1>4. ASSUME NEW key \in Keys \ overrun', Working(key) # {}
        PROVE  Processing(key)'
    <2>1. Processing(key)
      BY <1>1, <1>4 DEF RecordInv, Guarded
    <2>2. key \notin Due(now + 1)
      BY <2>1 DEF Due, Deletes, Processing
    <2>3. key \notin Old(now + 1)
      BY <1>1, <1>4, <2>1 DEF Processing
    <2> QED BY <1>1, <2>1, <2>2, <2>3 DEF Processing
  <1>5. Guarded'
    BY <1>1, <1>3, <1>4 DEF RecordInv, Guarded
  <1> QED BY <1>2, <1>5 DEF RecordInv

LEMMA RecordKeeps == RecordInv /\ [IntakeNext]_intakeVars => RecordInv'
PROOF
  <1> SUFFICES ASSUME RecordInv, [IntakeNext]_intakeVars PROVE RecordInv'
    OBVIOUS
  <1>1. CASE UNCHANGED intakeVars
    BY <1>1, OthersKeep DEF intakeVars
  <1>2. ASSUME NEW c \in Callers, TurnAway(c) PROVE RecordInv'
    BY <1>2, OthersKeep DEF TurnAway
  <1>3. ASSUME NEW s \in Slots, NEW c \in Callers, Login(s, c) PROVE RecordInv'
    <2> DEFINE w == [kind |-> "login", key |-> Absent]
    <2>1. work[s].kind # "write" /\ work' = [work EXCEPT ![s] = w]
      BY <1>3 DEF Login, Free
    <2>2. UNCHANGED <<now, record, overrun>>
      BY <1>3 DEF Login
    <2> QED BY <2>1, <2>2, OthersKeep
  <1>4. ASSUME NEW s \in Slots, LoginFails(s) \/ LoginSucceeds(s) PROVE RecordInv'
    <2>1. work[s].kind # "write" /\ work' = [work EXCEPT ![s] = Free]
      BY <1>4 DEF LoginFails, LoginSucceeds, LoggingIn
    <2> QED BY <1>4, <2>1, OthersKeep DEF LoginFails, LoginSucceeds
  <1> QED
    BY <1>1, <1>2, <1>3, <1>4, TickKeeps, BeginKeeps, EndKeeps DEF IntakeNext

\* What no two of are at work on counts at most one.
LEMMA AtMostOne ==
    ASSUME NEW key, \A s, t \in Working(key) : s = t
    PROVE  Cardinality(Working(key)) <= 1
PROOF
  <1>1. CASE Working(key) = {}
    BY <1>1, FS_EmptySet
  <1>2. CASE Working(key) # {}
    <2>1. PICK s \in Working(key) : TRUE
      BY <1>2
    <2>2. Working(key) = {s}
      BY <2>1
    <2>3. Cardinality(Working(key)) = 1
      BY <2>2, FS_Singleton
    <2> QED BY <2>3
  <1> QED BY <1>1, <1>2

LEMMA RecordsGuard == RecordInv => OneAtATime
PROOF
  BY AtMostOne DEF RecordInv, Guarded, OneAtATime

----------------------------------------------------------------------------
(* The assistant.                                                           *)

TalkTyped == talk \in Talk \cup {Silent, Over}

\* While a call is under way no tool is, and it is shown what has been done,
\* unless a call was repeated without that.
Shown ==
    talk.phase = "ask" =>
        /\ talk.running = {}
        /\ ~forgot => talk.sees = talk.memory

\* What the tools are asked for, running or waiting, has not been done.
Fresh ==
    talk.phase = "run" =>
        /\ talk.running \cap talk.todo = {}
        /\ ~forgot => talk.memory \cap (talk.running \cup talk.todo) = {}

TalkInv == TalkTyped /\ forgot \in BOOLEAN /\ Shown /\ Fresh /\ DoneOnce

\* The request is idle, at work or over, and its phase tells which.
LEMMA Phases ==
    ASSUME TalkTyped
    PROVE  talk.phase \in {"ask", "run"} => talk \in Talk
PROOF
  BY DEF TalkTyped, Silent, Over

\* A first attempt is within the bound, and so is the round after one that was
\* not the last.
LEMMA Counts ==
    /\ 1 \in 1 .. MaxAttempts
    /\ \A n \in 0 .. MaxRounds - 1 : n # MaxRounds - 1 => n + 1 \in 0 .. MaxRounds - 1
PROOF
  <1>1. MaxAttempts \in Nat \ {0} /\ MaxRounds \in Nat \ {0}
    BY AssistantAssumption DEF AssistantAssumption
  <1> QED BY <1>1

\* Nothing is done before the request comes.
LEMMA TalkStarts == AssistantInit => TalkInv
PROOF
  <1> SUFFICES ASSUME AssistantInit PROVE TalkInv
    OBVIOUS
  <1>1. talk = Silent /\ talk.phase = "idle"
    BY DEF AssistantInit, Silent
  <1>2. again = {} /\ forgot = FALSE
    BY DEF AssistantInit
  <1>3. TalkTyped
    BY <1>1 DEF TalkTyped
  <1> QED
    BY <1>1, <1>2, <1>3 DEF TalkInv, Shown, Fresh, DoneOnce

\* A request that begins has done nothing and seen nothing.
LEMMA AskKeeps ==
    ASSUME TalkInv, NEW kind \in TalkKinds, NEW p \in Providers,
           NEW offered \in SUBSET Wishes, Ask(kind, p, offered)
    PROVE  TalkInv'
PROOF
  <1>1. talk' \in Talk
    BY Counts, AssistantAssumption DEF AssistantAssumption, Ask, Talk
  <1>2. /\ talk'.phase = "ask" /\ talk'.sees = {} /\ talk'.memory = {}
        /\ talk'.running = {}
    BY DEF Ask
  <1>3. UNCHANGED <<again, forgot>>
    BY DEF Ask
  <1> QED
    BY <1>1, <1>2, <1>3 DEF TalkInv, TalkTyped, Shown, Fresh, DoneOnce

\* What ends a request does nothing.
LEMMA OverKeeps ==
    ASSUME TalkInv, talk' = Over, UNCHANGED <<again, forgot>>
    PROVE  TalkInv'
PROOF
  <1>1. talk'.phase = "over"
    BY DEF Over
  <1> QED
    BY <1>1 DEF TalkInv, TalkTyped, Shown, Fresh, DoneOnce

\* So does what changes only counters of it.
LEMMA SameKeeps ==
    ASSUME TalkInv, talk \in Talk, talk' \in Talk, UNCHANGED <<again, forgot>>,
           talk'.phase = talk.phase, talk'.sees = talk.sees, talk'.memory = talk.memory,
           talk'.todo = talk.todo, talk'.running = talk.running
    PROVE  TalkInv'
PROOF
  BY DEF TalkInv, TalkTyped, Shown, Fresh, DoneOnce

\* The calls of a reply are about what was not shown to be done.
LEMMA CallsKeep ==
    ASSUME TalkInv, NEW W \in SUBSET Wishes, Answered, Called(W)
    PROVE  TalkInv'
PROOF
  <1>1. talk \in Talk /\ talk.phase = "ask"
    BY Phases DEF Answered, TalkInv
  <1>2. talk' = [talk EXCEPT !.phase = "run", !.asked = W, !.todo = W]
    BY DEF Called
  <1>3. talk' \in Talk
    BY <1>1, <1>2 DEF Talk
  <1>4. /\ talk'.phase = "run" /\ talk'.todo = W
        /\ talk'.memory = talk.memory /\ talk'.running = talk.running
    BY <1>1, <1>2 DEF Talk
  <1>5. UNCHANGED <<again, forgot>> /\ W \cap talk.sees = {}
    BY DEF Answered, Called
  <1> QED
    BY <1>1, <1>3, <1>4, <1>5 DEF TalkInv, TalkTyped, Shown, Fresh, DoneOnce

\* Only the repetition of a chat of its own forgets, and says so.
LEMMA ErrorKeeps ==
    ASSUME TalkInv, ErrorReply
    PROVE  TalkInv'
PROOF
  <1>1. talk \in Talk /\ talk.phase = "ask"
    BY Phases DEF ErrorReply, Answered, TalkInv
  <1>2. UNCHANGED again
    BY DEF ErrorReply, Answered
  <1>3. CASE talk' = Over /\ UNCHANGED forgot
    BY <1>2, <1>3, OverKeeps
  <1>4. CASE /\ talk' = [talk EXCEPT !.retried = TRUE, !.attempt = 1, !.sees = {}]
             /\ forgot' = (forgot \/ talk.sees # {})
    <2>1. talk' \in Talk
      BY <1>1, <1>4, Counts DEF Talk
    <2>2. /\ talk'.phase = "ask" /\ talk'.sees = {}
          /\ talk'.memory = talk.memory /\ talk'.running = talk.running
      BY <1>1, <1>4 DEF Talk
    <2>3. talk.running = {} /\ (~forgot => talk.sees = talk.memory)
      BY <1>1 DEF TalkInv, Shown
    <2>4. forgot \in BOOLEAN /\ (again = {} \/ forgot)
      BY DEF TalkInv, DoneOnce
    <2>5. CASE talk.sees = {}
      <3>1. forgot' = forgot
        BY <1>4, <2>4, <2>5
      <3> QED
        BY <1>2, <2>1, <2>2, <2>3, <2>4, <2>5, <3>1
        DEF TalkInv, TalkTyped, Shown, Fresh, DoneOnce
    <2>6. CASE talk.sees # {}
      <3>1. forgot' = TRUE
        BY <1>4, <2>6
      <3> QED
        BY <2>1, <2>2, <2>3, <3>1 DEF TalkInv, TalkTyped, Shown, Fresh, DoneOnce
    <2> QED BY <2>5, <2>6
  <1> QED BY <1>3, <1>4 DEF ErrorReply

\* A provider that limits its calls or fails does nothing.
LEMMA RepeatKeeps ==
    ASSUME TalkInv, Limited \/ CallFails
    PROVE  TalkInv'
PROOF
  <1>1. talk \in Talk /\ talk.phase = "ask"
    BY Phases DEF Limited, CallFails, Answered, TalkInv
  <1>2. UNCHANGED <<again, forgot>>
    BY DEF Limited, CallFails, Answered
  <1>3. \/ talk' = Over
        \/ talk' = [talk EXCEPT !.attempt = @ + 1] /\ talk.attempt < MaxAttempts
        \/ talk' = [talk EXCEPT !.retried = TRUE, !.attempt = 1]
    BY DEF Limited, CallFails
  <1>4. CASE talk' = Over
    BY <1>2, <1>4, OverKeeps
  <1>5. CASE talk' = [talk EXCEPT !.attempt = @ + 1] /\ talk.attempt < MaxAttempts
    <2>1. talk' \in Talk
      BY <1>1, <1>5, AssistantAssumption DEF Talk
    <2> QED
      BY <1>1, <1>2, <1>5, <2>1, SameKeeps DEF Talk
  <1>6. CASE talk' = [talk EXCEPT !.retried = TRUE, !.attempt = 1]
    <2>1. talk' \in Talk
      BY <1>1, <1>6, Counts DEF Talk
    <2> QED
      BY <1>1, <1>2, <1>6, <2>1, SameKeeps DEF Talk
  <1> QED BY <1>3, <1>4, <1>5, <1>6

\* A batch is part of what waits.
LEMMA BatchKeeps ==
    ASSUME TalkInv, NextBatch
    PROVE  TalkInv'
PROOF
  <1>1. talk \in Talk /\ talk.phase = "run" /\ talk.running = {}
    BY Phases DEF NextBatch, TalkInv
  <1>2. PICK B \in SUBSET talk.todo :
            talk' = [talk EXCEPT !.running = B, !.todo = @ \ B]
    BY DEF NextBatch
  <1>3. talk' \in Talk
    BY <1>1, <1>2 DEF Talk
  <1>4. /\ talk'.phase = "run" /\ talk'.memory = talk.memory
        /\ talk'.running = B /\ talk'.todo = talk.todo \ B
    BY <1>1, <1>2 DEF Talk
  <1>5. UNCHANGED <<again, forgot>>
    BY DEF NextBatch
  <1> QED
    BY <1>1, <1>3, <1>4, <1>5 DEF TalkInv, TalkTyped, Shown, Fresh, DoneOnce

\* A tool at work is not among what has been done, and is over when it is.
LEMMA ToolKeeps ==
    ASSUME TalkInv, NEW w \in Wishes, NEW result \in {"done", "failed", "thrown"},
           RunTool(w, result)
    PROVE  TalkInv'
PROOF
  <1>1. talk \in Talk /\ talk.phase = "run" /\ w \in talk.running
    BY Phases DEF RunTool, TalkInv
  <1>2. talk' = [talk EXCEPT !.running = @ \ {w},
                             !.memory = IF result = "done" THEN @ \cup {w} ELSE @]
    BY DEF RunTool
  <1>3. talk' \in Talk
    BY <1>1, <1>2 DEF Talk
  <1>4. /\ talk'.phase = "run" /\ talk'.todo = talk.todo
        /\ talk'.running = talk.running \ {w}
        /\ talk'.memory \in {talk.memory, talk.memory \cup {w}}
    BY <1>1, <1>2 DEF Talk
  <1>5. UNCHANGED forgot
    BY DEF RunTool
  <1>6. Fresh'
    BY <1>1, <1>4, <1>5 DEF TalkInv, Fresh
  <1>7. DoneOnce'
    <2>1. ~forgot => w \notin talk.memory /\ again = {}
      BY <1>1 DEF TalkInv, Fresh, DoneOnce
    <2> QED
      BY <1>5, <2>1 DEF RunTool, TalkInv, DoneOnce
  <1> QED
    BY <1>3, <1>4, <1>5, <1>6, <1>7 DEF TalkInv, TalkTyped, Shown

\* The next round is shown all that was done.
LEMMA RoundKeeps ==
    ASSUME TalkInv, RoundOver
    PROVE  TalkInv'
PROOF
  <1>1. talk \in Talk /\ talk.phase = "run" /\ talk.running = {}
    BY Phases DEF RoundOver, TalkInv
  <1>2. UNCHANGED <<again, forgot>>
    BY DEF RoundOver
  <1>3. CASE talk' = Over
    BY <1>2, <1>3, OverKeeps
  <1>4. CASE /\ talk.round # MaxRounds - 1
             /\ talk' = [talk EXCEPT !.phase = "ask", !.round = @ + 1, !.attempt = 1,
                                     !.sees = Remember, !.asked = {}]
    <2>1. talk' \in Talk
      BY <1>1, <1>4, Counts DEF Talk, Remember
    <2>2. /\ talk'.phase = "ask" /\ talk'.sees = talk.memory
          /\ talk'.memory = talk.memory /\ talk'.running = {}
      BY <1>1, <1>4 DEF Talk, Remember
    <2> QED
      BY <1>2, <2>1, <2>2 DEF TalkInv, TalkTyped, Shown, Fresh, DoneOnce
  <1> QED BY <1>3, <1>4 DEF RoundOver

\* The timer does nothing but note that it is late.
LEMMA TimerKeeps ==
    ASSUME TalkInv, TimeUp
    PROVE  TalkInv'
PROOF
  <1>1. talk \in Talk
    BY Phases DEF TimeUp, TalkInv
  <1>2. talk' = [talk EXCEPT !.late = TRUE] /\ UNCHANGED <<again, forgot>>
    BY DEF TimeUp
  <1>3. talk' \in Talk
    BY <1>1, <1>2 DEF Talk
  <1> QED
    BY <1>1, <1>2, <1>3, SameKeeps DEF Talk

\* Every step of the assistant keeps the invariant.
LEMMA TalkKeeps ==
    ASSUME TalkInv, [AssistantNext]_assistantVars
    PROVE  TalkInv'
PROOF
  <1>1. CASE UNCHANGED assistantVars
    BY <1>1 DEF assistantVars, TalkInv, TalkTyped, Shown, Fresh, DoneOnce
  <1>2. ASSUME NEW p \in Providers,
               \/ SendMessage(p) \/ GenerateCardDetails(p) \/ GenerateProjectInsights(p)
               \/ AskAboutPush(p) \/ TestConfiguration(p)
        PROVE  TalkInv'
    <2>1. PICK kind \in TalkKinds, offered \in SUBSET Wishes : Ask(kind, p, offered)
      BY <1>2 DEF SendMessage, GenerateCardDetails, GenerateProjectInsights, AskAboutPush,
                  TestConfiguration, TalkKinds, Offered
    <2> QED BY <2>1, AskKeeps
  <1>3. CASE AnsweredAtOnce \/ Aborted \/ TextReply
    BY <1>3, OverKeeps DEF AnsweredAtOnce, Aborted, TextReply, Answered
  <1>4. ASSUME NEW W \in SUBSET Wishes, OpenAICalls(W) \/ GeminiCalls(W)
        PROVE  TalkInv'
    BY <1>4, CallsKeep DEF OpenAICalls, GeminiCalls
  <1>5. CASE ErrorReply
    BY <1>5, ErrorKeeps
  <1>6. CASE OpenAILimited \/ GeminiLimited \/ CallFails
    BY <1>6, RepeatKeeps DEF OpenAILimited, GeminiLimited
  <1>7. CASE NextBatch
    BY <1>7, BatchKeeps
  <1>8. ASSUME NEW w \in Wishes, NEW result \in {"done", "failed", "thrown"},
               RunTool(w, result)
        PROVE  TalkInv'
    BY <1>8, ToolKeeps
  <1>9. CASE RoundOver
    BY <1>9, RoundKeeps
  <1>10. CASE TimeUp
    BY <1>10, TimerKeeps
  <1>11. CASE OfficeChanges
    BY <1>11 DEF OfficeChanges, TalkInv, TalkTyped, Shown, Fresh, DoneOnce
  <1> QED
    BY <1>1, <1>2, <1>3, <1>4, <1>5, <1>6, <1>7, <1>8, <1>9, <1>10, <1>11 DEF AssistantNext

----------------------------------------------------------------------------
(* Outgoing webhooks.                                                       *)

OutTyped ==
    /\ waiting \subseteq Deliveries
    /\ row \in [Deliveries -> [status: {"none", "PENDING", "SUCCESS", "FAILED", "gone"},
                               attempts: 0 .. MaxTries]]
    /\ worker \in [Deliveries -> [phase: {"off", "trying", "resting"},
                                  failures: 0 .. MaxTries - 1]]
    /\ arrived \in [Deliveries -> Nat] /\ unheard \in [Deliveries -> Nat]

\* DeliverySettled is not inductive: what keeps it is that a delivery starts once,
\* and that its worker writes a row nobody else writes, until one of its tries is heard.
RowFits(d) ==
    /\ d \in waiting => row[d].status = "none"
    /\ row[d].status = "none" => worker[d].phase = "off" /\ arrived[d] = 0 /\ unheard[d] = 0
    /\ worker[d].phase # "off" => row[d].status \in {"PENDING", "gone"} /\ arrived[d] = unheard[d]

RowTrue(d) ==
    /\ row[d].status = "SUCCESS" => arrived[d] > 0
    /\ row[d].status = "FAILED" => row[d].attempts = MaxTries
    /\ row[d].status = "PENDING" => worker[d].phase # "off" \/ d \in cut
    /\ arrived[d] <= unheard[d] + 1

OutInv == OutTyped /\ \A d \in Deliveries : RowFits(d) /\ RowTrue(d)

LEMMA OutStarts == DeliveryInit => OutInv
PROOF
  <1> SUFFICES ASSUME DeliveryInit PROVE OutInv
    OBVIOUS
  <1>1. MaxTries \in Nat \ {0} /\ 0 \in 0 .. MaxTries /\ 0 \in 0 .. MaxTries - 1
    BY DeliveryAssumption DEF DeliveryAssumption
  <1>2. OutTyped
    BY <1>1 DEF DeliveryInit, OutTyped
  <1>3. \A d \in Deliveries : RowFits(d) /\ RowTrue(d)
    BY DEF DeliveryInit, RowFits, RowTrue
  <1> QED BY <1>2, <1>3 DEF OutInv

\* A step on one delivery leaves the others as they are.
LEMMA OthersFit ==
    ASSUME OutInv, NEW x \in Deliveries,
           waiting' \subseteq waiting,
           row'[x] = row[x], worker'[x] = worker[x],
           arrived'[x] = arrived[x], unheard'[x] = unheard[x],
           x \in cut => x \in cut'
    PROVE  RowFits(x)' /\ RowTrue(x)'
PROOF
  <1>1. RowFits(x) /\ RowTrue(x)
    BY DEF OutInv
  <1> QED BY <1>1 DEF RowFits, RowTrue

LEMMA HookKeeps ==
    ASSUME OutInv, NEW h \in Hooks, DeleteHook(h)
    PROVE  OutInv'
PROOF
  <1>1. /\ row' = [d \in Deliveries |-> IF d[2] = h /\ row[d].status # "none"
                                        THEN [row[d] EXCEPT !.status = "gone"] ELSE row[d]]
        /\ UNCHANGED <<waiting, worker, arrived, unheard, cut>>
    BY DEF DeleteHook
  <1>2. OutTyped'
    BY <1>1 DEF OutInv, OutTyped
  <1>3. ASSUME NEW d \in Deliveries PROVE RowFits(d)' /\ RowTrue(d)'
    <2>1. CASE row'[d] = row[d]
      BY <1>1, <2>1, OthersFit
    <2>2. CASE row'[d] # row[d]
      <3>1. row[d].status # "none" /\ row'[d].status = "gone"
        BY <1>1, <2>2 DEF OutInv, OutTyped
      <3>2. RowFits(d) /\ RowTrue(d)
        BY DEF OutInv
      <3> QED BY <1>1, <3>1, <3>2 DEF RowFits, RowTrue
    <2> QED BY <2>1, <2>2
  <1> QED BY <1>2, <1>3 DEF OutInv

LEMMA DispatchKeeps ==
    ASSUME OutInv, NEW e \in OutEvents, Dispatch(e)
    PROVE  OutInv'
PROOF
  <1>1. /\ \A h \in Hooks : row[<<e, h>>].status = "none"
        /\ waiting' = waiting \cup {d \in Deliveries : d[1] = e /\ hooks[d[2]] = "active"}
        /\ UNCHANGED <<row, worker, arrived, unheard, cut>>
    BY DEF Dispatch
  <1>2. OutTyped'
    BY <1>1 DEF OutInv, OutTyped
  <1>3. \A d \in Deliveries : d \in waiting' => row[d].status = "none"
    BY <1>1 DEF OutInv, RowFits, Deliveries
  <1>4. \A d \in Deliveries : RowFits(d)' /\ RowTrue(d)'
    BY <1>1, <1>3 DEF OutInv, RowFits, RowTrue
  <1> QED BY <1>2, <1>4 DEF OutInv

LEMMA CreateKeeps ==
    ASSUME OutInv, NEW d \in Deliveries, Create(d)
    PROVE  OutInv'
PROOF
  <1>1. UNCHANGED <<arrived, unheard, cut>> /\ d \in waiting
    BY DEF Create
  <1>2. CASE hooks[d[2]] = "deleted"
    <2>1. waiting' \subseteq waiting /\ UNCHANGED <<row, worker>>
      BY <1>2 DEF Create
    <2>2. OutTyped'
      BY <1>1, <2>1 DEF OutInv, OutTyped
    <2> QED BY <1>1, <2>1, <2>2, OthersFit DEF OutInv
  <1>3. CASE hooks[d[2]] # "deleted"
    <2>1. /\ waiting' = waiting \ {d}
          /\ row' = [row EXCEPT ![d] = [status |-> "PENDING", attempts |-> 0]]
          /\ worker' = [worker EXCEPT ![d] = [phase |-> "trying", failures |-> 0]]
      BY <1>3 DEF Create
    <2>2. MaxTries \in Nat \ {0} /\ 0 \in 0 .. MaxTries /\ 0 \in 0 .. MaxTries - 1
      BY DeliveryAssumption DEF DeliveryAssumption
    <2>3. OutTyped'
      BY <1>1, <2>1, <2>2 DEF OutInv, OutTyped
    <2>4. \A x \in Deliveries : x # d => row'[x] = row[x] /\ worker'[x] = worker[x]
      BY <2>1 DEF OutInv, OutTyped
    <2>5. row'[d].status = "PENDING" /\ worker'[d].phase = "trying" /\ d \notin waiting'
      BY <2>1 DEF OutInv, OutTyped
    <2>6. arrived[d] = 0 /\ unheard[d] = 0
      BY <1>1 DEF OutInv, RowFits
    <2>7. RowFits(d)' /\ RowTrue(d)'
      BY <1>1, <2>5, <2>6 DEF RowFits, RowTrue
    <2> QED BY <1>1, <2>1, <2>3, <2>4, <2>7, OthersFit DEF OutInv
  <1> QED BY <1>2, <1>3

LEMMA SucceedKeeps ==
    ASSUME OutInv, NEW d \in Deliveries, Succeed(d)
    PROVE  OutInv'
PROOF
  <1>1. /\ worker[d].phase = "trying"
        /\ row' = [row EXCEPT ![d] = [status |-> "SUCCESS", attempts |-> worker[d].failures + 1]]
        /\ worker' = [worker EXCEPT ![d].phase = "off"]
        /\ arrived' = [arrived EXCEPT ![d] = @ + 1]
        /\ UNCHANGED <<waiting, unheard, cut>>
    BY DEF Succeed, Written, Stopped
  <1>2. worker[d].failures + 1 \in 0 .. MaxTries
    BY DeliveryAssumption DEF DeliveryAssumption, OutInv, OutTyped
  <1>3. OutTyped'
    BY <1>1, <1>2 DEF OutInv, OutTyped
  <1>4. /\ \A x \in Deliveries : x # d => row'[x] = row[x] /\ worker'[x] = worker[x]
        /\ \A x \in Deliveries : x # d => arrived'[x] = arrived[x]
    BY <1>1 DEF OutInv, OutTyped
  <1>5. /\ row'[d].status = "SUCCESS" /\ worker'[d].phase = "off"
        /\ arrived'[d] = arrived[d] + 1 /\ arrived[d] \in Nat /\ unheard[d] \in Nat
    BY <1>1 DEF OutInv, OutTyped
  <1>6. arrived[d] = unheard[d] /\ d \notin waiting
    BY <1>1 DEF OutInv, RowFits
  <1>7. RowFits(d)' /\ RowTrue(d)'
    BY <1>1, <1>5, <1>6 DEF RowFits, RowTrue
  <1> QED BY <1>1, <1>3, <1>4, <1>7, OthersFit DEF OutInv

LEMMA TryFails ==
    ASSUME OutInv, NEW d \in Deliveries, NEW got \in 0 .. 1, Fail(d, got)
    PROVE  OutInv'
PROOF
  <1> DEFINE n == worker[d].failures + 1
  <1>1. /\ worker[d].phase = "trying"
        /\ arrived' = [arrived EXCEPT ![d] = @ + got]
        /\ unheard' = [unheard EXCEPT ![d] = @ + got]
        /\ UNCHANGED waiting
    BY DEF Fail
  <1>2. /\ worker[d] \in [phase: {"off", "trying", "resting"}, failures: 0 .. MaxTries - 1]
        /\ MaxTries \in Nat \ {0}
    BY DeliveryAssumption DEF DeliveryAssumption, OutInv, OutTyped
  <1>3. n \in 1 .. MaxTries
    BY <1>2
  <1>6. arrived' \in [Deliveries -> Nat] /\ unheard' \in [Deliveries -> Nat]
    <2>1. /\ arrived \in [Deliveries -> Nat] /\ unheard \in [Deliveries -> Nat]
          /\ got \in Nat
      BY DEF OutInv, OutTyped
    <2>2. arrived[d] + got \in Nat /\ unheard[d] + got \in Nat
      BY <2>1
    <2> QED BY <1>1, <2>1, <2>2
  <1>4. CASE n < MaxTries
    <2>1. /\ worker' = [worker EXCEPT ![d] = [phase |-> "resting", failures |-> n]]
          /\ \/ row' = row
             \/ row' = [row EXCEPT ![d] = [status |-> row[d].status, attempts |-> n]]
          /\ cut' = cut
      BY <1>4 DEF Fail, Written
    <2>2. n \in 0 .. MaxTries - 1 /\ n \in 0 .. MaxTries
      BY <1>2, <1>3, <1>4
    <2>3. row' \in [Deliveries -> [status: {"none", "PENDING", "SUCCESS", "FAILED", "gone"},
                                   attempts: 0 .. MaxTries]]
      BY <2>1, <2>2 DEF OutInv, OutTyped
    <2>4. worker' \in [Deliveries -> [phase: {"off", "trying", "resting"},
                                      failures: 0 .. MaxTries - 1]]
      BY <2>1, <2>2 DEF OutInv, OutTyped
    <2>5. OutTyped'
      BY <1>1, <1>6, <2>3, <2>4 DEF OutInv, OutTyped
    <2>6. \A x \in Deliveries : x # d =>
              /\ row'[x] = row[x] /\ worker'[x] = worker[x]
              /\ arrived'[x] = arrived[x] /\ unheard'[x] = unheard[x]
      BY <1>1, <2>1 DEF OutInv, OutTyped
    <2>7. /\ row'[d].status = row[d].status /\ worker'[d].phase = "resting"
          /\ arrived'[d] = arrived[d] + got /\ unheard'[d] = unheard[d] + got
          /\ arrived[d] \in Nat /\ unheard[d] \in Nat
      BY <1>1, <2>1 DEF OutInv, OutTyped
    <2>8. arrived[d] = unheard[d] /\ d \notin waiting /\ row[d].status \in {"PENDING", "gone"}
      BY <1>1 DEF OutInv, RowFits
    <2>9. RowFits(d)' /\ RowTrue(d)'
      BY <1>1, <2>7, <2>8 DEF RowFits, RowTrue
    <2> QED BY <1>1, <2>1, <2>5, <2>6, <2>9, OthersFit DEF OutInv
  <1>5. CASE ~(n < MaxTries)
    <2>1. /\ worker' = [worker EXCEPT ![d].phase = "off"]
          /\ \/ row' = [row EXCEPT ![d] = [status |-> "FAILED", attempts |-> n]] /\ cut' = cut
             \/ row' = row /\ cut' = cut \cup {d}
      BY <1>5 DEF Fail, Written, Stopped
    <2>2. n = MaxTries /\ n \in 0 .. MaxTries
      BY <1>2, <1>3, <1>5
    <2>3. row' \in [Deliveries -> [status: {"none", "PENDING", "SUCCESS", "FAILED", "gone"},
                                   attempts: 0 .. MaxTries]]
      BY <2>1, <2>2 DEF OutInv, OutTyped
    <2>4. OutTyped'
      BY <1>1, <1>6, <2>1, <2>3 DEF OutInv, OutTyped
    <2>5. \A x \in Deliveries : x # d =>
              /\ row'[x] = row[x] /\ worker'[x] = worker[x]
              /\ arrived'[x] = arrived[x] /\ unheard'[x] = unheard[x]
      BY <1>1, <2>1 DEF OutInv, OutTyped
    <2>6. /\ \/ row'[d].status = "FAILED" /\ row'[d].attempts = n
             \/ row'[d] = row[d] /\ d \in cut'
          /\ worker'[d].phase = "off"
          /\ arrived'[d] = arrived[d] + got /\ unheard'[d] = unheard[d] + got
          /\ arrived[d] \in Nat /\ unheard[d] \in Nat
      BY <1>1, <2>1 DEF OutInv, OutTyped
    <2>7. arrived[d] = unheard[d] /\ d \notin waiting /\ row[d].status \in {"PENDING", "gone"}
      BY <1>1 DEF OutInv, RowFits
    <2>8. RowFits(d)' /\ RowTrue(d)'
      BY <1>1, <2>2, <2>6, <2>7 DEF RowFits, RowTrue
    <2> QED BY <1>1, <2>1, <2>4, <2>5, <2>8, OthersFit DEF OutInv
  <1> QED BY <1>4, <1>5

LEMMA WorkerKeeps ==
    ASSUME OutInv, \/ Restart
                   \/ \E d \in Deliveries : Retry(d)
    PROVE  OutInv'
PROOF
  <1>1. CASE Restart
    <2>1. /\ worker' = [d \in Deliveries |-> [worker[d] EXCEPT !.phase = "off"]]
          /\ cut' = cut \cup {d \in Deliveries : worker[d].phase # "off"}
          /\ waiting' = {}
          /\ UNCHANGED <<row, arrived, unheard>>
      BY <1>1 DEF Restart
    <2>2. OutTyped'
      BY <2>1 DEF OutInv, OutTyped
    <2>3. \A d \in Deliveries : worker'[d].phase = "off"
      BY <2>1 DEF OutInv, OutTyped
    <2>4. \A d \in Deliveries : RowFits(d)' /\ RowTrue(d)'
      BY <2>1, <2>3 DEF OutInv, RowFits, RowTrue
    <2> QED BY <2>2, <2>4 DEF OutInv
  <1>2. ASSUME NEW d \in Deliveries, Retry(d) PROVE OutInv'
    <2>1. /\ worker[d].phase = "resting"
          /\ worker' = [worker EXCEPT ![d].phase = "trying"]
          /\ UNCHANGED <<waiting, row, arrived, unheard, cut>>
      BY <1>2 DEF Retry
    <2>2. OutTyped'
      BY <2>1 DEF OutInv, OutTyped
    <2>3. \A x \in Deliveries : worker'[x].phase # "off" <=> worker[x].phase # "off"
      BY <2>1 DEF OutInv, OutTyped
    <2>4. \A x \in Deliveries : RowFits(x)' /\ RowTrue(x)'
      BY <2>1, <2>3 DEF OutInv, RowFits, RowTrue
    <2> QED BY <2>2, <2>4 DEF OutInv
  <1> QED BY <1>1, <1>2

LEMMA OutKeeps == OutInv /\ [OutNext]_outVars => OutInv'
PROOF
  <1> SUFFICES ASSUME OutInv, [OutNext]_outVars PROVE OutInv'
    OBVIOUS
  <1>1. CASE UNCHANGED <<waiting, row, worker, arrived, unheard, cut>>
    BY <1>1 DEF OutInv, OutTyped, RowFits, RowTrue
  <1>2. ASSUME NEW h \in Hooks, NEW state, SetHook(h, state) PROVE OutInv'
    BY <1>1, <1>2 DEF SetHook
  <1>3. CASE UNCHANGED outVars
    BY <1>1, <1>3 DEF outVars
  <1> QED
    BY <1>2, <1>3, HookKeeps, DispatchKeeps, CreateKeeps, SucceedKeeps, TryFails, WorkerKeeps
       DEF OutNext

LEMMA OutIsSettled == OutInv => DeliverySettled
PROOF
  BY DEF OutInv, RowTrue, DeliverySettled

----------------------------------------------------------------------------
(* Events of GitHub.                                                        *)

HandlerWork == [event: HubEvents, step: {"record", "find", "bind", "move"},
         target: Stages \cup {NoStage}, left: SUBSET Tickets, card: Tickets \cup {"none"}]

InTyped ==
    /\ repo \in [state: {"none", "active", "passive", "deleted"},
                 targets: [Kinds -> Stages \cup {NoStage}]]
    /\ records \subseteq HubEvents
    /\ handler \in [Handlers -> {NoWork} \cup HandlerWork]
    /\ stage \in [Tickets -> Stages \cup {"deleted"}]
    /\ moves \in [HubEvents -> [Tickets -> Nat]]
    /\ meant \in [HubEvents -> SUBSET Tickets]

\* HandlerWork w has recorded event e and goes on with it.
WorksOn(w, e) == w \in HandlerWork /\ w.event = e /\ w.step # "record"

\* HandlerWork w may still move ticket t.
MayMove(w, t) ==
    \/ w.step = "find"
    \/ w.step \in {"bind", "move"} /\ t \in w.left
    \/ w.step = "move" /\ w.card = t

\* HandlerWork w is about to bind ticket t.
WillBind(w, t) == w.step \in {"bind", "move"} /\ t \in w.left

\* A record lets one handler through, for as long as there is the link.
Alone ==
    \A h, i \in Handlers : \A e \in HubEvents :
        WorksOn(handler[h], e) /\ WorksOn(handler[i], e) => h = i

Unseen(e) ==
    /\ \A h \in Handlers : ~WorksOn(handler[h], e)
    /\ meant[e] = {}
    /\ \A t \in Tickets : moves[e][t] = 0

Recorded == \A e \in HubEvents \ records : repo.state = "deleted" \/ Unseen(e)

\* That handler takes each ticket once.
MovedOnce ==
    \A e \in HubEvents, t \in Tickets :
        /\ moves[e][t] <= 1
        /\ \A h \in Handlers : WorksOn(handler[h], e) /\ MayMove(handler[h], t) => moves[e][t] = 0

Moving(w) == w.step = "move" => w.card \in Tickets \ w.left /\ w.target \in Stages

AllMoving == \A h \in Handlers : handler[h] \in HandlerWork => Moving(handler[h])

\* What was found for an event is bound, or will be.
BoundOrWill(e, t) ==
    \/ <<e, t>> \in bound \/ stage[t] = "deleted"
    \/ \E h \in Handlers : WorksOn(handler[h], e) /\ WillBind(handler[h], t)

MeantIsBound == \A e \in records \ failed : \A t \in meant[e] : BoundOrWill(e, t)

InInv == InTyped /\ Alone /\ Recorded /\ MovedOnce /\ AllMoving /\ MeantIsBound

LEMMA NoWorkIs == NoWork \notin HandlerWork /\ \A e : ~WorksOn(NoWork, e)
PROOF
  <1>1. ASSUME NoWork \in HandlerWork PROVE FALSE
    <2>1. DOMAIN NoWork = {"event"}
      BY DEF NoWork
    <2>2. \A w \in HandlerWork : "step" \in DOMAIN w
      BY DEF HandlerWork
    <2> QED BY <1>1, <2>1, <2>2
  <1> QED BY <1>1 DEF WorksOn

LEMMA InStarts == DeliveryInit => InInv
PROOF
  <1> SUFFICES ASSUME DeliveryInit PROVE InInv
    OBVIOUS
  <1>1. InTyped
    BY DEF DeliveryInit, InTyped
  <1>2. \A h \in Handlers : handler[h] = NoWork
    BY DEF DeliveryInit
  <1>3. Alone /\ AllMoving
    BY <1>2, NoWorkIs DEF Alone, AllMoving
  <1>4. Recorded /\ MovedOnce /\ MeantIsBound
    BY <1>2, NoWorkIs DEF DeliveryInit, Recorded, Unseen, MovedOnce, MeantIsBound
  <1> QED BY <1>1, <1>3, <1>4 DEF InInv

\* Steps that leave the handlers and their histories alone.
LEMMA WorldKeeps ==
    ASSUME InInv, UNCHANGED <<records, handler, moves, meant, failed>>,
           repo' \in [state: {"none", "active", "passive", "deleted"},
                      targets: [Kinds -> Stages \cup {NoStage}]],
           repo.state = "deleted" => repo'.state = "deleted",
           stage' \in [Tickets -> Stages \cup {"deleted"}],
           \A t \in Tickets : stage[t] = "deleted" => stage'[t] = "deleted",
           \A e \in HubEvents, t \in Tickets :
               <<e, t>> \in bound => <<e, t>> \in bound' \/ stage'[t] = "deleted"
    PROVE  InInv'
PROOF
  <1>1. InTyped'
    BY DEF InInv, InTyped
  <1>2. Alone' /\ Recorded' /\ MovedOnce' /\ AllMoving'
    BY DEF InInv, Alone, Recorded, Unseen, MovedOnce, AllMoving
  <1>3. MeantIsBound'
    <2> SUFFICES ASSUME NEW e \in records \ failed, NEW t \in meant[e]
                 PROVE  BoundOrWill(e, t)'
      BY DEF MeantIsBound
    <2>1. e \in HubEvents /\ t \in Tickets
      BY DEF InInv, InTyped
    <2>2. BoundOrWill(e, t)
      BY DEF InInv, MeantIsBound
    <2> QED BY <2>1, <2>2 DEF BoundOrWill
  <1> QED BY <1>1, <1>2, <1>3 DEF InInv

LEMMA LinkKeeps ==
    ASSUME InInv, \/ DeleteRepo
                  \/ \E targets \in Mappings, state \in {"active", "passive"} : SetRepo(targets, state)
    PROVE  InInv'
PROOF
  <1>1. CASE DeleteRepo
    <2>1. /\ repo' = [repo EXCEPT !.state = "deleted"]
          /\ records' = {} /\ bound' = {}
          /\ UNCHANGED <<handler, stage, shelved, moves, meant, failed>>
      BY <1>1 DEF DeleteRepo
    <2>2. InTyped' /\ repo'.state = "deleted"
      BY <2>1 DEF InInv, InTyped
    <2>3. Alone' /\ Recorded' /\ MovedOnce' /\ AllMoving' /\ MeantIsBound'
      BY <2>1, <2>2 DEF InInv, Alone, Recorded, MovedOnce, AllMoving, MeantIsBound
    <2> QED BY <2>2, <2>3 DEF InInv
  <1>2. ASSUME NEW targets \in Mappings, NEW state \in {"active", "passive"}, SetRepo(targets, state)
        PROVE  InInv'
    <2>1. /\ repo.state # "deleted" /\ repo' = [state |-> state, targets |-> targets]
          /\ UNCHANGED <<records, handler, stage, shelved, bound, moves, meant, failed>>
      BY <1>2 DEF SetRepo
    <2>2. targets \in [Kinds -> Stages \cup {NoStage}]
      BY DeliveryAssumption DEF DeliveryAssumption
    <2>3. stage' \in [Tickets -> Stages \cup {"deleted"}]
      BY <2>1 DEF InInv, InTyped
    <2> QED BY <2>1, <2>2, <2>3, WorldKeeps
  <1> QED BY <1>1, <1>2

LEMMA UsersKeep ==
    ASSUME InInv, NEW t \in Tickets,
           \/ UserArchives(t) \/ UserDeletes(t) \/ MoveByKey(t)
           \/ \E s \in Stages : UserMoves(t, s)
    PROVE  InInv'
PROOF
  <1>1. /\ repo \in [state: {"none", "active", "passive", "deleted"},
                     targets: [Kinds -> Stages \cup {NoStage}]]
        /\ stage \in [Tickets -> Stages \cup {"deleted"}]
    BY DEF InInv, InTyped
  <1>2. CASE UserArchives(t)
    BY <1>1, <1>2, WorldKeeps DEF UserArchives
  <1>3. CASE UserDeletes(t)
    <2>1. /\ stage' = [stage EXCEPT ![t] = "deleted"]
          /\ bound' = {b \in bound : b[2] # t}
          /\ UNCHANGED <<repo, records, handler, shelved, moves, meant, failed>>
      BY <1>3 DEF UserDeletes
    <2>2. stage' \in [Tickets -> Stages \cup {"deleted"}]
      BY <1>1, <2>1
    <2>3. \A x \in Tickets : stage[x] = "deleted" => stage'[x] = "deleted"
      BY <1>1, <2>1
    <2>4. \A e \in HubEvents, x \in Tickets :
              <<e, x>> \in bound => <<e, x>> \in bound' \/ stage'[x] = "deleted"
      BY <1>1, <2>1
    <2> QED BY <1>1, <2>1, <2>2, <2>3, <2>4, WorldKeeps
  <1>4. ASSUME NEW s \in Stages, stage[t] # "deleted", stage' = [stage EXCEPT ![t] = s],
               UNCHANGED <<repo, records, handler, shelved, bound, moves, meant, failed>>
        PROVE  InInv'
    <2>1. stage' \in [Tickets -> Stages \cup {"deleted"}]
      BY <1>1, <1>4
    <2>2. \A x \in Tickets : stage[x] = "deleted" => stage'[x] = "deleted"
      BY <1>1, <1>4
    <2> QED BY <1>1, <1>4, <2>1, <2>2, WorldKeeps
  <1>5. CASE MoveByKey(t)
    <2>1. repo.targets["push"] \in Stages
      BY <1>1, <1>5 DEF MoveByKey, Kinds
    <2> QED BY <1>4, <1>5, <2>1 DEF MoveByKey
  <1>6. ASSUME NEW s \in Stages, UserMoves(t, s) PROVE InInv'
    BY <1>4, <1>6 DEF UserMoves
  <1> QED BY <1>2, <1>3, <1>5, <1>6

\* A handler that stops, or takes an event before its record.
LEMMA HandlerRests ==
    ASSUME InInv, NEW h \in Handlers, NEW w \in {NoWork} \cup HandlerWork,
           \A e : ~WorksOn(w, e),
           handler' = [handler EXCEPT ![h] = w],
           UNCHANGED <<repo, records, stage, bound, moves, meant>>,
           failed \subseteq failed',
           \A e \in HubEvents : WorksOn(handler[h], e) => e \in failed' \/ \A t : ~WillBind(handler[h], t)
    PROVE  InInv'
PROOF
  <1>1. InTyped'
    BY DEF InInv, InTyped
  <1>2. \A i \in Handlers : handler'[i] = IF i = h THEN w ELSE handler[i]
    BY DEF InInv, InTyped
  <1>3. \A i \in Handlers : \A e : WorksOn(handler'[i], e) => handler'[i] = handler[i]
    BY <1>2
  <1>4. Alone' /\ Recorded' /\ MovedOnce'
    BY <1>2, <1>3 DEF InInv, Alone, Recorded, Unseen, MovedOnce
  <1>5. AllMoving'
    <2> SUFFICES ASSUME NEW i \in Handlers, handler'[i] \in HandlerWork PROVE Moving(handler'[i])
      BY DEF AllMoving
    <2>1. CASE handler'[i].step = "record"
      BY <2>1 DEF Moving
    <2>2. CASE handler'[i].step # "record"
      <3>1. WorksOn(handler'[i], handler'[i].event)
        BY <2>2 DEF WorksOn
      <3> QED BY <1>3, <3>1 DEF InInv, AllMoving
    <2> QED BY <2>1, <2>2
  <1>6. MeantIsBound'
    <2> SUFFICES ASSUME NEW e \in records \ failed', NEW t \in meant[e]
                 PROVE  BoundOrWill(e, t)'
      BY DEF MeantIsBound
    <2>1. BoundOrWill(e, t) /\ e \in HubEvents
      BY DEF InInv, InTyped, MeantIsBound
    <2>2. ASSUME NEW i \in Handlers, WorksOn(handler[i], e), WillBind(handler[i], t)
          PROVE  WorksOn(handler'[i], e) /\ WillBind(handler'[i], t)
      <3>1. i # h
        BY <2>1, <2>2
      <3> QED BY <1>2, <2>2, <3>1
    <2> QED BY <2>1, <2>2 DEF BoundOrWill
  <1> QED BY <1>1, <1>4, <1>5, <1>6 DEF InInv

LEMMA ReceiveKeeps ==
    ASSUME InInv, NEW h \in Handlers, NEW e \in HubEvents, Receive(h, e)
    PROVE  InInv'
PROOF
  <1> DEFINE w == [event |-> e, step |-> "record", target |-> Target(e),
                   left |-> {}, card |-> "none"]
  <1>1. /\ handler[h] = NoWork
        /\ handler' = [handler EXCEPT ![h] = w]
        /\ UNCHANGED <<repo, records, stage, bound, moves, meant, failed>>
    BY DEF Receive
  <1>2. Target(e) \in Stages \cup {NoStage}
    BY DeliveryAssumption DEF DeliveryAssumption, Target, InInv, InTyped
  <1>3. w \in HandlerWork
    BY <1>2 DEF HandlerWork
  <1>4. \A x : ~WorksOn(w, x)
    BY DEF WorksOn
  <1>5. \A x : ~WorksOn(handler[h], x)
    BY <1>1, NoWorkIs
  <1> HIDE DEF w
  <1> QED BY <1>1, <1>3, <1>4, <1>5, HandlerRests

LEMMA HandlerEnds ==
    ASSUME InInv, NEW h \in Handlers, EndEvent(h) \/ FailEvent(h)
    PROVE  InInv'
PROOF
  <1>1. /\ handler' = [handler EXCEPT ![h] = NoWork]
        /\ UNCHANGED <<repo, records, stage, bound, moves, meant>>
        /\ failed \subseteq failed'
    BY DEF EndEvent, FailEvent
  <1>2. ASSUME NEW e \in HubEvents, WorksOn(handler[h], e)
        PROVE  e \in failed' \/ \A t : ~WillBind(handler[h], t)
    <2>1. CASE EndEvent(h)
      BY <2>1 DEF EndEvent, WillBind
    <2>2. CASE FailEvent(h)
      BY <1>2, <2>2 DEF FailEvent, WorksOn
    <2> QED BY <2>1, <2>2
  <1> QED BY <1>1, <1>2, NoWorkIs, HandlerRests

LEMMA RecordEventKeeps ==
    ASSUME InInv, NEW h \in Handlers, Record(h)
    PROVE  InInv'
PROOF
  <1> DEFINE e == handler[h].event
             w == [handler[h] EXCEPT !.step = "find"]
  <1>1. /\ handler[h] # NoWork /\ handler[h].step = "record" /\ repo.state # "deleted"
        /\ UNCHANGED <<repo, stage, bound, moves, meant, failed>>
    BY DEF Record
  <1>2. handler[h] \in HandlerWork /\ e \in HubEvents
    BY <1>1 DEF InInv, InTyped, HandlerWork
  <1>3. CASE e \in records
    <2>1. handler' = [handler EXCEPT ![h] = NoWork] /\ UNCHANGED records
      BY <1>3 DEF Record, IsNew
    <2>2. \A x : ~WorksOn(handler[h], x)
      BY <1>1 DEF WorksOn
    <2> QED BY <1>1, <2>1, <2>2, NoWorkIs, HandlerRests
  <1>4. CASE e \notin records
    <2>1. records' = records \cup {e} /\ handler' = [handler EXCEPT ![h].step = "find"]
      BY <1>4 DEF Record, IsNew
    <2>2. /\ handler'[h] = w /\ \A i \in Handlers : i # h => handler'[i] = handler[i]
      BY <2>1 DEF InInv, InTyped
    <2>3. w \in HandlerWork /\ w.step = "find" /\ w.event = e
      BY <1>2 DEF HandlerWork
    <2>4. InTyped'
      BY <1>1, <1>2, <2>1, <2>3 DEF InInv, InTyped
    <2>5. Unseen(e)
      BY <1>1, <1>2, <1>4 DEF InInv, Recorded
    <2>6. \A i \in Handlers, x \in HubEvents :
              WorksOn(handler'[i], x) <=> (IF i = h THEN x = e ELSE WorksOn(handler[i], x))
      BY <2>2, <2>3 DEF WorksOn
    <2>7. \A i \in Handlers : ~WorksOn(handler[i], e)
      BY <2>5 DEF Unseen
    <2>8. Alone'
      BY <1>2, <2>6, <2>7 DEF InInv, Alone
    <2>9. Recorded'
      BY <1>1, <2>1, <2>6 DEF InInv, Recorded, Unseen
    <2>10. MovedOnce'
      <3> SUFFICES ASSUME NEW x \in HubEvents, NEW t \in Tickets
                   PROVE  /\ moves[x][t] <= 1
                          /\ \A i \in Handlers : WorksOn(handler'[i], x) /\ MayMove(handler'[i], t)
                                => moves[x][t] = 0
        BY <1>1 DEF MovedOnce
      <3> QED BY <2>2, <2>5, <2>6 DEF InInv, MovedOnce, Unseen
    <2>11. AllMoving'
      BY <2>2, <2>3 DEF InInv, AllMoving, Moving
    <2>12. MeantIsBound'
      <3> SUFFICES ASSUME NEW x \in records' \ failed, NEW t \in meant[x]
                   PROVE  BoundOrWill(x, t)'
        BY <1>1 DEF MeantIsBound
      <3>1. x # e
        BY <2>5 DEF Unseen
      <3>2. BoundOrWill(x, t) /\ x \in HubEvents
        BY <2>1, <3>1 DEF InInv, InTyped, MeantIsBound
      <3>3. ASSUME NEW i \in Handlers, WorksOn(handler[i], x), WillBind(handler[i], t)
            PROVE  WorksOn(handler'[i], x) /\ WillBind(handler'[i], t)
        <4>1. i # h
          BY <1>1, <3>3 DEF WorksOn
        <4> QED BY <2>2, <3>3, <4>1
      <3> QED BY <1>1, <3>2, <3>3 DEF BoundOrWill
    <2> QED BY <2>4, <2>8, <2>9, <2>10, <2>11, <2>12 DEF InInv
  <1> QED BY <1>3, <1>4

\* A handler goes on with its event, may move fewer tickets, and binds what it
\* does not leave for later.
Advance(h, w, e) ==
    /\ handler' = [handler EXCEPT ![h] = w]
    /\ repo' = repo /\ records' = records /\ failed' = failed
    /\ \A x \in HubEvents \ {e} : meant'[x] = meant[x] /\ moves'[x] = moves[x]
    /\ \A t \in Tickets : moves'[e][t] <= 1 /\ (MayMove(w, t) => moves'[e][t] = 0)
    /\ \A t \in Tickets : stage[t] = "deleted" => stage'[t] = "deleted"
    /\ \A x \in HubEvents, t \in Tickets : <<x, t>> \in bound => <<x, t>> \in bound'
    /\ \A t \in meant'[e] : \/ WillBind(w, t) \/ <<e, t>> \in bound'
                            \/ t \in meant[e] /\ ~WillBind(handler[h], t)

LEMMA HandlerGoesOn ==
    ASSUME InInv, NEW h \in Handlers, NEW w \in HandlerWork, NEW e \in HubEvents,
           WorksOn(handler[h], e), WorksOn(w, e), Moving(w), InTyped', Advance(h, w, e)
    PROVE  InInv'
PROOF
  <1>1. handler'[h] = w /\ \A i \in Handlers : i # h => handler'[i] = handler[i]
    BY DEF InInv, InTyped, Advance
  <1>2. \A i \in Handlers, x \in HubEvents : WorksOn(handler'[i], x) <=> WorksOn(handler[i], x)
    BY <1>1 DEF WorksOn
  <1>3. Alone'
    BY <1>2 DEF InInv, Alone
  <1>4. Recorded'
    <2> SUFFICES ASSUME NEW x \in HubEvents \ records, repo.state # "deleted" PROVE Unseen(x)'
      BY DEF Recorded, Advance
    <2>1. Unseen(x)
      BY DEF InInv, Recorded
    <2>2. x # e
      BY <2>1 DEF Unseen
    <2> QED BY <1>2, <2>1, <2>2 DEF Unseen, Advance
  <1>5. MovedOnce'
    <2> SUFFICES ASSUME NEW x \in HubEvents, NEW t \in Tickets
                 PROVE  /\ moves'[x][t] <= 1
                        /\ \A i \in Handlers : WorksOn(handler'[i], x) /\ MayMove(handler'[i], t)
                              => moves'[x][t] = 0
      BY DEF MovedOnce
    <2>1. CASE x = e
      <3>1. \A i \in Handlers : WorksOn(handler'[i], e) => i = h
        BY <1>2 DEF InInv, Alone
      <3> QED BY <1>1, <2>1, <3>1 DEF Advance
    <2>2. CASE x # e
      <3>1. \A i \in Handlers : WorksOn(handler[i], x) => i # h
        BY <2>2 DEF WorksOn
      <3> QED BY <1>1, <1>2, <2>2, <3>1 DEF InInv, MovedOnce, Advance
    <2> QED BY <2>1, <2>2
  <1>6. AllMoving'
    BY <1>1 DEF InInv, AllMoving
  <1>7. MeantIsBound'
    <2> SUFFICES ASSUME NEW x \in records \ failed, NEW t \in meant'[x]
                 PROVE  BoundOrWill(x, t)'
      BY DEF MeantIsBound, Advance
    <2>1. x \in HubEvents /\ t \in Tickets
      BY DEF InInv, InTyped, Advance
    <2>2. ASSUME t \in meant[x], ~(x = e /\ WillBind(handler[h], t)) PROVE BoundOrWill(x, t)'
      <3>1. BoundOrWill(x, t)
        BY <2>2 DEF InInv, MeantIsBound
      <3>2. ASSUME NEW i \in Handlers, WorksOn(handler[i], x), WillBind(handler[i], t)
            PROVE  WorksOn(handler'[i], x) /\ WillBind(handler'[i], t)
        <4>1. i # h
          BY <2>2, <3>2 DEF WorksOn
        <4> QED BY <1>1, <3>2, <4>1
      <3> QED BY <2>1, <3>1, <3>2 DEF BoundOrWill, Advance
    <2>3. CASE x = e
      <3>1. CASE WillBind(w, t)
        BY <1>1, <2>3, <3>1 DEF BoundOrWill
      <3>2. CASE <<e, t>> \in bound'
        BY <2>3, <3>2 DEF BoundOrWill
      <3>3. CASE t \in meant[e] /\ ~WillBind(handler[h], t)
        BY <2>2, <2>3, <3>3
      <3> QED BY <2>3, <3>1, <3>2, <3>3 DEF Advance
    <2>4. CASE x # e
      BY <2>1, <2>2, <2>4 DEF Advance
    <2> QED BY <2>3, <2>4
  <1> QED BY <1>3, <1>4, <1>5, <1>6, <1>7 DEF InInv

LEMMA FindKeeps ==
    ASSUME InInv, NEW h \in Handlers, Find(h)
    PROVE  InInv'
PROOF
  <1>1. PICK e : e = handler[h].event
    OBVIOUS
  <1>2. PICK found : found = {t \in HubTickets[e] : stage[t] # "deleted" /\ t \notin shelved}
    OBVIOUS
  <1>3. PICK w : w = [handler[h] EXCEPT !.step = "bind", !.left = found]
    OBVIOUS
  <1>4. /\ handler[h] # NoWork /\ handler[h].step = "find"
        /\ meant' = [meant EXCEPT ![e] = found]
        /\ handler' = [handler EXCEPT ![h] = w]
        /\ UNCHANGED <<repo, records, stage, bound, moves, failed>>
    BY <1>1, <1>2, <1>3 DEF Find
  <1>5. handler[h] \in HandlerWork
    BY <1>4 DEF InInv, InTyped
  <1>6. e \in HubEvents /\ WorksOn(handler[h], e)
    BY <1>1, <1>4, <1>5 DEF WorksOn, HandlerWork
  <1>7. found \subseteq Tickets
    BY <1>2, <1>6, DeliveryAssumption DEF DeliveryAssumption
  <1>8. w \in HandlerWork /\ w.step = "bind" /\ w.left = found /\ w.event = e
    BY <1>1, <1>3, <1>5, <1>7 DEF HandlerWork
  <1>9. WorksOn(w, e)
    BY <1>8 DEF WorksOn
  <1>10. InTyped'
    BY <1>4, <1>6, <1>7, <1>8 DEF InInv, InTyped
  <1>11. meant'[e] = found /\ \A x \in HubEvents \ {e} : meant'[x] = meant[x]
    BY <1>4, <1>6 DEF InInv, InTyped
  <1>12. \A t \in Tickets : moves'[e][t] <= 1 /\ moves'[e][t] = 0
    BY <1>4, <1>6 DEF InInv, MovedOnce, MayMove
  <1>13. \A t \in meant'[e] : WillBind(w, t)
    BY <1>8, <1>11 DEF WillBind
  <1>14. Moving(w)
    BY <1>8 DEF Moving
  <1>15. /\ \A x \in HubEvents \ {e} : meant'[x] = meant[x] /\ moves'[x] = moves[x]
         /\ \A t \in Tickets : stage[t] = "deleted" => stage'[t] = "deleted"
         /\ \A x \in HubEvents, t \in Tickets : <<x, t>> \in bound => <<x, t>> \in bound'
    BY <1>4, <1>11
  <1>16. Advance(h, w, e)
    BY <1>4, <1>12, <1>13, <1>15 DEF Advance
  <1> QED BY <1>6, <1>8, <1>9, <1>10, <1>14, <1>16, HandlerGoesOn

LEMMA BindKeeps ==
    ASSUME InInv, NEW h \in Handlers, NEW t \in Tickets, Bind(h, t)
    PROVE  InInv'
PROOF
  <1>1. PICK e : e = handler[h].event
    OBVIOUS
  <1>2. PICK s : s = IF handler[h].target = NoStage THEN "bind" ELSE "move"
    OBVIOUS
  <1>3. PICK w : w = [handler[h] EXCEPT !.left = @ \ {t}, !.card = t, !.step = s]
    OBVIOUS
  <1>4. /\ handler[h] # NoWork /\ handler[h].step = "bind" /\ t \in handler[h].left
        /\ bound' = bound \cup {<<e, t>>}
        /\ handler' = [handler EXCEPT ![h] = w]
        /\ UNCHANGED <<repo, records, stage, moves, meant, failed>>
    BY <1>1, <1>2, <1>3 DEF Bind
  <1>5. handler[h] \in HandlerWork
    BY <1>4 DEF InInv, InTyped
  <1>6. e \in HubEvents /\ WorksOn(handler[h], e)
    BY <1>1, <1>4, <1>5 DEF WorksOn, HandlerWork
  <1>7. /\ w \in HandlerWork /\ w.step \in {"bind", "move"} /\ w.left = handler[h].left \ {t}
        /\ w.card = t /\ w.event = e
    BY <1>1, <1>2, <1>3, <1>5 DEF HandlerWork
  <1>8. WorksOn(w, e)
    BY <1>7 DEF WorksOn
  <1>9. InTyped'
    BY <1>4, <1>7 DEF InInv, InTyped
  <1>10. \A x \in Tickets : MayMove(w, x) => MayMove(handler[h], x)
    BY <1>4, <1>7 DEF MayMove
  <1>11. \A x \in Tickets : moves'[e][x] <= 1 /\ (MayMove(w, x) => moves'[e][x] = 0)
    BY <1>4, <1>6, <1>10 DEF InInv, MovedOnce
  <1>12. \A x \in meant'[e] : \/ WillBind(w, x) \/ <<e, x>> \in bound'
                              \/ x \in meant[e] /\ ~WillBind(handler[h], x)
    BY <1>4, <1>7 DEF WillBind
  <1>13. Moving(w)
    <2>1. w.target = handler[h].target /\ w.step = s /\ handler[h].target \in Stages \cup {NoStage}
      BY <1>3, <1>5 DEF HandlerWork
    <2> QED BY <1>2, <1>7, <2>1 DEF Moving
  <1>14. /\ \A x \in HubEvents \ {e} : meant'[x] = meant[x] /\ moves'[x] = moves[x]
         /\ \A x \in Tickets : stage[x] = "deleted" => stage'[x] = "deleted"
         /\ \A y \in HubEvents, x \in Tickets : <<y, x>> \in bound => <<y, x>> \in bound'
    BY <1>4
  <1>15. Advance(h, w, e)
    BY <1>4, <1>11, <1>12, <1>14 DEF Advance
  <1> QED BY <1>6, <1>7, <1>8, <1>9, <1>13, <1>15, HandlerGoesOn

LEMMA MoveKeeps ==
    ASSUME InInv, NEW h \in Handlers, Move(h)
    PROVE  InInv'
PROOF
  <1>1. PICK e : e = handler[h].event
    OBVIOUS
  <1>2. PICK t : t = handler[h].card
    OBVIOUS
  <1>3. PICK w : w = [handler[h] EXCEPT !.step = "bind"]
    OBVIOUS
  <1>4. /\ handler[h] # NoWork /\ handler[h].step = "move"
        /\ \/ /\ stage[t] # "deleted"
              /\ stage' = [stage EXCEPT ![t] = handler[h].target]
              /\ moves' = [moves EXCEPT ![e][t] = @ + 1]
           \/ UNCHANGED <<stage, moves>>
        /\ handler' = [handler EXCEPT ![h] = w]
        /\ UNCHANGED <<repo, records, bound, meant, failed>>
    BY <1>1, <1>2, <1>3 DEF Move
  <1>5. handler[h] \in HandlerWork
    BY <1>4 DEF InInv, InTyped
  <1>6. e \in HubEvents /\ WorksOn(handler[h], e)
    BY <1>1, <1>4, <1>5 DEF WorksOn, HandlerWork
  <1>7. /\ w \in HandlerWork /\ w.step = "bind" /\ w.left = handler[h].left /\ w.event = e
    BY <1>1, <1>3, <1>5 DEF HandlerWork
  <1>8. t \in Tickets \ w.left
    BY <1>2, <1>4, <1>5, <1>7 DEF InInv, AllMoving, Moving
  <1>9. WorksOn(w, e)
    BY <1>7 DEF WorksOn
  <1>10. /\ stage \in [Tickets -> Stages \cup {"deleted"}]
         /\ moves \in [HubEvents -> [Tickets -> Nat]]
    BY DEF InInv, InTyped
  <1>11. moves[e][t] = 0
    BY <1>2, <1>4, <1>6, <1>8 DEF InInv, MovedOnce, MayMove
  <1>12. /\ \A x \in HubEvents \ {e} : moves'[x] = moves[x]
         /\ \A x \in Tickets \ {t} : moves'[e][x] = moves[e][x]
         /\ moves'[e][t] <= 1
         /\ moves' \in [HubEvents -> [Tickets -> Nat]]
    <2>1. CASE UNCHANGED moves
      BY <1>10, <1>11, <2>1
    <2>2. CASE moves' = [moves EXCEPT ![e][t] = @ + 1]
      <3>1. moves'[e] = [moves[e] EXCEPT ![t] = @ + 1] /\ moves[e] \in [Tickets -> Nat]
        BY <1>6, <1>10, <2>2
      <3>2. moves'[e] \in [Tickets -> Nat]
        BY <1>8, <3>1
      <3> QED BY <1>6, <1>8, <1>10, <1>11, <2>2, <3>1, <3>2
    <2> QED BY <1>4, <2>1, <2>2
  <1>13. handler[h].target \in Stages
    BY <1>4, <1>5 DEF InInv, AllMoving, Moving
  <1>14. /\ stage' \in [Tickets -> Stages \cup {"deleted"}]
         /\ \A x \in Tickets : stage[x] = "deleted" => stage'[x] = "deleted"
    <2>1. CASE UNCHANGED stage
      BY <1>10, <2>1
    <2>2. CASE stage[t] # "deleted" /\ stage' = [stage EXCEPT ![t] = handler[h].target]
      BY <1>10, <1>13, <2>2
    <2> QED BY <1>4, <2>1, <2>2
  <1>15. InTyped'
    BY <1>4, <1>7, <1>12, <1>14 DEF InInv, InTyped
  <1>16. Moving(w)
    BY <1>7 DEF Moving
  <1>17. \A x \in Tickets : MayMove(w, x) => MayMove(handler[h], x) /\ x # t
    BY <1>4, <1>7, <1>8 DEF MayMove
  <1>18. \A x \in Tickets : moves'[e][x] <= 1 /\ (MayMove(w, x) => moves'[e][x] = 0)
    <2> SUFFICES ASSUME NEW x \in Tickets
                 PROVE  moves'[e][x] <= 1 /\ (MayMove(w, x) => moves'[e][x] = 0)
      OBVIOUS
    <2>1. moves[e][x] <= 1 /\ (MayMove(handler[h], x) => moves[e][x] = 0)
      BY <1>6 DEF InInv, MovedOnce
    <2> QED BY <1>12, <1>17, <2>1
  <1>19. \A x \in meant'[e] : x \in meant[e] /\ (WillBind(w, x) \/ ~WillBind(handler[h], x))
    BY <1>4, <1>7 DEF WillBind
  <1>20. /\ \A x \in HubEvents \ {e} : meant'[x] = meant[x] /\ moves'[x] = moves[x]
         /\ \A y \in HubEvents, x \in Tickets : <<y, x>> \in bound => <<y, x>> \in bound'
    BY <1>4, <1>12
  <1>21. Advance(h, w, e)
    BY <1>4, <1>14, <1>18, <1>19, <1>20 DEF Advance
  <1> QED BY <1>6, <1>7, <1>9, <1>15, <1>16, <1>21, HandlerGoesOn

LEMMA InKeeps == InInv /\ [InNext]_inVars => InInv'
PROOF
  <1> SUFFICES ASSUME InInv, [InNext]_inVars PROVE InInv'
    OBVIOUS
  <1>1. CASE UNCHANGED inVars
    <2>1. UNCHANGED <<repo, records, handler, stage, bound, moves, meant, failed>>
      BY <1>1 DEF inVars
    <2>2. /\ repo \in [state: {"none", "active", "passive", "deleted"},
                       targets: [Kinds -> Stages \cup {NoStage}]]
          /\ stage \in [Tickets -> Stages \cup {"deleted"}]
      BY DEF InInv, InTyped
    <2> QED BY <2>1, <2>2, WorldKeeps
  <1> QED
    BY <1>1, LinkKeeps, UsersKeep, ReceiveKeeps, HandlerEnds, RecordEventKeeps, FindKeeps, BindKeeps,
       MoveKeeps DEF InNext

LEMMA EventsOnce == InInv => EventOnce
PROOF
  <1> SUFFICES ASSUME InInv, NEW e \in HubEvents
               PROVE  /\ \A t \in Tickets : moves[e][t] <= 1
                      /\ e \in records /\ HandlersOf(e) = {} /\ e \notin failed =>
                            \A t \in meant[e] : <<e, t>> \in bound \/ stage[t] = "deleted"
    BY DEF EventOnce
  <1>1. \A t \in Tickets : moves[e][t] <= 1
    BY DEF InInv, MovedOnce
  <1>2. ASSUME e \in records, HandlersOf(e) = {}, e \notin failed, NEW t \in meant[e]
        PROVE  <<e, t>> \in bound \/ stage[t] = "deleted"
    <2>1. \A h \in Handlers : ~WorksOn(handler[h], e)
      BY <1>2 DEF HandlersOf, WorksOn
    <2> QED BY <1>2, <2>1 DEF InInv, MeantIsBound, BoundOrWill
  <1> QED BY <1>1, <1>2

----------------------------------------------------------------------------
(* Accounts.                                                                *)

Operations ==
    [kind: {"idle", "register", "oauth", "token"}]
    \cup [kind: {"reset", "verify"}, link: Links]
    \cup [kind: {"sync"}, texts: [Texts -> {"empty", "own", "hub"}], spoken: SUBSET Languages]

AccountsTyped ==
    /\ links \in [Links -> [kind: {"reset", "verify"},
                            state: {"none", "sent", "expired", "used"}]]
    /\ tokens \in [Tokens -> {"none", "active", "revoked"}]
    /\ texts \in [Texts -> {"empty", "own", "hub"}]
    /\ spoken \subseteq Languages
    /\ job \in [Jobs -> Operations]
    /\ resets \in [Links -> Nat]
    /\ spent \subseteq Links

\* A link that is spent is used up, and nobody follows it.
SpentIsOver ==
    \A l \in spent :
        /\ links[l].state = "used"
        /\ \A j \in Jobs : job[j].kind = "reset" => job[j].link # l

\* A synchronisation that no edit has crossed knows what users wrote.
SyncKnows ==
    \A j \in Jobs \ crossed : job[j].kind = "sync" =>
        \A f \in Texts : texts[f] = "own" => job[j].texts[f] = "own"

AccountsInv == AccountsTyped /\ SpentIsOver /\ SyncKnows

LEMMA AccountsStart == AccountsInit => AccountsInv
PROOF
  <1> SUFFICES ASSUME AccountsInit PROVE AccountsInv
    OBVIOUS
  <1>1. \A j \in Jobs : job[j].kind = "idle"
    BY DEF AccountsInit, Idle
  <1>2. AccountsTyped
    <2>1. Idle \in Operations
      BY DEF Idle, Operations
    <2> QED BY <2>1 DEF AccountsInit, AccountsTyped
  <1>3. SpentIsOver /\ SyncKnows
    BY <1>1 DEF AccountsInit, SpentIsOver, SyncKnows
  <1> QED BY <1>2, <1>3 DEF AccountsInv

LEMMA OperationIs ==
    ASSUME AccountsTyped, NEW j \in Jobs
    PROVE  /\ job[j] \in Operations
           /\ job[j].kind \in {"reset", "verify"} => job[j].link \in Links
           /\ job[j].kind = "sync" =>
                job[j].texts \in [Texts -> {"empty", "own", "hub"}] /\ job[j].spoken \in SUBSET Languages
PROOF
  <1>1. job[j] \in Operations
    BY DEF AccountsTyped
  <1> QED BY <1>1 DEF Operations

\* An operation begins or ends on what it does not share with the invariant.
LEMMA JobKeeps ==
    ASSUME AccountsInv, NEW j \in Jobs, NEW op \in Operations,
           op.kind \notin {"reset", "sync"},
           job' = [job EXCEPT ![j] = op],
           UNCHANGED <<links, texts, spoken, resets, spent, crossed>>,
           tokens' \in [Tokens -> {"none", "active", "revoked"}]
    PROVE  AccountsInv'
PROOF
  <1>1. AccountsTyped'
    BY DEF AccountsInv, AccountsTyped
  <1>2. \A i \in Jobs : job'[i].kind \in {"reset", "sync"} => job'[i] = job[i]
    BY DEF AccountsInv, AccountsTyped
  <1>3. SpentIsOver' /\ SyncKnows'
    BY <1>2 DEF AccountsInv, SpentIsOver, SyncKnows
  <1> QED BY <1>1, <1>3 DEF AccountsInv

\* Steps that begin and end nothing.
LEMMA NoJobKeeps ==
    ASSUME AccountsInv, UNCHANGED <<texts, spoken, job, resets, spent, crossed>>,
           tokens' \in [Tokens -> {"none", "active", "revoked"}],
           links' \in [Links -> [kind: {"reset", "verify"},
                                 state: {"none", "sent", "expired", "used"}]],
           \A l \in Links : links[l].state = "used" => links'[l].state = "used"
    PROVE  AccountsInv'
PROOF
  <1>1. AccountsTyped'
    BY DEF AccountsInv, AccountsTyped
  <1>2. SpentIsOver' /\ SyncKnows'
    BY DEF AccountsInv, AccountsTyped, SpentIsOver, SyncKnows
  <1> QED BY <1>1, <1>2 DEF AccountsInv

LEMMA LinkStepKeeps ==
    ASSUME AccountsInv, NEW l \in Links,
           \/ Expire(l)
           \/ \E kind \in {"reset", "verify"} : Send(l, kind)
           \/ \E j \in Jobs : Follow(j, l)
    PROVE  AccountsInv'
PROOF
  <1>1. /\ links \in [Links -> [kind: {"reset", "verify"},
                                state: {"none", "sent", "expired", "used"}]]
        /\ tokens \in [Tokens -> {"none", "active", "revoked"}]
    BY DEF AccountsInv, AccountsTyped
  <1>2. CASE Expire(l)
    <2>1. /\ links[l].state = "sent" /\ links' = [links EXCEPT ![l].state = "expired"]
          /\ UNCHANGED <<tokens, texts, spoken, job, resets, spent, crossed>>
      BY <1>2 DEF Expire
    <2> QED BY <1>1, <2>1, NoJobKeeps
  <1>3. ASSUME NEW kind \in {"reset", "verify"}, Send(l, kind) PROVE AccountsInv'
    <2>1. /\ links[l].state = "none" /\ links' = [links EXCEPT ![l] = [kind |-> kind, state |-> "sent"]]
          /\ UNCHANGED <<tokens, texts, spoken, job, resets, spent, crossed>>
      BY <1>3 DEF Send
    <2> QED BY <1>1, <2>1, NoJobKeeps
  <1>4. ASSUME NEW j \in Jobs, Follow(j, l) PROVE AccountsInv'
    <2> DEFINE op == [kind |-> links[l].kind, link |-> l]
    <2>1. /\ links[l].state = "sent" /\ job' = [job EXCEPT ![j] = op]
          /\ UNCHANGED <<links, tokens, texts, spoken, resets, spent, crossed>>
      BY <1>4 DEF Follow, Start
    <2>2. op \in Operations /\ op.kind # "sync" /\ op.link = l
      BY <1>1 DEF Operations
    <2>3. job'[j] = op /\ \A i \in Jobs : i # j => job'[i] = job[i]
      BY <2>1 DEF AccountsInv, AccountsTyped
    <2> HIDE DEF op
    <2>4. AccountsTyped'
      BY <2>1, <2>2 DEF AccountsInv, AccountsTyped
    <2>5. SpentIsOver'
      BY <2>1, <2>2, <2>3 DEF AccountsInv, SpentIsOver
    <2>6. SyncKnows'
      BY <2>1, <2>2, <2>3 DEF AccountsInv, SyncKnows
    <2> QED BY <2>4, <2>5, <2>6 DEF AccountsInv
  <1> QED BY <1>2, <1>3, <1>4

LEMMA SimpleKeeps ==
    ASSUME AccountsInv, NEW j \in Jobs,
           \/ \E kind \in {"register", "oauth"} : Register(j, kind)
           \/ Registered(j) \/ CreateToken(j)
           \/ \E t \in Tokens : TokenCreated(j, t)
    PROVE  AccountsInv'
PROOF
  <1>1. tokens \in [Tokens -> {"none", "active", "revoked"}]
    BY DEF AccountsInv, AccountsTyped
  <1>2. \A kind \in {"idle", "register", "oauth", "token"} : [kind |-> kind] \in Operations
    BY DEF Operations
  <1>3. ASSUME NEW kind \in {"register", "oauth"}, Register(j, kind) PROVE AccountsInv'
    <2>1. [kind |-> kind] \in Operations /\ [kind |-> kind].kind \notin {"reset", "sync"}
      BY <1>2
    <2>2. job' = [job EXCEPT ![j] = [kind |-> kind]]
      BY <1>3 DEF Register, Start
    <2> QED BY <1>1, <1>3, <2>1, <2>2, JobKeeps DEF Register
  <1>4. Idle \in Operations /\ Idle.kind \notin {"reset", "sync"}
    BY <1>2 DEF Idle
  <1>5. CASE Registered(j)
    BY <1>1, <1>4, <1>5, JobKeeps DEF Registered, End
  <1>6. CASE CreateToken(j)
    <2>1. [kind |-> "token"] \in Operations /\ [kind |-> "token"].kind \notin {"reset", "sync"}
      BY <1>2
    <2>2. job' = [job EXCEPT ![j] = [kind |-> "token"]]
      BY <1>6 DEF CreateToken, Start
    <2> QED BY <1>1, <1>6, <2>1, <2>2, JobKeeps DEF CreateToken
  <1>7. ASSUME NEW t \in Tokens, TokenCreated(j, t) PROVE AccountsInv'
    <2>1. tokens' \in [Tokens -> {"none", "active", "revoked"}]
      BY <1>1, <1>7 DEF TokenCreated
    <2> QED BY <1>4, <1>7, <2>1, JobKeeps DEF TokenCreated, End
  <1> QED BY <1>3, <1>5, <1>6, <1>7

LEMMA VerifyKeeps ==
    ASSUME AccountsInv, NEW j \in Jobs, Verify(j)
    PROVE  AccountsInv'
PROOF
  <1>1. /\ links' = [l \in Links |-> IF l \in UsedUp(j) THEN [links[l] EXCEPT !.state = "used"]
                                     ELSE links[l]]
        /\ job' = [job EXCEPT ![j] = Idle]
        /\ UNCHANGED <<tokens, texts, spoken, resets, spent, crossed>>
    BY DEF Verify, UseUp, End
  <1>2. Idle \in Operations /\ Idle.kind = "idle"
    BY DEF Idle, Operations
  <1>3. AccountsTyped'
    BY <1>1, <1>2 DEF AccountsInv, AccountsTyped
  <1>4. \A i \in Jobs : job'[i].kind # "idle" => job'[i] = job[i]
    BY <1>1, <1>2 DEF AccountsInv, AccountsTyped
  <1>5. \A l \in Links : links[l].state = "used" => links'[l].state = "used"
    BY <1>1 DEF AccountsInv, AccountsTyped
  <1>6. SpentIsOver'
    BY <1>1, <1>4, <1>5 DEF AccountsInv, AccountsTyped, SpentIsOver
  <1>7. SyncKnows'
    BY <1>1, <1>4 DEF AccountsInv, SyncKnows
  <1> QED BY <1>3, <1>6, <1>7 DEF AccountsInv

LEMMA ResetKeeps ==
    ASSUME AccountsInv, NEW j \in Jobs, Reset(j)
    PROVE  AccountsInv'
PROOF
  <1>1. /\ job[j].kind = "reset"
        /\ links' = [l \in Links |-> IF l \in UsedUp(j) THEN [links[l] EXCEPT !.state = "used"]
                                     ELSE links[l]]
        /\ tokens' = [t \in Tokens |-> IF tokens[t] = "active" THEN "revoked" ELSE tokens[t]]
        /\ resets' = [resets EXCEPT ![job[j].link] = @ + 1]
        /\ spent' = spent \cup {l \in Links : links[l].kind = "reset" /\ links[l].state # "none"
                                              /\ l \notin Followed(j)}
        /\ job' = [job EXCEPT ![j] = Idle]
        /\ UNCHANGED <<texts, spoken, crossed>>
    BY DEF Reset, UseUp, End
  <1>2. Idle \in Operations /\ Idle.kind = "idle"
    BY DEF Idle, Operations
  <1>3. job[j].link \in Links
    BY <1>1, OperationIs DEF AccountsInv
  <1>4. AccountsTyped'
    BY <1>1, <1>2, <1>3 DEF AccountsInv, AccountsTyped
  <1>5. \A i \in Jobs : job'[i].kind # "idle" => i # j /\ job'[i] = job[i]
    BY <1>1, <1>2 DEF AccountsInv, AccountsTyped
  <1>6. SpentIsOver'
    <2> SUFFICES ASSUME NEW l \in spent'
                 PROVE  /\ links'[l].state = "used"
                        /\ \A i \in Jobs : job'[i].kind = "reset" => job'[i].link # l
      BY DEF SpentIsOver
    <2>1. CASE l \in spent
      <3>1. l \in Links /\ links[l].state = "used"
        BY <2>1 DEF AccountsInv, AccountsTyped, SpentIsOver
      <3>2. links'[l].state = "used"
        BY <1>1, <3>1 DEF AccountsInv, AccountsTyped
      <3> QED BY <1>5, <2>1, <3>2 DEF AccountsInv, SpentIsOver
    <2>2. CASE l \notin spent
      <3>1. l \in Links /\ l \in UsedUp(j) /\ l \notin Followed(j)
        BY <1>1, <2>2 DEF UsedUp
      <3>2. links'[l].state = "used"
        BY <1>1, <3>1 DEF AccountsInv, AccountsTyped
      <3>3. \A i \in Jobs \ {j} : job[i].kind = "reset" => job[i].link # l
        BY <3>1 DEF Followed, At
      <3> QED BY <1>5, <3>2, <3>3
    <2> QED BY <2>1, <2>2
  <1>7. SyncKnows'
    BY <1>1, <1>5 DEF AccountsInv, SyncKnows
  <1> QED BY <1>4, <1>6, <1>7 DEF AccountsInv

LEMMA EditKeeps ==
    ASSUME AccountsInv,
           \/ \E f \in Texts, value \in {"empty", "own"} : EditText(f, value)
           \/ \E S \in SUBSET Languages : EditLanguages(S)
    PROVE  AccountsInv'
PROOF
  <1>1. AccountsTyped'
    BY DEF AccountsInv, AccountsTyped, EditText, EditLanguages
  <1>2. UNCHANGED <<links, job, spent>> /\ crossed' = At("sync")
    BY DEF EditText, EditLanguages
  <1>3. SpentIsOver' /\ SyncKnows'
    BY <1>2 DEF AccountsInv, SpentIsOver, SyncKnows, At
  <1> QED BY <1>1, <1>3 DEF AccountsInv

LEMMA SyncKeeps ==
    ASSUME AccountsInv, NEW j \in Jobs,
           \/ Sync(j)
           \/ \E F \in SUBSET Texts, S \in SUBSET Languages : SyncWrite(j, F, S)
    PROVE  AccountsInv'
PROOF
  <1>1. CASE Sync(j)
    <2> DEFINE op == [kind |-> "sync", texts |-> texts, spoken |-> spoken]
    <2>1. /\ job' = [job EXCEPT ![j] = op]
          /\ UNCHANGED <<links, tokens, texts, spoken, resets, spent, crossed>>
      BY <1>1 DEF Sync, Start
    <2>2. op \in Operations
      BY DEF Operations, AccountsInv, AccountsTyped
    <2>3. AccountsTyped'
      BY <2>1, <2>2 DEF AccountsInv, AccountsTyped
    <2>4. job'[j] = op /\ \A i \in Jobs : i # j => job'[i] = job[i]
      BY <2>1 DEF AccountsInv, AccountsTyped
    <2>5. SpentIsOver' /\ SyncKnows'
      BY <2>1, <2>4 DEF AccountsInv, SpentIsOver, SyncKnows
    <2> QED BY <2>3, <2>5 DEF AccountsInv
  <1>2. ASSUME NEW F \in SUBSET Texts, NEW H \in SUBSET Languages, SyncWrite(j, F, H)
        PROVE  AccountsInv'
    <2>1. /\ texts' = [f \in Texts |-> IF f \in Filled(j, F) THEN "hub" ELSE texts[f]]
          /\ crossed' = crossed \ {j}
          /\ job' = [job EXCEPT ![j] = Idle]
          /\ UNCHANGED <<links, tokens, resets, spent>>
      BY <1>2 DEF SyncWrite, End
    <2>2. spoken' \subseteq Languages
      BY <1>2 DEF SyncWrite, AccountsInv, AccountsTyped
    <2>3. Idle \in Operations /\ Idle.kind = "idle"
      BY DEF Idle, Operations
    <2>4. AccountsTyped'
      BY <2>1, <2>2, <2>3 DEF AccountsInv, AccountsTyped
    <2>5. \A i \in Jobs : job'[i].kind # "idle" => i # j /\ job'[i] = job[i]
      BY <2>1, <2>3 DEF AccountsInv, AccountsTyped
    <2>6. \A f \in Texts : texts'[f] = "own" => texts[f] = "own"
      BY <2>1
    <2>7. SpentIsOver' /\ SyncKnows'
      BY <2>1, <2>5, <2>6 DEF AccountsInv, SpentIsOver, SyncKnows
    <2> QED BY <2>4, <2>7 DEF AccountsInv
  <1> QED BY <1>1, <1>2

LEMMA AccountsKeep == AccountsInv /\ [AccessNext \/ ProfileNext]_accountVars => AccountsInv'
PROOF
  <1> SUFFICES ASSUME AccountsInv, [AccessNext \/ ProfileNext]_accountVars PROVE AccountsInv'
    OBVIOUS
  <1>1. /\ tokens \in [Tokens -> {"none", "active", "revoked"}]
        /\ links \in [Links -> [kind: {"reset", "verify"},
                                state: {"none", "sent", "expired", "used"}]]
    BY DEF AccountsInv, AccountsTyped
  <1>2. CASE UNCHANGED accountVars
    BY <1>1, <1>2, NoJobKeeps DEF accountVars
  <1>3. CASE VerifiedElsewhere
    BY <1>1, <1>3, NoJobKeeps DEF VerifiedElsewhere
  <1>4. ASSUME NEW t \in Tokens, Revoke(t) PROVE AccountsInv'
    <2>1. tokens' \in [Tokens -> {"none", "active", "revoked"}]
      BY <1>1, <1>4 DEF Revoke
    <2> QED BY <1>1, <1>4, <2>1, NoJobKeeps DEF Revoke
  <1>5. CASE AccessNext
    BY <1>3, <1>4, <1>5, LinkStepKeeps, SimpleKeeps, VerifyKeeps, ResetKeeps DEF AccessNext
  <1>6. CASE ProfileNext
    BY <1>6, EditKeeps, SyncKeeps DEF ProfileNext
  <1> QED BY <1>2, <1>5, <1>6

\* Only a reset of the password touches resets.
LEMMA ResetsFinal ==
    AccountsInv /\ [AccessNext \/ ProfileNext]_accountVars =>
        [/\ \A l \in spent : resets'[l] = resets[l]
         /\ resets' # resets => \A t \in Active : tokens'[t] # "active"]_accountVars
PROOF
  <1> SUFFICES ASSUME AccountsInv, AccessNext \/ ProfileNext
               PROVE  /\ \A l \in spent : resets'[l] = resets[l]
                      /\ resets' # resets => \A t \in Active : tokens'[t] # "active"
    OBVIOUS
  <1>1. ASSUME NEW j \in Jobs, Reset(j)
        PROVE  /\ \A l \in spent : resets'[l] = resets[l]
               /\ \A t \in Active : tokens'[t] # "active"
    <2>1. /\ job[j].kind = "reset"
          /\ resets' = [resets EXCEPT ![job[j].link] = @ + 1]
          /\ tokens' = [t \in Tokens |-> IF tokens[t] = "active" THEN "revoked" ELSE tokens[t]]
      BY <1>1 DEF Reset
    <2>2. job[j].link \notin spent
      BY <2>1 DEF AccountsInv, SpentIsOver
    <2> QED BY <2>1, <2>2 DEF AccountsInv, AccountsTyped, Active
  <1>2. CASE \A j \in Jobs : ~Reset(j)
    <2>1. AccessNext => UNCHANGED resets
      BY <1>2 DEF AccessNext, VerifiedElsewhere, Expire, Send, Revoke, Register, Registered,
                  Verify, CreateToken, Follow, TokenCreated
    <2>2. ProfileNext => UNCHANGED resets
      BY DEF ProfileNext, EditText, EditLanguages, Sync, SyncWrite
    <2> QED BY <2>1, <2>2
  <1> QED BY <1>1, <1>2

\* A synchronisation ends with its write.
LEMMA ProfilesKept ==
    AccountsInv /\ [AccessNext \/ ProfileNext]_accountVars =>
        [\A j \in At("sync") \ crossed : job'[j] = Idle =>
            /\ \A f \in Texts : texts[f] = "own" => texts'[f] = "own"
            /\ job[j].spoken \cap spoken \subseteq spoken']_accountVars
PROOF
  <1> SUFFICES ASSUME AccountsInv, AccessNext \/ ProfileNext,
                      NEW j \in At("sync") \ crossed, job'[j] = Idle
               PROVE  /\ \A f \in Texts : texts[f] = "own" => texts'[f] = "own"
                      /\ job[j].spoken \cap spoken \subseteq spoken'
    OBVIOUS
  <1>1. j \in Jobs /\ job[j].kind = "sync" /\ job[j] # Idle
    BY DEF At, Idle
  <1>2. job \in [Jobs -> Operations]
    BY DEF AccountsInv, AccountsTyped
  <1>3. ASSUME NEW i \in Jobs, End(i) PROVE i = j
    <2>1. i # j => job'[j] = job[j]
      BY <1>2, <1>3 DEF End
    <2> QED BY <1>1, <2>1
  <1>4. ASSUME NEW i \in Jobs, NEW op, Start(i, op) PROVE FALSE
    <2>1. i # j
      BY <1>1, <1>4 DEF Start
    <2>2. job'[j] = job[j]
      BY <1>2, <1>4, <2>1 DEF Start
    <2> QED BY <1>1, <2>2
  <1>5. job' # job
    BY <1>1
  <1>6. ~AccessNext
    <2> SUFFICES ASSUME AccessNext PROVE FALSE
      OBVIOUS
    <2>1. \A i \in Jobs : ~Registered(i) /\ ~Reset(i) /\ ~Verify(i)
      BY <1>1, <1>3 DEF Registered, Reset, Verify
    <2>2. \A i \in Jobs : \A t \in Tokens : ~TokenCreated(i, t)
      BY <1>1, <1>3 DEF TokenCreated
    <2>3. \A i \in Jobs : /\ \A kind : ~Register(i, kind)
                          /\ ~CreateToken(i) /\ \A l : ~Follow(i, l)
      BY <1>4 DEF Register, CreateToken, Follow
    <2>4. /\ ~VerifiedElsewhere /\ \A t \in Tokens : ~Revoke(t)
          /\ \A l \in Links : ~Expire(l) /\ \A kind : ~Send(l, kind)
      BY <1>5 DEF VerifiedElsewhere, Revoke, Expire, Send
    <2> QED BY <2>1, <2>2, <2>3, <2>4 DEF AccessNext
  <1>7. PICK F \in SUBSET Texts, H \in SUBSET Languages : SyncWrite(j, F, H)
    <2>1. /\ \A f, value : ~EditText(f, value)
          /\ \A S : ~EditLanguages(S)
      BY <1>5 DEF EditText, EditLanguages
    <2>2. \A i \in Jobs : ~Sync(i)
      BY <1>4 DEF Sync
    <2>3. \A i \in Jobs : \A F, H : SyncWrite(i, F, H) => i = j
      BY <1>3 DEF SyncWrite
    <2> QED BY <1>6, <2>1, <2>2, <2>3 DEF ProfileNext
  <1>8. \A f \in Texts : texts[f] = "own" => texts'[f] = "own"
    <2>1. \A f \in Texts : texts[f] = "own" => job[j].texts[f] = "own"
      BY <1>1 DEF AccountsInv, SyncKnows
    <2>2. \A f \in Texts : texts[f] = "own" => f \notin Filled(j, F)
      BY <2>1 DEF Filled
    <2> QED BY <1>7, <2>2 DEF SyncWrite
  <1>9. job[j].spoken \cap spoken \subseteq spoken'
    <2>1. PICK S : /\ job[j].spoken \subseteq S
                   /\ spoken' = IF S = job[j].spoken THEN spoken ELSE S
      BY <1>7 DEF SyncWrite, Merged
    <2> QED BY <2>1
  <1> QED BY <1>8, <1>9

----------------------------------------------------------------------------
(* The limits of the intake.                                                *)

Counted == [count: Nat \ {0}, resetAt: Nat]

CountersTyped ==
    /\ now \in 0 .. MaxTime
    /\ bucket \in [Callers -> {Absent} \cup Counted]
    /\ lock \in {Absent} \cup Counted
    /\ timers \subseteq Keys \X Nat
    /\ passed \in [Callers -> 0 .. MaxCalls]
    /\ overrun \subseteq Keys
    /\ \A key \in Keys : record[key] = Absent
                         \/ record[key] \in [status: {"processing", "done"}, at: 0 .. now]

\* What has got through has been counted.
PassedCounted == \A c \in Callers : Counting(bucket[c]) => passed[c] <= bucket[c].count

LockHolds == Counting(lock) => lock.count + Cardinality(LoggingIn) < MaxFailures + Cardinality(Slots)

LimitsInv == CountersTyped /\ PassedCounted /\ LockHolds

LEMMA SlotsCount ==
    /\ LoggingIn \subseteq Slots /\ IsFiniteSet(LoggingIn)
    /\ Cardinality(Slots) \in Nat /\ Cardinality(LoggingIn) \in Nat
    /\ Cardinality(LoggingIn) <= Cardinality(Slots)
PROOF
  <1>1. IsFiniteSet(Slots) /\ LoggingIn \subseteq Slots
    BY IntakeAssumption DEF IntakeAssumption, LoggingIn
  <1> QED BY <1>1, FS_Subset, FS_CardinalityType

LEMMA SlotsCountNext ==
    /\ LoggingIn' \subseteq Slots /\ IsFiniteSet(LoggingIn')
    /\ Cardinality(LoggingIn') \in Nat /\ Cardinality(LoggingIn') <= Cardinality(Slots)
PROOF
  <1>1. IsFiniteSet(Slots) /\ LoggingIn' \subseteq Slots
    BY IntakeAssumption DEF IntakeAssumption, LoggingIn
  <1> QED BY <1>1, FS_Subset, FS_CardinalityType

LEMMA LimitsStart == IntakeInit => LimitsInv
PROOF
  <1> SUFFICES ASSUME IntakeInit PROVE LimitsInv
    OBVIOUS
  <1>1. MaxTime \in Nat /\ MaxCalls \in Nat \ {0}
    BY IntakeAssumption DEF IntakeAssumption
  <1>2. CountersTyped
    BY <1>1 DEF IntakeInit, CountersTyped
  <1>3. PassedCounted /\ LockHolds
    BY DEF IntakeInit, PassedCounted, LockHolds, Counting
  <1> QED BY <1>2, <1>3 DEF LimitsInv

\* A call is counted; what gets through stays within the maximum.
LEMMA ConsumeKeeps ==
    ASSUME LimitsInv, NEW c \in Callers, Consume(c), UNCHANGED now
    PROVE  /\ bucket' \in [Callers -> {Absent} \cup Counted]
           /\ passed' \in [Callers -> 0 .. MaxCalls]
           /\ PassedCounted'
PROOF
  <1> DEFINE b == IF Counting(bucket[c]) THEN [count |-> bucket[c].count + 1, resetAt |-> bucket[c].resetAt]
                  ELSE [count |-> 1, resetAt |-> now + Window]
             n == IF ~Counting(bucket[c]) THEN 1 ELSE IF LetsThrough(c) THEN passed[c] + 1 ELSE passed[c]
  <1>1. Window \in Nat /\ MaxCalls \in Nat \ {0} /\ now \in Nat /\ MaxTime \in Nat
    BY IntakeAssumption DEF IntakeAssumption, LimitsInv, CountersTyped
  <1>2. bucket' = [bucket EXCEPT ![c] = b] /\ passed' = [passed EXCEPT ![c] = n]
    BY DEF Consume, Count, LimitsInv, CountersTyped
  <1>3. /\ passed[c] \in 0 .. MaxCalls
        /\ Counting(bucket[c]) => bucket[c] \in Counted /\ passed[c] <= bucket[c].count
    BY DEF LimitsInv, CountersTyped, PassedCounted, Counting
  <1>4. b \in Counted /\ n \in 0 .. MaxCalls /\ n <= b.count
    BY <1>1, <1>3 DEF LetsThrough, Counted
  <1>5. /\ bucket'[c] = b /\ passed'[c] = n
        /\ \A d \in Callers \ {c} : bucket'[d] = bucket[d] /\ passed'[d] = passed[d]
    BY <1>2 DEF LimitsInv, CountersTyped
  <1> HIDE DEF b, n
  <1>6. PassedCounted'
    BY <1>4, <1>5 DEF LimitsInv, PassedCounted, Counting
  <1> QED BY <1>2, <1>4, <1>6 DEF LimitsInv, CountersTyped

LEMMA TickLimits ==
    ASSUME LimitsInv, Tick
    PROVE  LimitsInv'
PROOF
  <1>1. /\ now < MaxTime /\ now' = now + 1 /\ UNCHANGED work
        /\ record' = [key \in Keys |-> IF key \in Due(now + 1) \cup Old(now + 1) THEN Absent ELSE record[key]]
        /\ overrun' \subseteq overrun \cup Keys
        /\ timers' \subseteq timers
        /\ bucket' = [c \in Callers |-> Kept(bucket[c], now + 1)]
        /\ lock' = Kept(lock, now + 1)
        /\ passed' = [c \in Callers |-> IF Kept(bucket[c], now + 1) = Absent THEN 0 ELSE passed[c]]
    BY DEF Tick, Old
  <1>2. now \in 0 .. MaxTime /\ MaxTime \in Nat /\ MaxCalls \in Nat
    BY IntakeAssumption DEF IntakeAssumption, LimitsInv, CountersTyped
  <1>3. \A b : Kept(b, now + 1) = Absent \/ Kept(b, now + 1) = b
    BY DEF Kept
  <1>4. CountersTyped'
    <2>1. now' \in 0 .. MaxTime /\ 0 .. now \subseteq 0 .. now'
      BY <1>1, <1>2
    <2>2. \A key \in Keys : record'[key] = Absent
                            \/ record'[key] \in [status: {"processing", "done"}, at: 0 .. now']
      BY <1>1, <2>1 DEF LimitsInv, CountersTyped
    <2>3. bucket' \in [Callers -> {Absent} \cup Counted] /\ lock' \in {Absent} \cup Counted
      BY <1>1, <1>3 DEF LimitsInv, CountersTyped
    <2>4. passed' \in [Callers -> 0 .. MaxCalls]
      BY <1>1, <1>2 DEF LimitsInv, CountersTyped
    <2> QED BY <1>1, <2>1, <2>2, <2>3, <2>4 DEF LimitsInv, CountersTyped
  <1>5. ASSUME NEW b \in {Absent} \cup Counted, Counting(Kept(b, now + 1))'
        PROVE  Counting(b) /\ Kept(b, now + 1) = b /\ b # Absent
    BY <1>1, <1>2, <1>5 DEF Counting, Kept, Counted
  <1>6. PassedCounted'
    <2> SUFFICES ASSUME NEW c \in Callers, Counting(bucket[c])' PROVE passed'[c] <= bucket'[c].count
      BY DEF PassedCounted
    <2>1. bucket[c] \in {Absent} \cup Counted /\ bucket'[c] = Kept(bucket[c], now + 1)
      BY <1>1 DEF LimitsInv, CountersTyped
    <2>2. bucket'[c] = Absent \/ bucket'[c] = bucket[c]
      BY <1>3, <2>1
    <2>3. bucket'[c] # Absent /\ now' <= bucket'[c].resetAt
      BY DEF Counting
    <2>4. bucket'[c] = bucket[c] /\ Counting(bucket[c])
      BY <1>1, <1>2, <2>1, <2>2, <2>3 DEF Counting, Counted
    <2> QED BY <1>1, <2>1, <2>3, <2>4 DEF LimitsInv, PassedCounted
  <1>7. LockHolds'
    <2> SUFFICES ASSUME Counting(lock)'
                 PROVE  lock'.count + Cardinality(LoggingIn') < MaxFailures + Cardinality(Slots)
      BY DEF LockHolds
    <2>1. lock' = lock /\ Counting(lock)
      BY <1>1, <1>2, <1>3 DEF Counting, Counted, LimitsInv, CountersTyped
    <2>2. LoggingIn' = LoggingIn
      BY <1>1 DEF LoggingIn
    <2> QED BY <2>1, <2>2 DEF LimitsInv, LockHolds
  <1> QED BY <1>4, <1>6, <1>7 DEF LimitsInv

LEMMA RequestLimits ==
    ASSUME LimitsInv, RecordInv, NEW c \in Callers,
           \/ TurnAway(c)
           \/ \E s \in Slots : Login(s, c) \/ \E key \in Keys : Begin(s, key, c)
    PROVE  LimitsInv'
PROOF
  <1>1. Consume(c) /\ UNCHANGED <<now, lock, timers, overrun>>
    BY DEF TurnAway, Login, Begin
  <1>2. now \in 0 .. now
    BY IntakeAssumption DEF IntakeAssumption, LimitsInv, CountersTyped
  <1>3. \A key \in Keys : record'[key] = Absent
                          \/ record'[key] \in [status: {"processing", "done"}, at: 0 .. now]
    <2>1. CASE UNCHANGED record
      BY <2>1 DEF LimitsInv, CountersTyped
    <2>2. ASSUME NEW s \in Slots, NEW k \in Keys, Begin(s, k, c)
          PROVE  \A key \in Keys : record'[key] = Absent
                          \/ record'[key] \in [status: {"processing", "done"}, at: 0 .. now]
      <3>1. record' = [record EXCEPT ![k] = [status |-> "processing", at |-> now]]
        BY <2>2 DEF Begin
      <3>2. [status |-> "processing", at |-> now] \in [status: {"processing", "done"}, at: 0 .. now]
        BY <1>2
      <3> QED BY <3>1, <3>2 DEF LimitsInv, CountersTyped, RecordInv, RecordsTyped
    <2> QED BY <2>1, <2>2 DEF TurnAway, Login
  <1>4. CountersTyped'
    BY <1>1, <1>3, ConsumeKeeps DEF LimitsInv, CountersTyped
  <1>5. LockHolds'
    <2> SUFFICES ASSUME Counting(lock)'
                 PROVE  lock'.count + Cardinality(LoggingIn') < MaxFailures + Cardinality(Slots)
      BY DEF LockHolds
    <2>1. Counting(lock) /\ lock \in Counted /\ MaxFailures \in Nat
      BY <1>1, IntakeAssumption DEF IntakeAssumption, Counting, LimitsInv, CountersTyped
    <2>2. CASE \E s \in Slots : Login(s, c)
      <3>1. lock.count < MaxFailures
        BY <2>1, <2>2 DEF Login, Locked, Counted
      <3> QED BY <1>1, <2>1, <3>1, SlotsCount, SlotsCountNext DEF Counted
    <2>3. CASE TurnAway(c) \/ \E s \in Slots, key \in Keys : Begin(s, key, c)
      <3>1. LoggingIn' = LoggingIn
        BY <2>3 DEF TurnAway, Begin, LoggingIn, Free, RecordInv, RecordsTyped
      <3> QED BY <1>1, <2>1, <3>1 DEF LimitsInv, LockHolds
    <2> QED BY <2>2, <2>3
  <1> QED BY <1>1, <1>4, <1>5, ConsumeKeeps DEF LimitsInv

LEMMA EndLimits ==
    ASSUME LimitsInv, RecordInv, NEW s \in Slots,
           Finish(s) \/ Throw(s) \/ LoginFails(s) \/ LoginSucceeds(s)
    PROVE  LimitsInv'
PROOF
  <1>1. UNCHANGED <<now, bucket, passed, overrun>> /\ work' = [work EXCEPT ![s] = Free]
    BY DEF Finish, Throw, LoginFails, LoginSucceeds
  <1>2. now \in Nat /\ DoneDelay \in Nat /\ Window \in Nat /\ MaxFailures \in Nat \ {0} /\ MaxTime \in Nat
    BY IntakeAssumption DEF IntakeAssumption, LimitsInv, CountersTyped
  <1>3. PassedCounted'
    BY <1>1 DEF LimitsInv, PassedCounted, Counting
  <1>4. CASE Finish(s) \/ Throw(s)
    <2> DEFINE k == work[s].key
    <2>1. work[s].kind = "write" /\ k \in Keys /\ UNCHANGED lock
      BY <1>4 DEF Finish, Throw, RecordInv, RecordsTyped
    <2>2. \/ UNCHANGED record
          \/ record[k] # Absent /\ record' = [record EXCEPT ![k].status = "done"]
          \/ record' = [record EXCEPT ![k] = Absent]
      BY <1>4 DEF Finish, Throw
    <2>3. timers' \subseteq Keys \X Nat
      BY <1>2, <1>4, <2>1 DEF Finish, Throw, LimitsInv, CountersTyped
    <2>4. \A key \in Keys : record'[key] = Absent
                            \/ record'[key] \in [status: {"processing", "done"}, at: 0 .. now]
      BY <2>1, <2>2 DEF LimitsInv, CountersTyped, RecordInv, RecordsTyped
    <2>5. LoggingIn' = LoggingIn
      BY <1>1, <2>1 DEF LoggingIn, Free, RecordInv, RecordsTyped
    <2>6. LockHolds'
      BY <1>1, <2>1, <2>5 DEF LimitsInv, LockHolds, Counting
    <2> QED BY <1>1, <1>3, <2>1, <2>3, <2>4, <2>6 DEF LimitsInv, CountersTyped
  <1>5. CASE LoginFails(s) \/ LoginSucceeds(s)
    <2>1. UNCHANGED <<record, timers>> /\ s \in LoggingIn
      BY <1>5 DEF LoginFails, LoginSucceeds
    <2>2. LoggingIn' = LoggingIn \ {s}
      BY <1>1, <2>1 DEF LoggingIn, Free, RecordInv, RecordsTyped
    <2>3. Cardinality(LoggingIn') = Cardinality(LoggingIn) - 1
      BY <2>1, <2>2, SlotsCount, FS_RemoveElement
    <2>4. \/ lock' = Absent
          \/ Counting(lock) /\ lock \in Counted
               /\ lock' = [count |-> lock.count + 1, resetAt |-> lock.resetAt]
          \/ lock' = [count |-> 1, resetAt |-> now + Window]
      BY <1>5 DEF LoginFails, LoginSucceeds, Counting, LimitsInv, CountersTyped, Counted
    <2>5. lock' \in {Absent} \cup Counted
      BY <1>2, <2>4 DEF Counted
    <2>6. LockHolds'
      <3>1. CASE lock' = Absent
        BY <3>1 DEF LockHolds, Counting
      <3>2. CASE Counting(lock) /\ lock \in Counted
                  /\ lock' = [count |-> lock.count + 1, resetAt |-> lock.resetAt]
        <4>1. lock.count + Cardinality(LoggingIn) < MaxFailures + Cardinality(Slots)
          BY <3>2 DEF LimitsInv, LockHolds
        <4>2. lock'.count = lock.count + 1 /\ lock.count \in Nat
          BY <3>2 DEF Counted
        <4> QED BY <1>2, <2>3, <4>1, <4>2, SlotsCount DEF LockHolds
      <3>3. CASE lock' = [count |-> 1, resetAt |-> now + Window]
        BY <1>2, <2>3, <3>3, SlotsCount DEF LockHolds
      <3> QED BY <2>4, <3>1, <3>2, <3>3
    <2> QED BY <1>1, <1>3, <2>1, <2>5, <2>6 DEF LimitsInv, CountersTyped
  <1> QED BY <1>4, <1>5

LEMMA LimitsKeep == RecordInv /\ LimitsInv /\ [IntakeNext]_intakeVars => LimitsInv'
PROOF
  <1> SUFFICES ASSUME RecordInv, LimitsInv, [IntakeNext]_intakeVars PROVE LimitsInv'
    OBVIOUS
  <1>1. CASE UNCHANGED intakeVars
    BY <1>1 DEF intakeVars, LimitsInv, CountersTyped, PassedCounted, LockHolds, Counting, LoggingIn
  <1>2. CASE IntakeNext
    BY <1>2, TickLimits, RequestLimits, EndLimits DEF IntakeNext
  <1> QED BY <1>1, <1>2

LEMMA IntakeTyped == RecordInv /\ LimitsInv => IntakeTypeOK
PROOF
  BY DEF RecordInv, RecordsTyped, LimitsInv, CountersTyped, LockHolds, IntakeTypeOK, Buckets, Counted

----------------------------------------------------------------------------
(* The limits of an account.                                                *)

Owners == [password: {"register", "oauth", "reset"}, verified: BOOLEAN]

\* There is an account wherever there is a link of it, or somebody who follows one.
OwnerThere ==
    /\ account \in {NoAccount} \cup Owners
    /\ \A l \in Links : links[l].state # "none" => account \in Owners
    /\ \A j \in Jobs : job[j].kind \in {"reset", "verify"} => account \in Owners

FewTokens ==
    /\ IsFiniteSet(Active)
    /\ Cardinality(Active) + Cardinality(At("token")) < TokenLimit + Cardinality(Jobs)

FewLanguages == Cardinality(spoken) <= LanguageLimit

\* The operations that are about to reset the password by a link.
Following(l) == {j \in Jobs : job[j].kind = "reset" /\ job[j].link = l}

\* A link resets the password as often as it was being followed when it was used up.
FewOf(l) ==
    /\ links[l].state # "used" => resets[l] = 0
    /\ resets[l] + Cardinality(Following(l)) <= Cardinality(Jobs)

FollowsALink ==
    \A j \in Jobs : job[j].kind = "reset" =>
        links[job[j].link].kind = "reset" /\ links[job[j].link].state # "none"

FewResets == (\A l \in Links : FewOf(l)) /\ FollowsALink

OwnerInv == OwnerThere /\ FewTokens /\ FewLanguages /\ FewResets /\ crossed \subseteq Jobs

LEMMA JobsCount ==
    ASSUME NEW S, S \subseteq Jobs
    PROVE  /\ IsFiniteSet(S) /\ Cardinality(S) \in Nat
           /\ Cardinality(Jobs) \in Nat /\ Cardinality(S) <= Cardinality(Jobs)
PROOF
  <1>1. IsFiniteSet(Jobs)
    BY AccountsAssumption DEF AccountsAssumption
  <1> QED BY <1>1, FS_Subset, FS_CardinalityType

LEMMA OwnersStart == AccountsInit => OwnerInv
PROOF
  <1> SUFFICES ASSUME AccountsInit PROVE OwnerInv
    OBVIOUS
  <1>1. \A j \in Jobs : job[j].kind = "idle"
    BY DEF AccountsInit, Idle
  <1>2. OwnerThere
    <2>1. account \in {NoAccount} \cup Owners
      <3>1. [password |-> "register", verified |-> FALSE] \in Owners
        BY DEF Owners
      <3> QED BY <3>1 DEF AccountsInit
    <2>2. \A l \in Links : links[l].state = "none"
      BY DEF AccountsInit
    <2> QED BY <1>1, <2>1, <2>2 DEF OwnerThere
  <1>3. Cardinality({}) = 0 /\ IsFiniteSet({})
    BY FS_EmptySet
  <1>4. TokenLimit \in Nat \ {0} /\ LanguageLimit \in Nat /\ Cardinality(Jobs) \in Nat
    BY AccountsAssumption, JobsCount DEF AccountsAssumption
  <1>5. Active = {} /\ At("token") = {} /\ \A l \in Links : Following(l) = {}
    BY <1>1 DEF Active, At, Following, AccountsInit
  <1>6. FewTokens
    BY <1>3, <1>4, <1>5 DEF FewTokens
  <1>7. FewLanguages
    BY <1>3, <1>4 DEF FewLanguages, AccountsInit
  <1>8. FewResets
    <2>1. \A l \in Links : resets[l] = 0 /\ Cardinality(Following(l)) = 0
      BY <1>3, <1>5 DEF AccountsInit
    <2>2. \A l \in Links : resets[l] + Cardinality(Following(l)) <= Cardinality(Jobs)
      BY <1>4, <2>1
    <2> QED BY <1>1, <2>1, <2>2 DEF FewResets, FewOf, FollowsALink
  <1> QED BY <1>2, <1>6, <1>7, <1>8 DEF OwnerInv, AccountsInit

\* What an operation that begins or ends does to the others.
LEMMA OneJob ==
    ASSUME AccountsInv, NEW j \in Jobs, NEW op, job' = [job EXCEPT ![j] = op]
    PROVE  job'[j] = op /\ \A i \in Jobs \ {j} : job'[i] = job[i]
PROOF
  BY DEF AccountsInv, AccountsTyped

----------------------------------------------------------------------------
(* Tokens.                                                                  *)

LEMMA NoMoreTokens ==
    ASSUME FewTokens, Active' \subseteq Active, At("token")' \subseteq At("token")
    PROVE  FewTokens'
PROOF
  <1>1. At("token") \subseteq Jobs /\ At("token")' \subseteq Jobs
    BY DEF At
  <1>2. /\ IsFiniteSet(At("token")) /\ Cardinality(At("token")') <= Cardinality(At("token"))
        /\ Cardinality(At("token")) \in Nat /\ Cardinality(At("token")') \in Nat
        /\ Cardinality(Jobs) \in Nat
    BY <1>1, JobsCount, FS_Subset
  <1>3. /\ IsFiniteSet(Active') /\ Cardinality(Active') <= Cardinality(Active)
        /\ Cardinality(Active) \in Nat /\ Cardinality(Active') \in Nat
    BY FS_Subset, FS_CardinalityType DEF FewTokens
  <1>4. TokenLimit \in Nat
    BY AccountsAssumption DEF AccountsAssumption
  <1>5. Cardinality(Active') + Cardinality(At("token")') < TokenLimit + Cardinality(Jobs)
    BY <1>2, <1>3, <1>4 DEF FewTokens
  <1> QED BY <1>3, <1>5 DEF FewTokens

LEMMA TokensKeep ==
    ASSUME AccountsInv, FewTokens, [AccessNext \/ ProfileNext]_accountVars
    PROVE  FewTokens'
PROOF
  <1>1. tokens \in [Tokens -> {"none", "active", "revoked"}] /\ TokenLimit \in Nat
    BY AccountsAssumption DEF AccountsAssumption, AccountsInv, AccountsTyped
  <1>2. ASSUME NEW j \in Jobs, NEW op, job' = [job EXCEPT ![j] = op], op.kind # "token"
        PROVE  At("token")' \subseteq At("token")
    BY <1>2, OneJob DEF At
  <1>3. ASSUME UNCHANGED job PROVE At("token")' \subseteq At("token")
    BY <1>3 DEF At
  <1>4. ASSUME UNCHANGED tokens PROVE Active' \subseteq Active
    BY <1>4 DEF Active
  <1>5. Idle.kind # "token"
    BY DEF Idle
  <1>6. CASE UNCHANGED accountVars
    BY <1>3, <1>4, <1>6, NoMoreTokens DEF accountVars
  <1>7. CASE \/ VerifiedElsewhere
             \/ \E l \in Links : Expire(l) \/ \E kind \in {"reset", "verify"} : Send(l, kind)
             \/ \E f \in Texts, value \in {"empty", "own"} : EditText(f, value)
             \/ \E S \in SUBSET Languages : EditLanguages(S)
    BY <1>3, <1>4, <1>7, NoMoreTokens DEF VerifiedElsewhere, Expire, Send, EditText, EditLanguages
  <1>8. CASE \E t \in Tokens : Revoke(t)
    <2>1. UNCHANGED job /\ Active' \subseteq Active
      BY <1>1, <1>8 DEF Revoke, Active
    <2> QED BY <1>3, <2>1, NoMoreTokens
  <1>9. ASSUME NEW j \in Jobs,
               \/ \E kind \in {"register", "oauth"} : Register(j, kind)
               \/ Registered(j) \/ Verify(j)
               \/ \E l \in Links : Follow(j, l)
               \/ Sync(j) \/ \E F \in SUBSET Texts, S \in SUBSET Languages : SyncWrite(j, F, S)
        PROVE  FewTokens'
    <2>1. UNCHANGED tokens
      BY <1>9 DEF Register, Registered, Verify, Follow, Sync, SyncWrite
    <2>2. \E op : op.kind # "token" /\ job' = [job EXCEPT ![j] = op]
      <3>1. CASE \E kind \in {"register", "oauth"} : Register(j, kind)
        <4>1. PICK kind \in {"register", "oauth"} : Register(j, kind)
          BY <3>1
        <4>2. [kind |-> kind].kind # "token"
          OBVIOUS
        <4> QED BY <4>1, <4>2 DEF Register, Start
      <3>2. CASE \E l \in Links : Follow(j, l)
        <4>1. PICK l \in Links : Follow(j, l)
          BY <3>2
        <4>2. [kind |-> links[l].kind, link |-> l].kind # "token"
          BY DEF AccountsInv, AccountsTyped
        <4> QED BY <4>1, <4>2 DEF Follow, Start
      <3>3. CASE Sync(j)
        <4>1. [kind |-> "sync", texts |-> texts, spoken |-> spoken].kind # "token"
          OBVIOUS
        <4> QED BY <3>3, <4>1 DEF Sync, Start
      <3>4. CASE \/ Registered(j) \/ Verify(j)
                 \/ \E F \in SUBSET Texts, S \in SUBSET Languages : SyncWrite(j, F, S)
        BY <1>5, <3>4 DEF Registered, Verify, SyncWrite, End
      <3> QED BY <1>9, <3>1, <3>2, <3>3, <3>4
    <2> QED BY <1>2, <1>4, <2>1, <2>2, NoMoreTokens
  <1>10. ASSUME NEW j \in Jobs, Reset(j) PROVE FewTokens'
    <2>1. At("token")' \subseteq At("token")
      BY <1>2, <1>5, <1>10 DEF Reset, End
    <2>2. Active' \subseteq Active
      BY <1>10 DEF Reset, Active
    <2> QED BY <2>1, <2>2, NoMoreTokens
  <1>11. ASSUME NEW j \in Jobs, CreateToken(j) PROVE FewTokens'
    <2>1. Active' = Active /\ Cardinality(Active) < TokenLimit
      BY <1>11 DEF CreateToken, BelowLimit, Active
    <2>2. Cardinality(At("token")') \in Nat /\ Cardinality(At("token")') <= Cardinality(Jobs)
          /\ Cardinality(Jobs) \in Nat
      <3>1. At("token")' \subseteq Jobs
        BY DEF At
      <3> QED BY <3>1, JobsCount
    <2>3. Cardinality(Active) \in Nat
      BY FS_CardinalityType DEF FewTokens
    <2>4. Cardinality(Active') + Cardinality(At("token")') < TokenLimit + Cardinality(Jobs)
      BY <1>1, <2>1, <2>2, <2>3
    <2> QED BY <2>1, <2>4 DEF FewTokens
  <1>12. ASSUME NEW j \in Jobs, NEW t \in Tokens, TokenCreated(j, t) PROVE FewTokens'
    <2>1. Active' = Active \cup {t} /\ t \notin Active
      BY <1>1, <1>12 DEF TokenCreated, Active
    <2>2. j \in At("token") /\ At("token")' = At("token") \ {j}
      <3>1. job[j].kind = "token" /\ job' = [job EXCEPT ![j] = Idle]
        BY <1>12 DEF TokenCreated, End
      <3>2. job'[j] = Idle /\ \A i \in Jobs \ {j} : job'[i] = job[i]
        BY <3>1, OneJob
      <3> QED BY <1>5, <3>1, <3>2 DEF At
    <2>3. IsFiniteSet(Active') /\ Cardinality(Active') = Cardinality(Active) + 1
          /\ Cardinality(Active) \in Nat
      BY <2>1, FS_AddElement, FS_CardinalityType DEF FewTokens
    <2>4. IsFiniteSet(At("token")) /\ Cardinality(At("token")) \in Nat /\ Cardinality(Jobs) \in Nat
      <3>1. At("token") \subseteq Jobs
        BY DEF At
      <3> QED BY <3>1, JobsCount
    <2>5. Cardinality(At("token")') = Cardinality(At("token")) - 1
      BY <2>2, <2>4, FS_RemoveElement
    <2>6. Cardinality(Active') + Cardinality(At("token")') < TokenLimit + Cardinality(Jobs)
      BY <1>1, <2>3, <2>4, <2>5 DEF FewTokens
    <2> QED BY <2>3, <2>6 DEF FewTokens
  <1>13. CASE AccessNext
    BY <1>7, <1>8, <1>9, <1>10, <1>11, <1>12, <1>13 DEF AccessNext
  <1>14. CASE ProfileNext
    BY <1>7, <1>9, <1>14 DEF ProfileNext
  <1> QED BY <1>6, <1>13, <1>14

----------------------------------------------------------------------------
(* The owner, the languages, and the resets by one link.                    *)

LEMMA LanguagesCount ==
    ASSUME NEW S, S \subseteq Languages
    PROVE  IsFiniteSet(S) /\ Cardinality(S) \in Nat
PROOF
  BY AccountsAssumption, FS_Subset, FS_CardinalityType DEF AccountsAssumption

LEMMA LanguagesKeep ==
    ASSUME AccountsInv, FewLanguages, [AccessNext \/ ProfileNext]_accountVars
    PROVE  FewLanguages'
PROOF
  <1>1. CASE UNCHANGED spoken
    BY <1>1 DEF FewLanguages
  <1>2. CASE \E S \in SUBSET Languages : Cardinality(S) <= LanguageLimit /\ EditLanguages(S)
    BY <1>2 DEF FewLanguages, EditLanguages
  <1>3. ASSUME NEW j \in Jobs, NEW F \in SUBSET Texts, NEW H \in SUBSET Languages, SyncWrite(j, F, H)
        PROVE  FewLanguages'
    <2> DEFINE all == job[j].spoken \cup H
    <2>1. PICK S \in SUBSET Languages :
              Merged(j, H, S) /\ spoken' = IF S = job[j].spoken THEN spoken ELSE S
      BY <1>3 DEF SyncWrite
    <2>2. all \subseteq Languages
      BY <1>3, OperationIs DEF AccountsInv, SyncWrite
    <2>3. Cardinality(all) \in Nat /\ LanguageLimit \in Nat
      BY <2>2, LanguagesCount, AccountsAssumption DEF AccountsAssumption
    <2>4. Cardinality(S) <= LanguageLimit
      BY <2>1, <2>3 DEF Merged
    <2> QED BY <2>1, <2>4 DEF FewLanguages
  <1>4. CASE AccessNext
    BY <1>1, <1>4 DEF AccessNext, VerifiedElsewhere, Expire, Send, Revoke, Register, Registered,
                      Reset, Verify, CreateToken, Follow, TokenCreated
  <1>5. CASE ProfileNext
    BY <1>1, <1>2, <1>3, <1>5 DEF ProfileNext, EditText, Sync
  <1>6. CASE UNCHANGED accountVars
    BY <1>1, <1>6 DEF accountVars
  <1> QED BY <1>4, <1>5, <1>6

\* What a step does to links and to those who follow them.
LEMMA LinksAfter ==
    ASSUME AccountsInv, [AccessNext \/ ProfileNext]_accountVars
    PROVE  /\ \A l \in Links : links'[l].state # "none" /\ links[l].state = "none" => account # NoAccount
           /\ \A l \in Links : links[l].state # "none" =>
                  links'[l].state # "none" /\ links'[l].kind = links[l].kind
           /\ \A l \in Links : links[l].state = "used" => links'[l].state = "used"
           /\ \A j \in Jobs : job'[j].kind \in {"reset", "verify"} =>
                  \/ job'[j] = job[j]
                  \/ links[job'[j].link].state = "sent" /\ links[job'[j].link].kind = job'[j].kind
                     /\ job'[j].link \in Links /\ UNCHANGED <<links, resets, account>>
                     /\ \A i \in Jobs \ {j} : job'[i] = job[i]
PROOF
  <1> DEFINE P == /\ \A l \in Links : links'[l].state # "none" /\ links[l].state = "none" => account # NoAccount
                  /\ \A l \in Links : links[l].state # "none" =>
                        links'[l].state # "none" /\ links'[l].kind = links[l].kind
                  /\ \A l \in Links : links[l].state = "used" => links'[l].state = "used"
             Q == \A j \in Jobs : job'[j].kind \in {"reset", "verify"} =>
                  \/ job'[j] = job[j]
                  \/ links[job'[j].link].state = "sent" /\ links[job'[j].link].kind = job'[j].kind
                     /\ job'[j].link \in Links /\ UNCHANGED <<links, resets, account>>
                     /\ \A i \in Jobs \ {j} : job'[i] = job[i]
  <1>1. links \in [Links -> [kind: {"reset", "verify"}, state: {"none", "sent", "expired", "used"}]]
    BY DEF AccountsInv, AccountsTyped
  <1>2. ASSUME UNCHANGED links PROVE P
    BY <1>2
  <1>3. ASSUME UNCHANGED job PROVE Q
    BY <1>3
  <1>4. ASSUME NEW j \in Jobs, NEW op, job' = [job EXCEPT ![j] = op], op.kind \notin {"reset", "verify"}
        PROVE  Q
    BY <1>4, OneJob
  <1>5. Idle.kind = "idle"
    BY DEF Idle
  <1>6. ASSUME NEW j \in Jobs, UseUp(j) PROVE P
    BY <1>1, <1>6 DEF UseUp, UsedUp
  <1>7. ASSUME UNCHANGED accountVars PROVE P /\ Q
    BY <1>2, <1>3, <1>7 DEF accountVars
  <1>8. ASSUME \/ VerifiedElsewhere \/ \E t \in Tokens : Revoke(t)
               \/ \E f \in Texts, value \in {"empty", "own"} : EditText(f, value)
               \/ \E S \in SUBSET Languages : EditLanguages(S)
        PROVE  P /\ Q
    BY <1>2, <1>3, <1>8 DEF VerifiedElsewhere, Revoke, EditText, EditLanguages
  <1>9. ASSUME NEW l \in Links, Expire(l) PROVE P /\ Q
    BY <1>1, <1>3, <1>9 DEF Expire
  <1>10. ASSUME NEW l \in Links, NEW kind \in {"reset", "verify"}, Send(l, kind) PROVE P /\ Q
    BY <1>1, <1>3, <1>10 DEF Send
  <1>11. ASSUME NEW j \in Jobs, \/ \E kind \in {"register", "oauth"} : Register(j, kind)
                                \/ CreateToken(j) \/ Sync(j)
         PROVE  P /\ Q
    <2>1. \E op : op.kind \notin {"reset", "verify"} /\ job' = [job EXCEPT ![j] = op]
      <3>1. CASE \E kind \in {"register", "oauth"} : Register(j, kind)
        <4>1. PICK kind \in {"register", "oauth"} : Register(j, kind)
          BY <3>1
        <4>2. [kind |-> kind].kind \notin {"reset", "verify"}
          OBVIOUS
        <4> QED BY <4>1, <4>2 DEF Register, Start
      <3>2. CASE CreateToken(j)
        <4>1. [kind |-> "token"].kind \notin {"reset", "verify"}
          OBVIOUS
        <4> QED BY <3>2, <4>1 DEF CreateToken, Start
      <3>3. CASE Sync(j)
        <4>1. [kind |-> "sync", texts |-> texts, spoken |-> spoken].kind \notin {"reset", "verify"}
          OBVIOUS
        <4> QED BY <3>3, <4>1 DEF Sync, Start
      <3> QED BY <1>11, <3>1, <3>2, <3>3
    <2>2. UNCHANGED links
      BY <1>11 DEF Register, CreateToken, Sync
    <2> QED BY <1>2, <1>4, <2>1, <2>2
  <1>12. ASSUME NEW j \in Jobs, \/ Registered(j) \/ \E t \in Tokens : TokenCreated(j, t)
                                \/ \E F \in SUBSET Texts, S \in SUBSET Languages : SyncWrite(j, F, S)
         PROVE  P /\ Q
    <2>1. job' = [job EXCEPT ![j] = Idle] /\ UNCHANGED links
      BY <1>12 DEF Registered, TokenCreated, SyncWrite, End
    <2> QED BY <1>2, <1>4, <1>5, <2>1
  <1>13. ASSUME NEW j \in Jobs, Reset(j) \/ Verify(j) PROVE P /\ Q
    <2>1. job' = [job EXCEPT ![j] = Idle] /\ UseUp(j)
      BY <1>13 DEF Reset, Verify, End
    <2> QED BY <1>4, <1>5, <1>6, <2>1
  <1>14. ASSUME NEW j \in Jobs, NEW l \in Links, Follow(j, l) PROVE P /\ Q
    <2> DEFINE op == [kind |-> links[l].kind, link |-> l]
    <2>1. links[l].state = "sent" /\ job' = [job EXCEPT ![j] = op] /\ UNCHANGED <<links, resets, account>>
      BY <1>14 DEF Follow, Start
    <2>2. op.link = l /\ op.kind = links[l].kind
      OBVIOUS
    <2> HIDE DEF op
    <2>3. job'[j] = op /\ \A i \in Jobs \ {j} : job'[i] = job[i]
      BY <2>1, OneJob
    <2> QED BY <1>2, <2>1, <2>2, <2>3
  <1> HIDE DEF P, Q
  <1>15. ASSUME AccessNext PROVE P /\ Q
    BY <1>8, <1>9, <1>10, <1>11, <1>12, <1>13, <1>14, <1>15 DEF AccessNext
  <1>16. ASSUME ProfileNext PROVE P /\ Q
    BY <1>8, <1>11, <1>12, <1>16 DEF ProfileNext
  <1>17. P /\ Q
    BY <1>7, <1>15, <1>16
  <1> QED BY <1>17 DEF P, Q

LEMMA OwnerKeeps ==
    ASSUME AccountsInv, OwnerThere, [AccessNext \/ ProfileNext]_accountVars
    PROVE  OwnerThere'
PROOF
  <1>1. ASSUME NEW j \in Jobs, Registered(j) PROVE account' = account \/ account' \in Owners
    BY <1>1 DEF Registered, Owners, OwnerThere
  <1>2. ASSUME NEW j \in Jobs, Reset(j) \/ Verify(j) PROVE account' \in Owners
    <2>1. account \in Owners
      BY <1>2 DEF OwnerThere, Reset, Verify
    <2>2. CASE Reset(j)
      BY <2>1, <2>2 DEF Reset, Owners
    <2>3. CASE Verify(j)
      BY <2>1, <2>3 DEF Verify, Owners
    <2> QED BY <1>2, <2>2, <2>3
  <1>3. CASE VerifiedElsewhere
    BY <1>3 DEF VerifiedElsewhere, Owners, OwnerThere
  <1>4. AccessNext => account' = account \/ account' \in Owners
    BY <1>1, <1>2, <1>3 DEF AccessNext, OwnerThere, VerifiedElsewhere, Expire, Send, Revoke, Register,
                            CreateToken, Follow, TokenCreated, Owners
  <1>5. ProfileNext => account' = account
    BY DEF ProfileNext, EditText, EditLanguages, Sync, SyncWrite
  <1>6. account' = account \/ account' \in Owners
    BY <1>4, <1>5 DEF accountVars
  <1>7. \A l \in Links : links'[l].state # "none" => account' \in Owners
    BY <1>6, LinksAfter DEF OwnerThere
  <1>8. \A j \in Jobs : job'[j].kind \in {"reset", "verify"} => account' \in Owners
    <2> SUFFICES ASSUME NEW j \in Jobs, job'[j].kind \in {"reset", "verify"} PROVE account' \in Owners
      OBVIOUS
    <2>1. \/ job'[j] = job[j]
          \/ job'[j].link \in Links /\ links[job'[j].link].state = "sent"
      BY LinksAfter
    <2> QED BY <1>6, <2>1 DEF OwnerThere
  <1> QED BY <1>6, <1>7, <1>8 DEF OwnerThere

LEMMA FollowingCount ==
    ASSUME NEW l
    PROVE  /\ IsFiniteSet(Following(l)) /\ Cardinality(Following(l)) \in Nat
           /\ Cardinality(Following(l)') \in Nat /\ Cardinality(Jobs) \in Nat
           /\ Cardinality(Following(l)') <= Cardinality(Jobs)
           /\ Following(l)' \subseteq Following(l)
                => Cardinality(Following(l)') <= Cardinality(Following(l))
PROOF
  <1>1. Following(l) \subseteq Jobs /\ Following(l)' \subseteq Jobs
    BY DEF Following
  <1> QED BY <1>1, JobsCount, FS_Subset

\* The password has been reset by the link of operation j, or by none.
LEMMA ResetsAfter ==
    ASSUME AccountsInv, [AccessNext \/ ProfileNext]_accountVars
    PROVE  \/ UNCHANGED resets
           \/ \E j \in Jobs : Reset(j)
PROOF
  BY DEF AccessNext, ProfileNext, VerifiedElsewhere, Expire, Send, Revoke, Register, Registered,
         Verify, CreateToken, Follow, TokenCreated, EditText, EditLanguages, Sync, SyncWrite, accountVars

LEMMA ResetsKeep ==
    ASSUME AccountsInv, FewResets, [AccessNext \/ ProfileNext]_accountVars
    PROVE  FewResets'
PROOF
  <1>1. /\ links \in [Links -> [kind: {"reset", "verify"}, state: {"none", "sent", "expired", "used"}]]
        /\ resets \in [Links -> Nat]
    BY DEF AccountsInv, AccountsTyped
  <1>2. \A j \in Jobs : job'[j].kind = "reset" =>
           links'[job'[j].link].kind = "reset" /\ links'[job'[j].link].state # "none"
    <2> SUFFICES ASSUME NEW j \in Jobs, job'[j].kind = "reset"
                 PROVE  links'[job'[j].link].kind = "reset" /\ links'[job'[j].link].state # "none"
      OBVIOUS
    <2>1. CASE job'[j] = job[j]
      <3>1. job[j].link \in Links
        BY <2>1, OperationIs DEF AccountsInv
      <3> QED BY <2>1, <3>1, LinksAfter DEF FewResets, FewOf, FollowsALink
    <2>2. CASE job'[j] # job[j]
      BY <1>1, <2>2, LinksAfter
    <2> QED BY <2>1, <2>2
  <1>3. ASSUME UNCHANGED resets, NEW l \in Links
        PROVE  /\ links'[l].state # "used" => resets'[l] = 0
               /\ resets'[l] + Cardinality(Following(l)') <= Cardinality(Jobs)
    <2>1. links'[l].state # "used" => resets'[l] = 0
      BY <1>3, LinksAfter DEF FewResets, FewOf, FollowsALink
    <2>2. CASE Following(l)' \subseteq Following(l)
      <3>1. resets[l] + Cardinality(Following(l)) <= Cardinality(Jobs) /\ resets[l] \in Nat
        BY <1>1 DEF FewResets, FewOf, FollowsALink
      <3>2. Cardinality(Following(l)') <= Cardinality(Following(l))
        BY <2>2, FollowingCount
      <3> QED BY <1>3, <2>1, <3>1, <3>2, FollowingCount
    <2>3. CASE ~(Following(l)' \subseteq Following(l))
      <3>1. PICK j \in Jobs : job'[j].kind = "reset" /\ job'[j].link = l /\ job'[j] # job[j]
        BY <2>3 DEF Following
      <3>2. links[l].state = "sent"
        BY <3>1, LinksAfter
      <3>3. resets[l] = 0
        BY <3>2 DEF FewResets, FewOf, FollowsALink
      <3> QED BY <1>3, <2>1, <3>3, FollowingCount
    <2> QED BY <2>2, <2>3
  <1>4. ASSUME NEW j \in Jobs, Reset(j), NEW l \in Links
        PROVE  /\ links'[l].state # "used" => resets'[l] = 0
               /\ resets'[l] + Cardinality(Following(l)') <= Cardinality(Jobs)
    <2> DEFINE k == job[j].link
    <2>1. /\ job[j].kind = "reset" /\ job' = [job EXCEPT ![j] = Idle]
          /\ links' = [i \in Links |-> IF i \in UsedUp(j) THEN [links[i] EXCEPT !.state = "used"]
                                        ELSE links[i]]
          /\ resets' = [resets EXCEPT ![k] = @ + 1]
      BY <1>4 DEF Reset, UseUp, End
    <2>2. k \in Links /\ j \in Following(k) /\ k \in UsedUp(j)
      BY <2>1, OperationIs DEF AccountsInv, Following, UsedUp, FewResets, FewOf, FollowsALink
    <2>3. Idle.kind # "reset" /\ job'[j] = Idle /\ \A i \in Jobs \ {j} : job'[i] = job[i]
      BY <2>1, OneJob DEF Idle
    <2>4. \A i \in Links : Following(i)' = Following(i) \ {j}
      BY <2>3 DEF Following
    <2>5. CASE l = k
      <3>1. links'[l].state = "used" /\ resets'[l] = resets[l] + 1 /\ resets[l] \in Nat
        BY <1>1, <2>1, <2>2, <2>5
      <3>2. Cardinality(Following(l)') = Cardinality(Following(l)) - 1
        BY <2>2, <2>4, <2>5, FollowingCount, FS_RemoveElement
      <3>3. resets[l] + Cardinality(Following(l)) <= Cardinality(Jobs)
        BY DEF FewResets, FewOf, FollowsALink
      <3> QED BY <3>1, <3>2, <3>3, FollowingCount
    <2>6. CASE l # k
      <3>1. resets'[l] = resets[l] /\ resets[l] \in Nat
        BY <1>1, <2>1, <2>6
      <3>2. links'[l].state # "used" => resets'[l] = 0
        BY <3>1, LinksAfter DEF FewResets, FewOf, FollowsALink
      <3>3. Cardinality(Following(l)') <= Cardinality(Following(l))
        BY <2>4, FollowingCount
      <3>4. resets[l] + Cardinality(Following(l)) <= Cardinality(Jobs)
        BY DEF FewResets, FewOf, FollowsALink
      <3> QED BY <3>1, <3>2, <3>3, <3>4, FollowingCount
    <2> QED BY <2>5, <2>6
  <1>5. \A l \in Links : FewOf(l)'
    BY <1>3, <1>4, ResetsAfter DEF FewOf
  <1>6. FollowsALink'
    BY <1>2 DEF FollowsALink
  <1> QED BY <1>5, <1>6 DEF FewResets

LEMMA OwnersKeep ==
    AccountsInv /\ OwnerInv /\ [AccessNext \/ ProfileNext]_accountVars => OwnerInv'
PROOF
  <1> SUFFICES ASSUME AccountsInv, OwnerInv, [AccessNext \/ ProfileNext]_accountVars PROVE OwnerInv'
    OBVIOUS
  <1>1. crossed' = crossed \/ crossed' = At("sync") \/ crossed' \subseteq crossed
    BY DEF AccessNext, ProfileNext, VerifiedElsewhere, Expire, Send, Revoke, Register, Registered,
           Reset, Verify, CreateToken, Follow, TokenCreated, EditText, EditLanguages, Sync, SyncWrite,
           accountVars
  <1>2. crossed' \subseteq Jobs
    BY <1>1 DEF OwnerInv, At
  <1> QED BY <1>2, OwnerKeeps, TokensKeep, LanguagesKeep, ResetsKeep DEF OwnerInv

LEMMA AccountsAreTyped == AccountsInv /\ OwnerInv => AccountsTypeOK
PROOF
  <1> SUFFICES ASSUME AccountsInv, OwnerInv PROVE AccountsTypeOK
    OBVIOUS
  <1>1. \A j \in Jobs : job[j].kind \in {"idle", "register", "oauth", "reset", "verify", "token", "sync"}
    BY OperationIs DEF AccountsInv, Operations
  <1>2. resets \in [Links -> 0 .. Cardinality(Jobs)]
    <2>1. \A l \in Links : resets[l] \in 0 .. Cardinality(Jobs)
      <3> SUFFICES ASSUME NEW l \in Links PROVE resets[l] \in 0 .. Cardinality(Jobs)
        OBVIOUS
      <3>1. resets[l] \in Nat /\ resets[l] + Cardinality(Following(l)) <= Cardinality(Jobs)
        BY DEF AccountsInv, AccountsTyped, OwnerInv, FewResets, FewOf, FollowsALink
      <3> QED BY <3>1, FollowingCount
    <2> QED BY <2>1 DEF AccountsInv, AccountsTyped
  <1> QED BY <1>1, <1>2 DEF AccountsInv, AccountsTyped, OwnerInv, OwnerThere, Owners, FewTokens,
                            FewLanguages, AccountsTypeOK

----------------------------------------------------------------------------
(* The bounds of a request to the assistant.                                *)

\* The answers of the provider that n rounds take at most.
Budget(n) == MaxAttempts * n

\* The rounds that are over; the repetition counts as one.
Rounds == IF talk.retried THEN talk.round + 1 ELSE talk.round

Paid ==
    /\ cost \in Nat
    /\ talk.phase = "idle" => cost = 0
    /\ talk.phase = "ask" => cost < Budget(Rounds) + talk.attempt
    /\ talk.phase = "run" => cost <= Budget(Rounds + 1)
    /\ cost <= Budget(MaxRounds + 1)

FewTools == talk.phase = "run" => Cardinality(talk.running) <= BatchSize

CostInv ==
    /\ Paid /\ FewTools
    /\ office \in {"ADMIN", "MEMBER"} /\ again \subseteq Wishes

LEMMA AssistantBounds ==
    MaxAttempts \in Nat \ {0} /\ BatchSize \in Nat /\ MaxRounds \in Nat \ {0}
PROOF
  BY AssistantAssumption DEF AssistantAssumption

LEMMA BudgetGrows ==
    ASSUME NEW n \in Nat
    PROVE  /\ Budget(n) \in Nat /\ Budget(n + 1) = Budget(n) + MaxAttempts
           /\ \A m \in 0 .. n : Budget(m) <= Budget(n)
PROOF
  <1>1. MaxAttempts \in Nat \ {0}
    BY AssistantBounds
  <1>2. Budget(n) \in Nat /\ Budget(n + 1) = Budget(n) + MaxAttempts
    BY <1>1 DEF Budget
  <1>3. ASSUME NEW m \in 0 .. n PROVE Budget(m) <= Budget(n)
    <2>1. m \in Nat /\ n - m \in Nat /\ n = m + (n - m)
      OBVIOUS
    <2>2. MaxAttempts * (m + (n - m)) = MaxAttempts * m + MaxAttempts * (n - m)
      BY <1>1, <2>1
    <2>3. MaxAttempts * (n - m) \in Nat /\ MaxAttempts * m \in Nat
      BY <1>1, <2>1
    <2> QED BY <2>1, <2>2, <2>3 DEF Budget
  <1> QED BY <1>1, <1>2, <1>3

\* The bounds of a request at work.
LEMMA RoundsLeft ==
    ASSUME talk \in Talk
    PROVE  /\ Rounds \in Nat /\ Budget(Rounds) \in Nat
           /\ Budget(Rounds + 1) = Budget(Rounds) + MaxAttempts
           /\ Budget(Rounds + 1) <= Budget(MaxRounds + 1)
           /\ talk.attempt \in 1 .. MaxAttempts /\ MaxAttempts \in Nat \ {0}
PROOF
  <1>1. MaxRounds \in Nat \ {0} /\ MaxAttempts \in Nat \ {0}
    BY AssistantBounds
  <1>2. Rounds \in Nat /\ Rounds + 1 \in 0 .. MaxRounds + 1 /\ talk.attempt \in 1 .. MaxAttempts
    BY <1>1 DEF Rounds, Talk
  <1>3. Budget(Rounds) \in Nat /\ Budget(Rounds + 1) = Budget(Rounds) + MaxAttempts
    BY <1>2, BudgetGrows
  <1>4. Budget(Rounds + 1) <= Budget(MaxRounds + 1)
    <2>1. MaxRounds + 1 \in Nat
      BY <1>1
    <2> QED BY <1>2, <2>1, BudgetGrows
  <1> QED BY <1>1, <1>2, <1>3, <1>4

LEMMA CostStarts == AssistantInit => CostInv
PROOF
  <1> SUFFICES ASSUME AssistantInit PROVE CostInv
    OBVIOUS
  <1>1. talk.phase = "idle" /\ cost = 0
    BY DEF AssistantInit, Silent
  <1>2. Budget(MaxRounds + 1) \in Nat
    <2>1. MaxRounds + 1 \in Nat
      BY AssistantBounds
    <2> QED BY <2>1, BudgetGrows
  <1> QED BY <1>1, <1>2 DEF AssistantInit, CostInv, Paid, FewTools

\* An answer is paid for: within the round, or within the repetition.
LEMMA AnswerCosts ==
    ASSUME TalkInv, CostInv, Answered
    PROVE  /\ talk \in Talk /\ cost' \in Nat
           /\ cost' < Budget(Rounds) + talk.attempt + 1
           /\ cost' <= Budget(Rounds + 1) /\ cost' <= Budget(MaxRounds + 1)
           /\ talk.running = {} /\ UNCHANGED <<office, again>>
PROOF
  <1>1. talk \in Talk /\ talk.phase = "ask" /\ cost' = cost + 1 /\ UNCHANGED <<office, again>>
    BY Phases DEF Answered, TalkInv
  <1>2. cost < Budget(Rounds) + talk.attempt /\ cost \in Nat
    BY <1>1 DEF CostInv, Paid
  <1>3. talk.running = {}
    BY <1>1 DEF TalkInv, Shown
  <1>4. cost' \in Nat /\ cost' < Budget(Rounds) + talk.attempt + 1 /\ cost' <= Budget(Rounds) + MaxAttempts
    BY <1>1, <1>2, RoundsLeft
  <1>5. cost' <= Budget(Rounds + 1) /\ cost' <= Budget(MaxRounds + 1)
    <2>1. Budget(MaxRounds + 1) \in Nat
      <3>1. MaxRounds + 1 \in Nat
        BY AssistantBounds
      <3> QED BY <3>1, BudgetGrows
    <2> QED BY <1>1, <1>4, <2>1, RoundsLeft
  <1> QED BY <1>1, <1>3, <1>4, <1>5

LEMMA AnswerKeepsCost ==
    ASSUME TalkInv, CostInv,
           \/ \E W \in SUBSET Wishes : OpenAICalls(W) \/ GeminiCalls(W)
           \/ TextReply \/ ErrorReply \/ Limited \/ CallFails
    PROVE  CostInv'
PROOF
  <1>1. Answered
    BY DEF OpenAICalls, GeminiCalls, TextReply, ErrorReply, Limited, CallFails
  <1>2. /\ talk \in Talk /\ cost' \in Nat
        /\ cost' < Budget(Rounds) + talk.attempt + 1
        /\ cost' <= Budget(Rounds + 1) /\ cost' <= Budget(MaxRounds + 1)
        /\ talk.running = {} /\ UNCHANGED <<office, again>>
    BY <1>1, AnswerCosts
  <1>3. Budget(MaxRounds + 1)' = Budget(MaxRounds + 1)
    BY DEF Budget
  <1>4. \/ talk' = Over
        \/ \E W : talk' = [talk EXCEPT !.phase = "run", !.asked = W, !.todo = W]
        \/ talk' = [talk EXCEPT !.attempt = @ + 1]
        \/ ~talk.retried /\ (\/ talk' = [talk EXCEPT !.retried = TRUE, !.attempt = 1, !.sees = {}]
                             \/ talk' = [talk EXCEPT !.retried = TRUE, !.attempt = 1])
    BY DEF OpenAICalls, GeminiCalls, Called, TextReply, ErrorReply, Limited, CallFails
  <1>5. CASE talk' = Over
    <2>1. talk'.phase = "over"
      BY <1>5 DEF Over
    <2> QED BY <1>2, <1>3, <2>1 DEF CostInv, Paid, FewTools
  <1>6. ASSUME NEW W, talk' = [talk EXCEPT !.phase = "run", !.asked = W, !.todo = W]
        PROVE  CostInv'
    <2>1. talk'.phase = "run" /\ talk'.running = {} /\ talk'.retried = talk.retried
          /\ talk'.round = talk.round
      BY <1>2, <1>6 DEF Talk
    <2>2. Rounds' = Rounds
      BY <2>1 DEF Rounds
    <2>3. Cardinality(talk'.running) <= BatchSize
      BY <2>1, FS_EmptySet, AssistantBounds
    <2> QED BY <1>2, <2>1, <2>2, <2>3 DEF CostInv, Paid, FewTools, Budget
  <1>7. CASE talk' = [talk EXCEPT !.attempt = @ + 1]
    <2>1. talk'.phase = "ask" /\ talk'.attempt = talk.attempt + 1
          /\ talk'.retried = talk.retried /\ talk'.round = talk.round
      BY <1>1, <1>2, <1>7 DEF Talk, Answered
    <2>2. Rounds' = Rounds
      BY <2>1 DEF Rounds
    <2> QED BY <1>2, <2>1, <2>2, RoundsLeft DEF CostInv, Paid, FewTools, Budget
  <1>8. CASE ~talk.retried /\ (\/ talk' = [talk EXCEPT !.retried = TRUE, !.attempt = 1, !.sees = {}]
                               \/ talk' = [talk EXCEPT !.retried = TRUE, !.attempt = 1])
    <2>1. talk'.phase = "ask" /\ talk'.attempt = 1 /\ talk'.retried = TRUE
          /\ talk'.round = talk.round
      BY <1>1, <1>2, <1>8 DEF Talk, Answered
    <2>2. Rounds' = Rounds + 1
      BY <1>8, <2>1 DEF Rounds
    <2>3. cost' < Budget(Rounds + 1) + 1
      BY <1>2, RoundsLeft
    <2> QED BY <1>2, <2>1, <2>2, <2>3 DEF CostInv, Paid, FewTools, Budget
  <1> QED BY <1>4, <1>5, <1>6, <1>7, <1>8

\* What does not ask the provider costs nothing.
LEMMA ToolsKeepCost ==
    ASSUME TalkInv, CostInv, NextBatch \/ \E w \in Wishes, result \in {"done", "failed", "thrown"} : RunTool(w, result)
    PROVE  CostInv'
PROOF
  <1>1. talk \in Talk /\ talk.phase = "run" /\ UNCHANGED <<office, cost>>
    BY Phases DEF NextBatch, RunTool, TalkInv
  <1>2. again' \subseteq Wishes
    BY DEF NextBatch, RunTool, CostInv
  <1>3. /\ talk'.phase = "run" /\ talk'.round = talk.round /\ talk'.retried = talk.retried
        /\ Cardinality(talk'.running) <= BatchSize
    <2>1. CASE NextBatch
      <3>1. PICK B \in SUBSET talk.todo :
                /\ IF Cardinality(talk.todo) <= BatchSize THEN B = talk.todo
                                                          ELSE Cardinality(B) = BatchSize
                /\ talk' = [talk EXCEPT !.running = B, !.todo = @ \ B]
        BY <2>1 DEF NextBatch
      <3>2. Cardinality(B) <= BatchSize
        BY <3>1, AssistantBounds
      <3> QED BY <1>1, <3>1, <3>2 DEF Talk
    <2>2. ASSUME NEW w \in Wishes, NEW result \in {"done", "failed", "thrown"}, RunTool(w, result)
          PROVE  /\ talk'.phase = "run" /\ talk'.round = talk.round /\ talk'.retried = talk.retried
                 /\ Cardinality(talk'.running) <= BatchSize
      <3>1. talk' = [talk EXCEPT !.running = @ \ {w},
                                 !.memory = IF result = "done" THEN @ \cup {w} ELSE @]
        BY <2>2 DEF RunTool
      <3>2. talk'.running = talk.running \ {w} /\ talk.running \subseteq Wishes
        BY <1>1, <3>1 DEF Talk
      <3>3. IsFiniteSet(talk.running)
        BY <3>2, FS_Subset, AssistantAssumption DEF AssistantAssumption
      <3>4. /\ Cardinality(talk'.running) <= Cardinality(talk.running)
            /\ Cardinality(talk'.running) \in Nat /\ Cardinality(talk.running) \in Nat
        BY <3>2, <3>3, FS_Subset, FS_CardinalityType
      <3>5. Cardinality(talk.running) <= BatchSize
        BY <1>1 DEF CostInv, FewTools
      <3>6. Cardinality(talk'.running) <= BatchSize
        BY <3>4, <3>5, AssistantBounds
      <3> QED BY <1>1, <3>1, <3>6 DEF Talk
    <2> QED BY <2>1, <2>2
  <1>4. Rounds' = Rounds
    BY <1>3 DEF Rounds
  <1> QED BY <1>1, <1>2, <1>3, <1>4 DEF CostInv, Paid, FewTools, Budget

LEMMA RoundKeepsCost ==
    ASSUME TalkInv, CostInv, RoundOver
    PROVE  CostInv'
PROOF
  <1>1. talk \in Talk /\ talk.phase = "run" /\ UNCHANGED <<office, again, cost>>
    BY Phases DEF RoundOver, TalkInv
  <1>2. cost \in Nat /\ cost <= Budget(Rounds + 1) /\ cost <= Budget(MaxRounds + 1)
    BY <1>1 DEF CostInv, Paid
  <1>3. CASE talk' = Over
    <2>1. talk'.phase = "over"
      BY <1>3 DEF Over
    <2> QED BY <1>1, <1>2, <2>1 DEF CostInv, Paid, FewTools, Budget
  <1>4. CASE talk' = [talk EXCEPT !.phase = "ask", !.round = @ + 1, !.attempt = 1,
                                  !.sees = Remember, !.asked = {}]
    <2>1. talk'.phase = "ask" /\ talk'.attempt = 1 /\ talk'.retried = talk.retried
          /\ talk'.round = talk.round + 1 /\ talk.round \in Nat
      BY <1>1, <1>4 DEF Talk
    <2>2. Rounds' = Rounds + 1
      BY <2>1 DEF Rounds
    <2>3. cost' < Budget(Rounds + 1) + 1
      BY <1>1, <1>2, RoundsLeft
    <2> QED BY <1>1, <1>2, <2>1, <2>2, <2>3 DEF CostInv, Paid, FewTools, Budget
  <1> QED BY <1>3, <1>4 DEF RoundOver

LEMMA CostKeeps ==
    ASSUME TalkInv, CostInv, [AssistantNext]_assistantVars
    PROVE  CostInv'
PROOF
  <1>1. CASE UNCHANGED assistantVars
    BY <1>1 DEF assistantVars, CostInv, Paid, FewTools, Budget, Rounds
  <1>2. ASSUME NEW p \in Providers,
               \/ SendMessage(p) \/ GenerateCardDetails(p) \/ GenerateProjectInsights(p)
               \/ AskAboutPush(p) \/ TestConfiguration(p)
        PROVE  CostInv'
    <2>1. /\ talk.phase = "idle" /\ UNCHANGED <<office, again, cost>>
          /\ talk'.phase = "ask" /\ talk'.round = 0 /\ talk'.attempt = 1 /\ talk'.retried = FALSE
      BY <1>2 DEF SendMessage, GenerateCardDetails, GenerateProjectInsights, AskAboutPush,
                  TestConfiguration, Ask
    <2>2. cost' = 0 /\ Rounds' = 0 /\ cost <= Budget(MaxRounds + 1)
      BY <2>1 DEF CostInv, Paid, Rounds
    <2>3. Budget(0) = 0 /\ MaxAttempts \in Nat
      BY AssistantBounds DEF Budget
    <2> QED BY <2>1, <2>2, <2>3 DEF CostInv, Paid, FewTools, Budget
  <1>3. CASE AnsweredAtOnce \/ Aborted
    <2>1. talk'.phase = "over" /\ UNCHANGED <<office, again, cost>>
      BY <1>3 DEF AnsweredAtOnce, Aborted, Over
    <2> QED BY <2>1 DEF CostInv, Paid, FewTools, Budget
  <1>4. CASE TimeUp
    <2>1. talk \in Talk /\ talk' = [talk EXCEPT !.late = TRUE] /\ UNCHANGED <<office, again, cost>>
      BY <1>4, Phases DEF TimeUp, TalkInv
    <2>2. /\ talk'.phase = talk.phase /\ talk'.round = talk.round /\ talk'.attempt = talk.attempt
          /\ talk'.retried = talk.retried /\ talk'.running = talk.running
      BY <2>1 DEF Talk
    <2>3. Rounds' = Rounds
      BY <2>2 DEF Rounds
    <2> QED BY <2>1, <2>2, <2>3 DEF CostInv, Paid, FewTools, Budget
  <1>5. CASE OfficeChanges
    BY <1>5 DEF OfficeChanges, CostInv, Paid, FewTools, Budget, Rounds
  <1> QED BY <1>1, <1>2, <1>3, <1>4, <1>5, AnswerKeepsCost, ToolsKeepCost, RoundKeepsCost
          DEF AssistantNext, OpenAILimited, GeminiLimited

LEMMA AssistantTyped == TalkInv /\ CostInv => AssistantTypeOK
PROOF
  BY DEF TalkInv, TalkTyped, CostInv, Paid, FewTools, Budget, AssistantTypeOK

----------------------------------------------------------------------------
(* The rest of the messages with other servers.                             *)

HooksTyped == hooks \in [Hooks -> {"none", "active", "passive", "deleted"}] /\ cut \subseteq Deliveries

HubTyped == shelved \subseteq Tickets /\ failed \subseteq HubEvents /\ bound \subseteq HubEvents \X Tickets

LEMMA DeliveriesStart == DeliveryInit => HooksTyped /\ HubTyped
PROOF
  BY DEF DeliveryInit, HooksTyped, HubTyped

LEMMA HooksKeep == HooksTyped /\ [OutNext]_outVars => HooksTyped'
PROOF
  BY DEF HooksTyped, OutNext, outVars, Restart, DeleteHook, SetHook, Dispatch, Create, Succeed, Retry,
         Fail

LEMMA HubKeeps == InInv /\ HubTyped /\ [InNext]_inVars => HubTyped'
PROOF
  <1> SUFFICES ASSUME InInv, HubTyped, [InNext]_inVars PROVE HubTyped'
    OBVIOUS
  <1>1. \A h \in Handlers : handler[h] = NoWork \/ handler[h].event \in HubEvents
    BY DEF InInv, InTyped, HandlerWork
  <1>2. ASSUME NEW h \in Handlers, NEW t \in Tickets, Bind(h, t) PROVE HubTyped'
    BY <1>1, <1>2 DEF Bind, HubTyped
  <1>3. ASSUME NEW h \in Handlers, FailEvent(h) PROVE HubTyped'
    BY <1>1, <1>3 DEF FailEvent, HubTyped
  <1>4. ASSUME NEW t \in Tickets, UserArchives(t) \/ UserDeletes(t) PROVE HubTyped'
    BY <1>4 DEF UserArchives, UserDeletes, HubTyped
  <1>5. CASE DeleteRepo
    BY <1>5 DEF DeleteRepo, HubTyped
  <1>6. CASE InNext
    BY <1>2, <1>3, <1>4, <1>5, <1>6 DEF InNext, HubTyped, SetRepo, Record, Find, Move, EndEvent, Receive,
                                        MoveByKey, UserMoves
  <1> QED BY <1>6 DEF inVars, HubTyped

LEMMA DeliveryTyped == OutInv /\ InInv /\ HooksTyped /\ HubTyped => DeliveryTypeOK
PROOF
  BY DEF OutInv, OutTyped, InInv, InTyped, HooksTyped, HubTyped, DeliveryTypeOK

----------------------------------------------------------------------------
(* The server.                                                              *)

\* The server starts every part where the part starts.
LEMMA PartsStart == Init => IntakeInit /\ AccountsInit /\ DeliveryInit /\ DigestInit /\ AssistantInit
PROOF
  BY DEF Init

\* A step of the server is one of the assistant or leaves it alone.
LEMMA AssistantSteps == [Next]_vars => [AssistantNext]_assistantVars
PROOF
  BY DEF Next, vars, assistantVars

\* A step of the server is one of the intake or leaves it alone.
LEMMA IntakeSteps == [Next]_vars => [IntakeNext]_intakeVars
PROOF
  BY DEF Next, vars, intakeVars

\* Two requests with one idempotency key are not worked on at the same time, unless
\* the sweep took the record of one that was still at work.
THEOREM OneAtATimeCorrect == Spec => []OneAtATime
PROOF
  <1>1. Init => RecordInv
    BY PartsStart, RecordsStart
  <1>2. RecordInv /\ [Next]_vars => RecordInv'
    BY IntakeSteps, RecordKeeps
  <1> QED
    BY <1>1, <1>2, RecordsGuard, PTL DEF Spec

\* Whatever the provider answers and whenever the timer ends, what a tool has
\* reported as done is not done again, unless a call was repeated without it.
THEOREM DoneOnceCorrect == Spec => []DoneOnce
PROOF
  <1>1. Init => TalkInv
    BY PartsStart, TalkStarts
  <1>2. TalkInv /\ [Next]_vars => TalkInv'
    BY AssistantSteps, TalkKeeps
  <1>3. TalkInv => DoneOnce
    BY DEF TalkInv
  <1> QED
    BY <1>1, <1>2, <1>3, PTL DEF Spec

\* A step of the server is one of the outgoing webhooks or leaves them alone.
LEMMA OutSteps == [Next]_vars => [OutNext]_outVars
PROOF
  BY DEF Next, vars, outVars

\* A step of the server is one of the incoming events or leaves them alone.
LEMMA InSteps == [Next]_vars => [InNext]_inVars
PROOF
  BY DEF Next, vars, inVars

\* A step of the server is one on accounts or profiles or leaves them alone.
LEMMA AccountSteps == [Next]_vars => [AccessNext \/ ProfileNext]_accountVars
PROOF
  BY DEF Next, vars, accountVars

\* What the row of a webhook's delivery says is true, whichever of its steps fail,
\* whatever becomes of the webhook and of the process (webhook.service).
THEOREM DeliverySettledCorrect == Spec => []DeliverySettled
PROOF
  <1>1. Init => OutInv
    BY PartsStart, OutStarts
  <1>2. OutInv /\ [Next]_vars => OutInv'
    BY OutSteps, OutKeeps
  <1> QED
    BY <1>1, <1>2, OutIsSettled, PTL DEF Spec

\* However often GitHub sends an event and however many handlers take it at once, it
\* moves a card at most once; and handled without a failure it is bound to every card
\* found for it.
THEOREM EventOnceCorrect == Spec => []EventOnce
PROOF
  <1>1. Init => InInv
    BY PartsStart, InStarts
  <1>2. InInv /\ [Next]_vars => InInv'
    BY InSteps, InKeeps
  <1> QED
    BY <1>1, <1>2, EventsOnce, PTL DEF Spec

\* A step of the server is one of the digest or leaves it alone.
LEMMA DigestSteps == [Next]_vars => [DigestNext]_digestVars
PROOF
  BY DEF Next, vars, digestVars

LEMMA DigestInvariance == Spec => []DigestInv
PROOF
  <1>1. Init => DigestInv
    BY PartsStart, DigestStarts
  <1>2. DigestInv /\ [Next]_vars => DigestInv'
    BY DigestSteps, DigestKeeps
  <1> QED
    BY <1>1, <1>2, PTL DEF Spec

\* The claim by conditional update (digest.service): runs that overlap, of any number,
\* send a user one digest a day, unless a mail went out though its sending failed or a
\* mark was put back that was not the one the claim had replaced.
THEOREM OncePerDayCorrect == Spec => []OncePerDay
PROOF
  BY DigestInvariance, PTL DEF DigestInv

\* Putting the mark back: a user whose mark says today is being served or has been,
\* unless a run stopped halfway or could not put the mark back.
THEOREM MarkedIsServedCorrect == Spec => []MarkedIsServed
PROOF
  BY DigestInvariance, PTL DEF DigestInv

LEMMA AccountsInvariance == Spec => []AccountsInv
PROOF
  <1>1. Init => AccountsInv
    BY PartsStart, AccountsStart
  <1>2. AccountsInv /\ [Next]_vars => AccountsInv'
    BY AccountSteps, AccountsKeep
  <1> QED
    BY <1>1, <1>2, PTL DEF Spec

\* A reset of the password is final: of the links and tokens from before it none is of
\* use, except a link that was being followed at that moment (auth.service).
THEOREM ResetIsFinalCorrect == Spec => ResetIsFinal
PROOF
  <1>1. AccountsInv /\ [Next]_vars =>
          [/\ \A l \in spent : resets'[l] = resets[l]
           /\ resets' # resets => \A t \in Active : tokens'[t] # "active"]_accountVars
    BY AccountSteps, ResetsFinal
  <1> QED
    BY <1>1, AccountsInvariance, PTL DEF Spec, ResetIsFinal

\* The synchronisation with GitHub, which reads the profile and writes it later, takes
\* away nothing that was in the profile when it read it, unless the user edits meanwhile.
THEOREM ProfileKeptCorrect == Spec => ProfileKept
PROOF
  <1>1. AccountsInv /\ [Next]_vars =>
          [\A j \in At("sync") \ crossed : job'[j] = Idle =>
             /\ \A f \in Texts : texts[f] = "own" => texts'[f] = "own"
             /\ job[j].spoken \cap spoken \subseteq spoken']_accountVars
    BY AccountSteps, ProfilesKept
  <1> QED
    BY <1>1, AccountsInvariance, PTL DEF Spec, ProfileKept

\* What all parts of the server keep to, with the limits they set.
ServerInv ==
    /\ busy \in Parts
    /\ RecordInv /\ LimitsInv /\ AccountsInv /\ OwnerInv
    /\ OutInv /\ HooksTyped /\ InInv /\ HubTyped /\ DigestInv /\ TalkInv /\ CostInv

(* Every part of the server keeps to its types and to its limits: the calls  *)
(* let through in a window of the rate limits, the logins that fail before   *)
(* the lock, the active API tokens, the languages of a profile, the tries of *)
(* a delivery, and the answers of a provider one request can cost; no mark   *)
(* of a digest lies in the future.                                           *)
THEOREM ServerTypesCorrect == Spec => []TypeOK
PROOF
  <1>1. Init => ServerInv
    BY PartsStart, RecordsStart, LimitsStart, AccountsStart, OwnersStart, OutStarts, InStarts,
       DeliveriesStart, DigestStarts, TalkStarts, CostStarts DEF Init, ServerInv
  <1>2. ServerInv /\ [Next]_vars => ServerInv'
    <2> SUFFICES ASSUME ServerInv, [Next]_vars PROVE ServerInv'
      OBVIOUS
    <2>1. busy' \in Parts
      BY DEF Next, vars, ServerInv
    <2>2. RecordInv' /\ LimitsInv'
      BY IntakeSteps, RecordKeeps, LimitsKeep DEF ServerInv
    <2>3. AccountsInv' /\ OwnerInv'
      BY AccountSteps, AccountsKeep, OwnersKeep DEF ServerInv
    <2>4. OutInv' /\ HooksTyped' /\ InInv' /\ HubTyped'
      BY OutSteps, InSteps, OutKeeps, HooksKeep, InKeeps, HubKeeps DEF ServerInv
    <2>5. DigestInv'
      BY DigestSteps, DigestKeeps DEF ServerInv
    <2>6. TalkInv' /\ CostInv'
      BY AssistantSteps, TalkKeeps, CostKeeps DEF ServerInv
    <2> QED BY <2>1, <2>2, <2>3, <2>4, <2>5, <2>6 DEF ServerInv
  <1>3. ServerInv => TypeOK
    BY IntakeTyped, AccountsAreTyped, DeliveryTyped, AssistantTyped DEF ServerInv, DigestInv, TypeOK
  <1> QED
    BY <1>1, <1>2, <1>3, PTL DEF Spec
=============================================================================
