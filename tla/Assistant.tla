------------------------------ MODULE Assistant ------------------------------
(***************************************************************************)
(* One request to the AI assistant.  In a chat the provider may answer with *)
(* calls of tools, which change the project; their results go into the      *)
(* history of the next round.  Providers limit the rate of calls, answer    *)
(* with errors, or not in time.                                             *)
(*                                                                          *)
(* What a provider answers is external.  It is taken to be reasonable in    *)
(* one thing: it does not ask again for what it is shown to be done.        *)
(***************************************************************************)
EXTENDS Naturals, FiniteSets

CONSTANTS
    Wishes,       \* what the tools can be asked for, with arguments
    AdminWishes,  \* those of ADMIN_ONLY_TOOLS
    BatchSize,    \* tool calls at a time
    MaxRounds,    \* MAX_ROUNDS
    MaxAttempts   \* MAX_RETRIES

ASSUME AssistantAssumption ==
    /\ AdminWishes \subseteq Wishes /\ IsFiniteSet(Wishes)
    /\ {BatchSize, MaxRounds, MaxAttempts} \subseteq Nat \ {0}

VARIABLES
    talk,     \* the request
    office,   \* role of the user
    again,    \* history: wishes carried out although they had been reported as done
    forgot,   \* history: a call was repeated without results it had had
    cost      \* history: answers of the provider

assistantVars == <<talk, office, again, forgot, cost>>

\* getProvider: whose API the address of the configuration speaks.
Providers == {"openai", "gemini"}

TalkKinds == {"chat", "details", "insights", "push", "test"}
Silent == [phase |-> "idle"]
Over == [phase |-> "over"]

----------------------------------------------------------------------------
(* The request, up to the first call of the provider.                      *)

\* toolsForRole, by the role the user has when the message comes.
Offered(role) == IF role = "ADMIN" THEN Wishes ELSE Wishes \ AdminWishes

Ask(kind, p, offered) ==
    /\ talk.phase = "idle"
    /\ talk' = [phase |-> "ask", kind |-> kind, provider |-> p, offered |-> offered,
                round |-> 0, attempt |-> 1, retried |-> FALSE, late |-> FALSE,
                sees |-> {}, memory |-> {}, asked |-> {}, todo |-> {}, running |-> {}]
    /\ UNCHANGED <<office, again, forgot, cost>>

SendMessage(p) == Ask("chat", p, Offered(office))
GenerateCardDetails(p) == Ask("details", p, {})
GenerateProjectInsights(p) == Ask("insights", p, {})
AskAboutPush(p) == Ask("push", p, {})
TestConfiguration(p) == Ask("test", p, {})

\* No key, no project, no membership: answered without the provider.
AnsweredAtOnce ==
    /\ talk.phase = "idle"
    /\ talk' = Over
    /\ UNCHANGED <<office, again, forgot, cost>>

----------------------------------------------------------------------------
(* Answers of the provider.                                                *)

Answered ==
    /\ talk.phase = "ask" /\ ~talk.late
    /\ cost' = cost + 1
    /\ UNCHANGED <<office, again>>

\* Calls written into the text of a reply name any tool, offered or not.
Nameable == IF talk.provider = "openai" THEN Wishes ELSE talk.offered

\* The calls of a reply.
Called(W) ==
    /\ talk.kind = "chat" /\ W # {} /\ W \subseteq Nameable \ talk.sees
    /\ talk' = [talk EXCEPT !.phase = "run", !.asked = W, !.todo = W]
    /\ UNCHANGED forgot

\* tool_calls, in any round.
OpenAICalls(W) == talk.provider = "openai" /\ Answered /\ Called(W)

\* functionCall parts.
GeminiCalls(W) == talk.provider = "gemini" /\ Answered /\ Called(W)

\* Text is the answer of the request; so is what is left of it after an error.
TextReply == Answered /\ talk' = Over /\ UNCHANGED forgot

\* An error: no service, no message, not JSON.  A chat asks once more, with the
\* messages it began with; the results of its tools are not among them.
ErrorReply ==
    /\ Answered
    /\ IF talk.kind = "chat" /\ talk.provider = "openai" /\ ~talk.retried
       THEN /\ talk' = [talk EXCEPT !.retried = TRUE, !.attempt = 1, !.sees = {}]
            /\ forgot' = (forgot \/ talk.sees # {})
       ELSE talk' = Over /\ UNCHANGED forgot

\* 429: the same call again after a delay, MaxAttempts times in all.
Limited ==
    /\ Answered /\ UNCHANGED forgot
    /\ talk' = IF talk.attempt < MaxAttempts THEN [talk EXCEPT !.attempt = @ + 1] ELSE Over

OpenAILimited == talk.provider = "openai" /\ Limited
GeminiLimited == talk.provider = "gemini" /\ Limited

\* fetch throws.  Where response_format was set the call is made once more
\* without it.
CallFails ==
    /\ Answered /\ UNCHANGED forgot
    /\ talk' = IF talk.kind \in {"details", "push"} /\ talk.provider = "openai" /\ ~talk.retried
               THEN [talk EXCEPT !.retried = TRUE, !.attempt = 1]
               ELSE Over

----------------------------------------------------------------------------
(* Tools.  Nothing stops them once the reply is there, the timer neither.  *)

NextBatch ==
    /\ talk.phase = "run" /\ talk.running = {} /\ talk.todo # {}
    /\ \E B \in SUBSET talk.todo :
        /\ IF Cardinality(talk.todo) <= BatchSize THEN B = talk.todo
                                                  ELSE Cardinality(B) = BatchSize
        /\ talk' = [talk EXCEPT !.running = B, !.todo = @ \ B]
    /\ UNCHANGED <<office, again, forgot, cost>>

\* executeToolByName: the services check the role of the user anew.  What they
\* throw after their write is reported as a failure all the same.
RunTool(w, result) ==
    /\ talk.phase = "run" /\ w \in talk.running
    /\ result = "failed" \/ w \notin AdminWishes \/ office = "ADMIN"
    /\ talk' = [talk EXCEPT !.running = @ \ {w},
                            !.memory = IF result = "done" THEN @ \cup {w} ELSE @]
    /\ again' = IF result # "failed" /\ w \in talk.memory THEN again \cup {w} ELSE again
    /\ UNCHANGED <<office, forgot, cost>>

\* The calls would stay in the history, their results would not.
MutantRemember == talk.sees

\* The history the next round begins with: all that came before, and the results.
Remember == talk.memory

\* After more calls than a batch a summary of the results ends the chat.
Summarised == Cardinality(talk.asked) > BatchSize

RoundOver ==
    /\ talk.phase = "run" /\ talk.running = {} /\ talk.todo = {}
    /\ talk' = IF Summarised \/ talk.round = MaxRounds - 1 THEN Over
               ELSE [talk EXCEPT !.phase = "ask", !.round = @ + 1, !.attempt = 1,
                                 !.sees = Remember, !.asked = {}]
    /\ UNCHANGED <<office, again, forgot, cost>>

----------------------------------------------------------------------------
(* The timer of the request, and the user.                                 *)

TimeUp ==
    /\ talk.phase \in {"ask", "run"} /\ ~talk.late
    /\ talk' = [talk EXCEPT !.late = TRUE]
    /\ UNCHANGED <<office, again, forgot, cost>>

\* The call under way throws, and so does any further one.
Aborted ==
    /\ talk.phase = "ask" /\ talk.late
    /\ talk' = Over
    /\ UNCHANGED <<office, again, forgot, cost>>

\* At any time; it is read when the message comes, from where it starts out, and
\* by the tools.
OfficeChanges ==
    /\ talk.phase = "run"
    /\ office' \in {"ADMIN", "MEMBER"} \ {office}
    /\ UNCHANGED <<talk, again, forgot, cost>>

----------------------------------------------------------------------------
AssistantInit ==
    /\ talk = Silent
    /\ office \in {"ADMIN", "MEMBER"}
    /\ again = {} /\ forgot = FALSE /\ cost = 0

AssistantNext ==
    \/ \E p \in Providers : SendMessage(p) \/ GenerateCardDetails(p)
                            \/ GenerateProjectInsights(p) \/ AskAboutPush(p) \/ TestConfiguration(p)
    \/ AnsweredAtOnce
    \/ talk.phase = "ask" /\ \/ \E W \in SUBSET Wishes : OpenAICalls(W) \/ GeminiCalls(W)
                             \/ TextReply \/ ErrorReply \/ OpenAILimited \/ GeminiLimited
                             \/ CallFails
    \/ NextBatch
    \/ \E w \in Wishes, result \in {"done", "failed", "thrown"} : RunTool(w, result)
    \/ RoundOver
    \/ TimeUp \/ Aborted \/ OfficeChanges

----------------------------------------------------------------------------
\* A request at work.
Talk ==
    [phase: {"ask", "run"}, kind: TalkKinds, provider: Providers, offered: SUBSET Wishes,
     round: 0 .. MaxRounds - 1, attempt: 1 .. MaxAttempts, retried: BOOLEAN, late: BOOLEAN,
     sees: SUBSET Wishes, memory: SUBSET Wishes, asked: SUBSET Wishes,
     todo: SUBSET Wishes, running: SUBSET Wishes]

(* Types, and with them how often a request asks the provider at most:      *)
(* MaxAttempts times for each round and for the one repetition.             *)
AssistantTypeOK ==
    /\ talk \in Talk \cup {Silent, Over}
    /\ talk.phase = "run" => Cardinality(talk.running) <= BatchSize
    /\ office \in {"ADMIN", "MEMBER"}
    /\ again \subseteq Wishes
    /\ forgot \in BOOLEAN
    /\ cost <= MaxAttempts * (MaxRounds + 1)

(* However the provider, the timer and the role of the user behave, what a   *)
(* tool has reported as done is not done again, unless callWithRetry left    *)
(* the reports out of the call it repeated.                                 *)
DoneOnce == again = {} \/ forgot
=============================================================================
