------------------------------ MODULE Accounts ------------------------------
(***************************************************************************)
(* One address and what hangs on it: the account, the links that verify it  *)
(* or reset its password, its API tokens and its profile.  Every operation  *)
(* reads, then awaits a hash, a query or another server, and then writes    *)
(* from what it read; up to one operation per job runs at a time.           *)
(***************************************************************************)
EXTENDS Naturals, FiniteSets

CONSTANTS
    Jobs,         \* operations under way at a time
    Links,        \* links sent by mail
    Tokens,       \* API tokens
    NoAccount,
    TokenLimit,   \* active tokens of a user, 10 in the code
    Texts,        \* bio and avatarUrl, or one of them: they are treated alike
    Languages,    \* languages a profile can name
    LanguageLimit \* how many it names at most, 20 in the code

ASSUME AccountsAssumption ==
    /\ TokenLimit \in Nat \ {0} /\ LanguageLimit \in Nat
    /\ IsFiniteSet(Jobs) /\ IsFiniteSet(Languages)

VARIABLES
    account,  \* NoAccount, or who set the password and whether the address is verified
    links,    \* by link, its kind and what became of it
    tokens,   \* by token, "none", "active" or "revoked"
    texts,    \* by text, "empty", the user's "own", or from GitHub
    spoken,   \* languages of the profile
    job,      \* by job, the operation and what it has read
    resets,   \* history: by link, how often it changed the password
    spent,    \* history: links no reset was using when the password was reset
    crossed   \* history: synchronisations that an edit of the profile has crossed

accountVars == <<account, links, tokens, texts, spoken, job, resets, spent, crossed>>

Idle == [kind |-> "idle"]
Start(j, operation) == job[j] = Idle /\ job' = [job EXCEPT ![j] = operation]
End(j) == job' = [job EXCEPT ![j] = Idle]
At(kind) == {j \in Jobs : job[j].kind = kind}

----------------------------------------------------------------------------
(* Registration and sign-in through another provider.                      *)

\* register, oauthLogin: the address has no account yet.  The hash takes its time.
Register(j, kind) ==
    /\ account = NoAccount
    /\ Start(j, [kind |-> kind])
    /\ UNCHANGED <<account, links, tokens, texts, spoken, resets, spent, crossed>>

\* The address is unique: whoever comes second leaves the account as it is.
Registered(j) ==
    /\ job[j].kind \in {"register", "oauth"}
    /\ account' = IF account = NoAccount THEN [password |-> job[j].kind, verified |-> TRUE]
                  ELSE account
    /\ End(j)
    /\ UNCHANGED <<links, tokens, texts, spoken, resets, spent, crossed>>

\* oauthLogin of an account that was never verified.
VerifiedElsewhere ==
    /\ account # NoAccount /\ ~account.verified
    /\ account' = [account EXCEPT !.verified = TRUE]
    /\ UNCHANGED <<links, tokens, texts, spoken, job, resets, spent, crossed>>

----------------------------------------------------------------------------
(* Links.                                                                  *)

\* requestPasswordReset, resendVerification
Send(l, kind) ==
    /\ account # NoAccount
    /\ kind = "verify" => ~account.verified
    /\ links[l].state = "none"
    /\ links' = [links EXCEPT ![l] = [kind |-> kind, state |-> "sent"]]
    /\ UNCHANGED <<account, tokens, texts, spoken, job, resets, spent, crossed>>

Expire(l) ==
    /\ links[l].state = "sent"
    /\ links' = [links EXCEPT ![l].state = "expired"]
    /\ UNCHANGED <<account, tokens, texts, spoken, job, resets, spent, crossed>>

\* resetPassword and verifyEmail up to their transaction.
Follow(j, l) ==
    /\ links[l].state = "sent"
    /\ Start(j, [kind |-> links[l].kind, link |-> l])
    /\ UNCHANGED <<account, links, tokens, texts, spoken, resets, spent, crossed>>

\* Only the link that was followed becomes used.
MutantUsedUp(j) == {job[j].link}

\* The links a transaction marks as used: all pending ones of the kind.
UsedUp(j) == {l \in Links : links[l].kind = job[j].kind /\ links[l].state # "none"}

UseUp(j) ==
    links' = [l \in Links |-> IF l \in UsedUp(j) THEN [links[l] EXCEPT !.state = "used"]
                              ELSE links[l]]

Followed(j) == {job[i].link : i \in At("reset") \ {j}}

\* The transaction of resetPassword: password, links and API tokens.
Reset(j) ==
    /\ job[j].kind = "reset"
    /\ account' = [account EXCEPT !.password = "reset"]
    /\ UseUp(j)
    /\ tokens' = [t \in Tokens |-> IF tokens[t] = "active" THEN "revoked" ELSE tokens[t]]
    /\ resets' = [resets EXCEPT ![job[j].link] = @ + 1]
    /\ spent' = spent \cup {l \in Links : links[l].kind = "reset" /\ links[l].state # "none"
                                          /\ l \notin Followed(j)}
    /\ End(j)
    /\ UNCHANGED <<texts, spoken, crossed>>

\* The transaction of verifyEmail.
Verify(j) ==
    /\ job[j].kind = "verify"
    /\ account' = [account EXCEPT !.verified = TRUE]
    /\ UseUp(j)
    /\ End(j)
    /\ UNCHANGED <<tokens, texts, spoken, resets, spent, crossed>>

----------------------------------------------------------------------------
(* API tokens.  Both calls need a session: with a token they are refused.   *)

Active == {t \in Tokens : tokens[t] = "active"}

\* One token too many passes.
MutantBelowLimit == Cardinality(Active) <= TokenLimit

BelowLimit == Cardinality(Active) < TokenLimit

\* createApiToken: the count, and then the row.
CreateToken(j) ==
    /\ account # NoAccount
    /\ BelowLimit
    /\ Start(j, [kind |-> "token"])
    /\ UNCHANGED <<account, links, tokens, texts, spoken, resets, spent, crossed>>

TokenCreated(j, t) ==
    /\ job[j].kind = "token"
    /\ tokens[t] = "none"
    /\ tokens' = [tokens EXCEPT ![t] = "active"]
    /\ End(j)
    /\ UNCHANGED <<account, links, texts, spoken, resets, spent, crossed>>

\* revokeApiToken: a conditional write.
Revoke(t) ==
    /\ t \in Active
    /\ tokens' = [tokens EXCEPT ![t] = "revoked"]
    /\ UNCHANGED <<account, links, texts, spoken, job, resets, spent, crossed>>

----------------------------------------------------------------------------
(* The profile.                                                            *)

\* updateProfile and the calls that set or remove the avatar: one write.
EditText(f, value) ==
    /\ account # NoAccount
    /\ texts' = [texts EXCEPT ![f] = value]
    /\ crossed' = At("sync")
    /\ UNCHANGED <<account, links, tokens, spoken, job, resets, spent>>

EditLanguages(S) ==
    /\ account # NoAccount
    /\ spoken' = S
    /\ crossed' = At("sync")
    /\ UNCHANGED <<account, links, tokens, texts, job, resets, spent>>

\* syncGithubProfileToUser: the profile on GitHub has been fetched, that of the
\* user is read.
Sync(j) ==
    /\ account # NoAccount
    /\ Start(j, [kind |-> "sync", texts |-> texts, spoken |-> spoken])
    /\ UNCHANGED <<account, links, tokens, texts, spoken, resets, spent, crossed>>

\* What GitHub has replaces what the user has.
MutantFilled(j, hubTexts) == hubTexts

\* senkronVerisiHazirla: of the texts on GitHub, those the user had left empty.
Filled(j, hubTexts) == {f \in hubTexts : job[j].texts[f] = "empty"}

\* The languages of the user first, then those on GitHub, cut at the limit.
Merged(j, hubLanguages, S) ==
    LET mine == job[j].spoken  all == mine \cup hubLanguages IN
    /\ mine \subseteq S /\ S \subseteq all
    /\ IF Cardinality(all) > LanguageLimit THEN Cardinality(S) = LanguageLimit ELSE S = all

SyncWrite(j, hubTexts, hubLanguages) ==
    /\ job[j].kind = "sync"
    /\ texts' = [f \in Texts |-> IF f \in Filled(j, hubTexts) THEN "hub" ELSE texts[f]]
    /\ \E S \in SUBSET Languages :
        /\ Merged(j, hubLanguages, S)
        /\ spoken' = IF S = job[j].spoken THEN spoken ELSE S
    /\ crossed' = crossed \ {j}
    /\ End(j)
    /\ UNCHANGED <<account, links, tokens, resets, spent>>

----------------------------------------------------------------------------
(* The account may be there already, from before verification was dropped.  *)
AccountsInit ==
    /\ account \in {NoAccount, [password |-> "register", verified |-> FALSE]}
    /\ links = [l \in Links |-> [kind |-> "reset", state |-> "none"]]
    /\ tokens = [t \in Tokens |-> "none"]
    /\ texts = [f \in Texts |-> "empty"]
    /\ spoken = {}
    /\ job = [j \in Jobs |-> Idle]
    /\ resets = [l \in Links |-> 0]
    /\ spent = {} /\ crossed = {}

AccessNext ==
    \/ VerifiedElsewhere
    \/ \E l \in Links : Expire(l) \/ \E kind \in {"reset", "verify"} : Send(l, kind)
    \/ \E t \in Tokens : Revoke(t)
    \/ \E j \in Jobs :
        \/ \E kind \in {"register", "oauth"} : Register(j, kind)
        \/ Registered(j) \/ Reset(j) \/ Verify(j) \/ CreateToken(j)
        \/ \E l \in Links : Follow(j, l)
        \/ \E t \in Tokens : TokenCreated(j, t)

ProfileNext ==
    \/ \E f \in Texts, value \in {"empty", "own"} : EditText(f, value)
    \/ \E S \in SUBSET Languages : Cardinality(S) <= LanguageLimit /\ EditLanguages(S)
    \/ \E j \in Jobs :
        Sync(j) \/ \E F \in SUBSET Texts, S \in SUBSET Languages : SyncWrite(j, F, S)

----------------------------------------------------------------------------
(* Types; the active tokens exceed the limit by at most the calls that were  *)
(* past the count together, and the languages never exceed theirs.          *)
AccountsTypeOK ==
    /\ account \in {NoAccount} \cup
           [password: {"register", "oauth", "reset"}, verified: BOOLEAN]
    /\ links \in [Links -> [kind: {"reset", "verify"},
                            state: {"none", "sent", "expired", "used"}]]
    /\ tokens \in [Tokens -> {"none", "active", "revoked"}]
    /\ Cardinality(Active) + Cardinality(At("token")) < TokenLimit + Cardinality(Jobs)
    /\ texts \in [Texts -> {"empty", "own", "hub"}]
    /\ spoken \subseteq Languages /\ Cardinality(spoken) <= LanguageLimit
    /\ \A j \in Jobs : job[j].kind \in {"idle", "register", "oauth", "reset", "verify",
                                        "token", "sync"}
    /\ resets \in [Links -> 0 .. Cardinality(Jobs)]
    /\ spent \subseteq Links /\ crossed \subseteq Jobs

(* Once the password has been reset, no link sent before changes it again,   *)
(* save one that was being followed at that moment, and no API token from    *)
(* before is active.                                                        *)
ResetIsFinal ==
    [][/\ \A l \in spent : resets'[l] = resets[l]
       /\ resets' # resets => \A t \in Active : tokens'[t] # "active"]_accountVars

(* What users wrote in their profile is never lost to a synchronisation, but *)
(* for one that had read the profile before they wrote.                     *)
ProfileKept ==
    [][\A j \in At("sync") \ crossed : job'[j] = Idle =>
            /\ \A f \in Texts : texts[f] = "own" => texts'[f] = "own"
            /\ job[j].spoken \cap spoken \subseteq spoken']_accountVars
=============================================================================
