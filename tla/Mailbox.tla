------------------------------ MODULE Mailbox ------------------------------
(***************************************************************************)
(* The mail between the members of an organisation: drafts, sending, replies *)
(* and what recipients do.  A draft is checked to be one when a request      *)
(* begins and again, in one query, when it is sent; an edit that does not    *)
(* send, and a deletion, check it only at the beginning.                     *)
(***************************************************************************)
EXTENDS Naturals, FiniteSets

CONSTANTS
    Staff,    \* users
    Letters,  \* ids of mails
    NoLetter,
    Desks     \* requests under way at a time

ASSUME MailAssumption == NoLetter \notin Letters

VARIABLES
    present,     \* members of the organisation
    letter,      \* by id, the mail
    discarded,   \* by id, recipients who took it out of their inbox
    desk,        \* requests under way
    told,        \* history: by id and user, how often the mail was announced
    lost,        \* history: mails whose sending stopped after it was claimed
    overwritten  \* history: sent mails changed by an edit that had found a draft

mailVars == <<present, letter, discarded, desk, told, lost, overwritten>>

Vacant == [kind |-> "vacant"]
NoMail == [state |-> "none", sender |-> NoLetter, to |-> {}, root |-> NoLetter]
Clear(d) == desk' = [desk EXCEPT ![d] = Vacant]

NewLetters == {m \in Letters : letter[m] = NoMail}
NewLetter == CHOOSE m \in NewLetters : TRUE

\* resolveRecipients: groups and names come down to members, but for the sender.
Resolve(named, u) == (named \cap present) \ {u}

\* notifyRecipients: who muted the notification still gets the mail.
Announced(m, to) ==
    told' = [told EXCEPT ![m] = [p \in Staff |-> IF p \in to THEN @[p] + 1 ELSE @[p]]]

----------------------------------------------------------------------------
\* A new mail of u, in the conversation of another one or its own; if it is no
\* draft it is announced next.
Write(d, m, u, named, draft, root) ==
    /\ desk[d] = Vacant /\ u \in present
    /\ LET to == Resolve(named, u)
       IN /\ draft \/ to # {}
          /\ letter' = [letter EXCEPT ![m] =
                  [state |-> IF draft THEN "draft" ELSE "sent", sender |-> u, to |-> to,
                   root |-> root]]
          /\ desk' = IF draft THEN desk
                     ELSE [desk EXCEPT ![d] = [kind |-> "announce", letter |-> m, to |-> to, all |-> FALSE]]
    /\ discarded' = [discarded EXCEPT ![m] = {}]
    /\ UNCHANGED <<present, told, lost, overwritten>>

ComposeMail(d, u, named, draft) ==
    NewLetters # {} /\ Write(d, NewLetter, u, named, draft, NewLetter)

\* replyToMail: who sent or received a mail that is no draft answers its sender,
\* answers all, or forwards it.
ReplyToMail(d, n, u, named, draft) ==
    /\ NewLetters # {}
    /\ letter[n].state = "sent"
    /\ u \in letter[n].to \cup {letter[n].sender}
    /\ \/ named = {letter[n].sender}
       \/ named = letter[n].to \cup {letter[n].sender}
       \/ named \in SUBSET Staff
    /\ Write(d, NewLetter, u, named, draft, letter[n].root)

----------------------------------------------------------------------------
(* Drafts.                                                                 *)

\* updateDraft up to the claim: the mail is a draft of a member, and its
\* recipients are resolved if they are given.
UpdateDraft(d, m, send, change, named) ==
    /\ desk[d] = Vacant
    /\ letter[m].state = "draft" /\ letter[m].sender \in present
    /\ LET to == IF change THEN Resolve(named, letter[m].sender) ELSE letter[m].to
       IN /\ send => to # {}
          /\ desk' = [desk EXCEPT ![d] =
                  [kind |-> IF send THEN "claim" ELSE "edit", letter |-> m, change |-> change,
                   send |-> send, to |-> IF change THEN to ELSE {}]]
    /\ UNCHANGED <<present, letter, discarded, told, lost, overwritten>>

\* Mutant: the sending request relies on its first check.
MutantClaimable(m) == letter[m].state \in {"draft", "sent"}

\* The update that sends names drafts only.
Claimable(m) == letter[m].state = "draft"

Claim(d) ==
    /\ desk[d].kind = "claim"
    /\ IF Claimable(desk[d].letter)
       THEN /\ letter' = [letter EXCEPT ![desk[d].letter].state = "sent"]
            /\ desk' = [desk EXCEPT ![d].kind = "edit"]
       ELSE Clear(d) /\ UNCHANGED letter
    /\ UNCHANGED <<present, discarded, told, lost, overwritten>>

\* The transaction: recipients, if they are given, and the text.
Rewrite(d) ==
    /\ desk[d].kind = "edit"
    /\ LET m == desk[d].letter
       IN IF letter[m].state \in {"none", "deleted"}
          THEN Clear(d) /\ UNCHANGED <<letter, discarded, overwritten>>
          ELSE /\ IF desk[d].change
                  THEN /\ letter' = [letter EXCEPT ![m].to = desk[d].to]
                       /\ discarded' = [discarded EXCEPT ![m] = {}]
                  ELSE UNCHANGED <<letter, discarded>>
               /\ IF desk[d].send
                  THEN /\ desk' = [desk EXCEPT ![d] =
                              [kind |-> "announce", letter |-> m, to |-> {}, all |-> TRUE]]
                       /\ UNCHANGED overwritten
                  ELSE /\ Clear(d)
                       /\ overwritten' = IF letter[m].state = "sent" THEN overwritten \cup {m}
                                         ELSE overwritten
    /\ UNCHANGED <<present, told, lost>>

\* A draft that is sent is announced to the recipients it has by now.
Announce(d) ==
    /\ desk[d].kind = "announce"
    /\ LET m == desk[d].letter
       IN Announced(m, IF desk[d].all THEN letter[m].to ELSE desk[d].to)
    /\ Clear(d)
    /\ UNCHANGED <<present, letter, discarded, lost, overwritten>>

\* deleteMail of a draft; its files go in between.
DropDraft(d, m) ==
    /\ desk[d] = Vacant
    /\ letter[m].state = "draft" /\ letter[m].sender \in present
    /\ desk' = [desk EXCEPT ![d] = [kind |-> "drop", letter |-> m]]
    /\ UNCHANGED <<present, letter, discarded, told, lost, overwritten>>

\* The row goes with its recipients, draft or not by now.
Dropped(d) ==
    /\ desk[d].kind = "drop"
    /\ letter' = [letter EXCEPT ![desk[d].letter].state = "deleted", ![desk[d].letter].to = {}]
    /\ Clear(d)
    /\ UNCHANGED <<present, discarded, told, lost, overwritten>>

StopDesk(d) ==
    /\ desk[d] # Vacant
    /\ Clear(d)
    /\ lost' = IF desk[d].kind = "announce" \/ (desk[d].kind = "edit" /\ desk[d].send)
               THEN lost \cup {desk[d].letter} ELSE lost
    /\ UNCHANGED <<present, letter, discarded, told, overwritten>>

----------------------------------------------------------------------------
(* Recipients.                                                             *)

Holds(p, m) == letter[m].state = "sent" /\ p \in letter[m].to

\* deleteMail of a sent one
DiscardMail(p, m) ==
    /\ p \in present /\ Holds(p, m)
    /\ discarded' = [discarded EXCEPT ![m] = @ \cup {p}]
    /\ UNCHANGED <<present, letter, desk, told, lost, overwritten>>

JoinOrLeave(p) ==
    /\ present' = IF p \in present THEN present \ {p} ELSE present \cup {p}
    /\ UNCHANGED <<letter, discarded, desk, told, lost, overwritten>>

MailInit ==
    /\ present = Staff
    /\ letter = [m \in Letters |-> NoMail]
    /\ discarded = [m \in Letters |-> {}]
    /\ desk = [d \in Desks |-> Vacant]
    /\ told = [m \in Letters |-> [p \in Staff |-> 0]]
    /\ lost = {} /\ overwritten = {}

\* One mail and its drafts, or several mails without drafts.
DraftNext ==
    \/ \E d \in Desks, u \in Staff, named \in SUBSET Staff, draft \in BOOLEAN :
        NewLetters = Letters /\ ComposeMail(d, u, named, draft)
    \/ \E d \in Desks, m \in Letters :
        \/ \E send, change \in BOOLEAN, named \in SUBSET Staff : UpdateDraft(d, m, send, change, named)
        \/ DropDraft(d, m)
    \/ \E d \in Desks : Claim(d) \/ Rewrite(d) \/ Announce(d) \/ Dropped(d) \/ StopDesk(d)
    \/ \E p \in Staff : JoinOrLeave(p)

ReplyNext ==
    \/ \E d \in Desks, u \in Staff, named \in SUBSET Staff :
        \/ ComposeMail(d, u, named, FALSE)
        \/ \E n \in Letters : ReplyToMail(d, n, u, named, FALSE)
    \/ \E d \in Desks : Announce(d) \/ StopDesk(d)
    \/ \E p \in Staff : \E m \in Letters : DiscardMail(p, m)

----------------------------------------------------------------------------
(* Properties.                                                             *)

DeskTypes ==
    {Vacant}
    \cup [kind : {"claim", "edit"}, letter : Letters, change : BOOLEAN, send : BOOLEAN,
          to : SUBSET Staff]
    \cup [kind : {"announce"}, letter : Letters, to : SUBSET Staff, all : BOOLEAN]
    \cup [kind : {"drop"}, letter : Letters]

\* Types; a conversation has one root, a mail that is its own (schema.prisma:1078).
MailTypeOK ==
    /\ present \subseteq Staff
    /\ \A m \in Letters :
         \/ letter[m] = NoMail
         \/ /\ letter[m].state \in {"draft", "sent", "deleted"}
            /\ letter[m].sender \in Staff /\ letter[m].to \subseteq Staff
            /\ letter[letter[m].root].root = letter[m].root
    /\ discarded \in [Letters -> SUBSET Staff]
    /\ \A d \in Desks : desk[d] \in DeskTypes
    /\ told \in [Letters -> [Staff -> Nat]]
    /\ lost \cup overwritten \subseteq Letters

Sending(m) ==
    \E d \in Desks :
        \/ desk[d].kind = "announce" /\ desk[d].letter = m
        \/ desk[d].kind = "edit" /\ desk[d].send /\ desk[d].letter = m

\* updateDraft ("notifyRecipients iki kez calisiyordu"): however often a mail is
\* asked to be sent, each recipient is told of it once; and once it is sent each
\* recipient has been, unless the sending stopped on the way or an edit that
\* found a draft changed the recipients afterwards.
ToldOnce ==
    /\ \A m \in Letters, p \in Staff : told[m][p] <= 1
    /\ \A m \in Letters \ (lost \cup overwritten) :
         letter[m].state = "sent" /\ ~Sending(m) => \A p \in letter[m].to : told[m][p] = 1
=============================================================================
